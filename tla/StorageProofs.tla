---------------------------- MODULE StorageProofs ----------------------------
(***************************************************************************)
(* Proofs about the figure storage, for every number of slots, catalogue,  *)
(* assignment of UIDs and timing.                                          *)
(***************************************************************************)
EXTENDS Storage, FiniteSetTheorems, WellFoundedInduction, TLAPS

\* The search loops of the code find the first element of a non-empty set.
LEMMA FirstIn ==
    ASSUME NEW S \in SUBSET Nat, S # {}
    PROVE  First(S) \in S /\ \A j \in S : First(S) <= j
  <1> DEFINE R == {ss \in Nat \X Nat : ss[1] < ss[2]}
  <1>1. IsWellFoundedOn(R, Nat)
    BY NatLessThanWellFounded, Zenon DEF OpToRel
  <1>2. PICK i \in S : \A j \in S : ~(<<j, i>> \in R)
    <2> HIDE DEF R
    <2> QED BY <1>1, WFMin
  <1>3. ASSUME NEW j \in S PROVE i <= j
    <2>1. i \in Nat /\ j \in Nat
      OBVIOUS
    <2>2. ~(j < i)
      BY <1>2, <2>1
    <2> QED BY <2>1, <2>2
  <1>4. \A j \in S : i <= j
    BY <1>3
  <1> QED BY <1>4 DEF First

LEMMA SlotFacts ==
    /\ Slots \subseteq Nat /\ Slots # {} /\ 0 \in Slots
    /\ None \notin Slots
    /\ IsFiniteSet(Slots)
  <1>1. N \in Nat /\ N # 0 /\ 0 \in Int /\ N - 1 \in Int
    BY StorageAssumption
  <1>2. IsFiniteSet(0..(N - 1))
    BY <1>1, FS_Interval
  <1>3. Slots \subseteq Nat /\ Slots # {} /\ 0 \in Slots /\ None \notin Slots
    BY <1>1 DEF Slots, None
  <1> QED BY <1>2, <1>3 DEF Slots

\* Slots are numbered modulo N, generations modulo GenMod.
LEMMA ModFacts ==
    /\ \A s \in Slots : (s + 1) % N \in Slots
    /\ \A s, j \in Slots : (s + j) % N \in Slots
    /\ \A g \in Gens : NextGen(g) \in Gens
    /\ 0 \in Gens
  BY StorageAssumption DEF Slots, Gens, NextGen

\* By counting: when no position but u is free of a figure, and u is, some slot
\* is free.
LEMMA RoomForOne ==
    ASSUME TypeOK, UiMap, NEW u \in Slots, ui[u] \notin Slots
    PROVE  \E s \in Slots : ~occupied[s]
  <1> SUFFICES ASSUME \A s \in Slots : occupied[s] PROVE FALSE OBVIOUS
  <1> DEFINE P == Slots \ {u}
             f == [s \in Slots |-> CHOOSE v \in Slots : ui[v] = s]
  <1>1. \A s \in Slots : f[s] \in P /\ ui[f[s]] = s
    BY DEF UiMap
  <1>2. f \in Injection(Slots, P)
    BY <1>1 DEF Injection, IsInjective
  <1>3. /\ IsFiniteSet(P) /\ Cardinality(Slots) \in Nat
        /\ Cardinality(P) = Cardinality(Slots) - 1
    BY SlotFacts, FS_RemoveElement, FS_CardinalityType
  <1>4. Cardinality(Slots) <= Cardinality(P)
    BY <1>2, <1>3, FS_Injection
  <1> QED BY <1>3, <1>4
-----------------------------------------------------------------------------
LEMMA InitInv == Init => StorageInv
  <1> SUFFICES ASSUME Init PROVE StorageInv OBVIOUS
  <1>1. TypeOK
    <2>1. /\ id \in [Slots -> Ids]
          /\ uid \in [Slots -> Uids \cup {NoUid}] /\ ui \in [Slots -> Slots \cup {None}]
          /\ gen \in [Slots -> Gens] /\ saved \in [Slots -> Gens] /\ card \in [Slots -> Gens]
      BY ModFacts, StorageAssumption DEF Init
    <2>2. job \in Jobs
      BY SlotFacts, ModFacts, StorageAssumption DEF Init, NoJob, Jobs
    <2>3. /\ cursor \in Slots /\ retry \in 0..RetryTicks
          /\ phase \in 0..(MailboxTicks - 1)
      BY SlotFacts, StorageAssumption DEF Init
    <2>4. occupied \in [Slots -> BOOLEAN] /\ present \in [Slots -> BOOLEAN]
      BY DEF Init
    <2>5. /\ busy \in BOOLEAN /\ error \in BOOLEAN /\ ready \in BOOLEAN
          /\ autoload \in BOOLEAN /\ flush \in BOOLEAN
          /\ pc \in {"idle", "mailbox", "poll"}
          /\ act \in Acts \cup {NoAct} /\ req \in Requests \cup {NoReq}
      BY DEF Init
    <2> QED BY <2>1, <2>2, <2>3, <2>4, <2>5 DEF TypeOK
  <1>2. OneOwner /\ UidHome /\ CardInv /\ AutoloadMeansEmpty
    BY DEF Init, OneOwner, UidHome, CardInv, AutoloadMeansEmpty
  <1>3. UiMap /\ PresentIffHeld
    BY SlotFacts DEF Init, UiMap, PresentIffHeld
  <1>4. ActInv /\ JobInv
    BY DEF Init, ActInv, JobInv, NoJob
  <1> QED BY <1>1, <1>2, <1>3, <1>4 DEF StorageInv

\* The pending action is NoAct or a load or a removal.
LEMMA ActShape ==
    ASSUME TypeOK
    PROVE  \/ act = NoAct /\ act.kind = "none" /\ act.old = None /\ act.wait = 0
           \/ act \in Acts /\ act # NoAct /\ act.kind \in {"load", "remove"}
  BY DEF TypeOK, Acts, NoAct

\* An action that begins takes the figure of its position off the portal.
LEMMA BeginStep ==
    ASSUME StorageInv, act = NoAct, UNCHANGED <<occupied, id, ui>>,
           NEW u \in Slots, NEW i \in Ids, NEW kind \in {"load", "remove"},
           kind = "load" => Owners(i) = {},
           act' = [kind |-> kind, ui |-> u, id |-> i, old |-> ui[u], wait |-> RemoveTicks],
           present' = [s \in Slots |-> present[s] /\ s # ui[u]]
    PROVE  /\ act' \in Acts /\ act' # NoAct
           /\ present' \in [Slots -> BOOLEAN]
           /\ ActInv' /\ PresentIffHeld'
  <1>1. act' \in Acts /\ act' # NoAct
    BY StorageAssumption DEF StorageInv, TypeOK, Acts, NoAct
  <1>2. present' \in [Slots -> BOOLEAN]
    OBVIOUS
  <1>3. ActInv'
    BY DEF ActInv, Owners
  <1>4. PresentIffHeld'
    BY SlotFacts DEF StorageInv, PresentIffHeld, NoAct
  <1> QED BY <1>1, <1>2, <1>3, <1>4

\* When an action is dropped its old figure, if any, is back.
LEMMA RestoreStep ==
    ASSUME StorageInv, Restore, UNCHANGED <<occupied, id, ui>>
    PROVE  /\ act' = NoAct /\ present' \in [Slots -> BOOLEAN]
           /\ ActInv' /\ PresentIffHeld'
  <1>1. act' = NoAct /\ present' \in [Slots -> BOOLEAN]
    BY DEF Restore, StorageInv, TypeOK
  <1>2. act.old \in Slots => occupied[act.old]
    <2> SUFFICES ASSUME act.old \in Slots PROVE occupied[act.old] OBVIOUS
    <2>1. act \in Acts /\ act # NoAct
      BY ActShape, SlotFacts DEF StorageInv
    <2>2. act.ui \in Slots /\ ui[act.ui] = act.old
      BY <2>1 DEF StorageInv, ActInv, Acts
    <2> QED BY <2>2 DEF StorageInv, UiMap
  <1>3. ASSUME NEW s \in Slots
        PROVE  present'[s] <=> occupied[s]
    <2>1. present'[s] <=> present[s] \/ s = act.old
      BY DEF Restore
    <2>2. present[s] <=> occupied[s] /\ s # act.old
      BY DEF StorageInv, PresentIffHeld
    <2> QED BY <2>1, <2>2, <1>2
  <1>4. PresentIffHeld'
    BY <1>1, <1>3, SlotFacts DEF PresentIffHeld, NoAct
  <1> QED BY <1>1, <1>4 DEF ActInv
-----------------------------------------------------------------------------
LEMMA RequestStep ==
    ASSUME StorageInv, NEW r \in Requests, Request(r)
    PROVE  StorageInv'
  <1>1. TypeOK'
    BY DEF StorageInv, TypeOK, Request, slotVars
  <1>2. OneOwner' /\ UidHome' /\ UiMap' /\ PresentIffHeld' /\ AutoloadMeansEmpty'
    BY DEF StorageInv, Request, slotVars, OneOwner, UidHome, UiMap, PresentIffHeld,
           AutoloadMeansEmpty
  <1>3. ActInv' /\ JobInv' /\ CardInv'
    BY DEF StorageInv, Request, slotVars, ActInv, JobInv, CardInv, Owners, OldDirty, Dirty
  <1> QED BY <1>1, <1>2, <1>3 DEF StorageInv

LEMMA GameWriteStep ==
    ASSUME StorageInv, NEW s \in Slots, GameWrite(s)
    PROVE  StorageInv'
  <1>1. TypeOK'
    BY ModFacts DEF StorageInv, TypeOK, GameWrite
  <1>2. OneOwner' /\ UidHome' /\ UiMap' /\ PresentIffHeld' /\ AutoloadMeansEmpty'
    BY DEF StorageInv, GameWrite, OneOwner, UidHome, UiMap, PresentIffHeld,
           AutoloadMeansEmpty
  <1>3. ActInv' /\ CardInv'
    BY DEF StorageInv, GameWrite, ActInv, CardInv, Owners
  <1>4. JobInv'
    <2>1. \A t \in Slots : t # s => gen'[t] = gen[t]
      BY DEF GameWrite, StorageInv, TypeOK
    <2>2. gen'[s] # saved'[s]
      BY DEF GameWrite, StorageInv, TypeOK
    <2>3. s # act.old
      BY DEF GameWrite, StorageInv, PresentIffHeld
    <2>4. ~OldDirty => ~OldDirty'
      BY <2>1, <2>3 DEF OldDirty, GameWrite
    <2>5. job.op = "save" => job.slot \in Slots
      BY SlotFacts DEF StorageInv, TypeOK, Jobs, NoJob
    <2>6. job.op = "save" => Dirty(job.slot)'
      BY <2>1, <2>2, <2>5 DEF StorageInv, JobInv, Dirty, GameWrite
    <2> QED BY <2>4, <2>6 DEF StorageInv, JobInv, GameWrite
  <1> QED BY <1>1, <1>2, <1>3, <1>4 DEF StorageInv

LEMMA TickStep ==
    ASSUME StorageInv, Tick
    PROVE  StorageInv'
  <1>1. /\ act' \in Acts \cup {NoAct}
        /\ act'.kind = act.kind /\ act'.old = act.old
        /\ act'.ui = act.ui /\ act'.id = act.id
        /\ act' = NoAct <=> act = NoAct
    <2>1. CASE act = NoAct
      BY <2>1 DEF Tick, NoAct, Max0
    <2>2. CASE act # NoAct
      <3>1. act \in Acts /\ act.wait \in 0..RemoveTicks
        BY <2>2 DEF StorageInv, TypeOK, Acts
      <3>2. Max0(act.wait) \in 0..RemoveTicks
        BY <3>1, StorageAssumption DEF Max0
      <3> QED BY <3>1, <3>2, <2>2 DEF Tick, Acts, NoAct
    <2> QED BY <2>1, <2>2
  <1>2. TypeOK'
    <2>1. retry' \in 0..RetryTicks
      BY StorageAssumption DEF Tick, StorageInv, TypeOK, Max0
    <2>2. phase' \in 0..(MailboxTicks - 1)
      BY StorageAssumption DEF Tick, StorageInv, TypeOK
    <2> QED BY <1>1, <2>1, <2>2 DEF Tick, StorageInv, TypeOK, slotVars
  <1>3. OneOwner' /\ UidHome' /\ UiMap' /\ AutoloadMeansEmpty'
    BY DEF StorageInv, Tick, slotVars, OneOwner, UidHome, UiMap, AutoloadMeansEmpty
  <1>4. PresentIffHeld' /\ ActInv' /\ JobInv' /\ CardInv'
    BY <1>1 DEF StorageInv, Tick, slotVars, PresentIffHeld, ActInv, JobInv, CardInv,
                Owners, OldDirty, Dirty
  <1> QED BY <1>2, <1>3, <1>4 DEF StorageInv

\* A poll that changes only the position of the poll, the error, the flush flag
\* and the scan keeps the invariant.
LEMMA QuietStep ==
    ASSUME StorageInv,
           UNCHANGED <<slotVars, ui, act, job, busy, ready, autoload, card, phase>>,
           pc' \in {"idle", "mailbox", "poll"}, cursor' \in Slots,
           error' \in BOOLEAN, flush' \in BOOLEAN, retry' \in 0..RetryTicks,
           req' \in Requests \cup {NoReq}
    PROVE  StorageInv'
  <1>1. TypeOK'
    BY DEF StorageInv, TypeOK, slotVars
  <1>2. OneOwner' /\ UidHome' /\ UiMap' /\ PresentIffHeld' /\ AutoloadMeansEmpty'
    BY DEF StorageInv, slotVars, OneOwner, UidHome, UiMap, PresentIffHeld,
           AutoloadMeansEmpty
  <1>3. ActInv' /\ JobInv' /\ CardInv'
    BY DEF StorageInv, slotVars, ActInv, JobInv, CardInv, Owners, OldDirty, Dirty
  <1> QED BY <1>1, <1>2, <1>3 DEF StorageInv

\* A job is submitted for a dirty slot, or for the entry of a pending load.
LEMMA SubmitStep ==
    ASSUME StorageInv, ~busy,
           NEW op \in {"catalog", "load", "save"}, NEW s \in Slots, NEW i \in Ids,
           Submit(op, s, i),
           UNCHANGED <<slotVars, ui, act, ready, autoload, flush, phase, req, card>>,
           pc' = "idle", cursor' \in Slots,
           op = "save" => Dirty(s),
           op = "load" => act.kind = "load" /\ act.id = i /\ ~OldDirty
    PROVE  StorageInv'
  <1>1. CASE UNCHANGED job
    <2>1. job = NoJob
      BY DEF StorageInv, JobInv
    <2>2. job' # [op |-> op, slot |-> s, id |-> i, st |-> "running",
                  snap |-> IF op = "save" THEN gen[s] ELSE 0]
      BY <1>1, <2>1 DEF NoJob
    <2>3. busy' = FALSE /\ error' = TRUE /\ retry' = RetryTicks
      BY <2>2 DEF Submit
    <2>4. busy \in BOOLEAN /\ flush \in BOOLEAN /\ req \in Requests \cup {NoReq}
      BY DEF StorageInv, TypeOK
    <2>5. busy' = busy
      BY <2>3, <2>4
    <2>6. retry' \in 0..RetryTicks
      BY <2>3, StorageAssumption
    <2> QED BY <1>1, <2>3, <2>4, <2>5, <2>6, QuietStep
  <1>2. CASE ~UNCHANGED job
    <2>1. /\ busy' = TRUE /\ UNCHANGED <<error, retry>>
          /\ job' = [op |-> op, slot |-> s, id |-> i, st |-> "running",
                     snap |-> IF op = "save" THEN gen[s] ELSE 0]
      BY <1>2 DEF Submit
    <2>2. job' \in Jobs /\ job' # NoJob
      <3>1. gen[s] \in Gens /\ 0 \in Gens
        BY ModFacts DEF StorageInv, TypeOK
      <3> QED BY <2>1, <3>1 DEF Jobs, NoJob
    <2>3. TypeOK'
      BY <2>1, <2>2 DEF StorageInv, TypeOK, slotVars
    <2>4. OneOwner' /\ UidHome' /\ UiMap' /\ PresentIffHeld' /\ AutoloadMeansEmpty'
      BY DEF StorageInv, slotVars, OneOwner, UidHome, UiMap, PresentIffHeld,
             AutoloadMeansEmpty
    <2>5. ActInv'
      BY DEF StorageInv, slotVars, ActInv, Owners
    <2>6. JobInv'
      BY <2>1, <2>2 DEF StorageInv, slotVars, JobInv, OldDirty, Dirty
    <2>7. CardInv'
      <3>1. job = NoJob
        BY DEF StorageInv, JobInv
      <3> QED BY <2>1, <3>1 DEF StorageInv, slotVars, CardInv, NoJob
    <2> QED BY <2>3, <2>4, <2>5, <2>6, <2>7 DEF StorageInv
  <1> QED BY <1>1, <1>2

\* What stays true of a storage whose pending action and figures on the portal
\* change but whose slots and job do not, when the job is not a load.
LEMMA ActionStep ==
    ASSUME StorageInv, UNCHANGED <<occupied, id, uid, gen, saved, ui, card, phase>>,
           act' \in Acts \cup {NoAct}, present' \in [Slots -> BOOLEAN],
           ActInv', PresentIffHeld',
           \/ UNCHANGED <<job, busy>> /\ job = NoJob
           \/ job' = NoJob /\ busy' = FALSE,
           job.op # "save" \/ job.st # "ok",
           pc' \in {"idle", "mailbox", "poll"}, cursor' \in Slots,
           error' \in BOOLEAN, flush' \in BOOLEAN, retry' \in 0..RetryTicks,
           ready' \in BOOLEAN, autoload' \in BOOLEAN, autoload' => autoload,
           req' \in Requests \cup {NoReq}
    PROVE  StorageInv'
  <1>1. job' = NoJob /\ ~busy' /\ busy' \in BOOLEAN
    <2>1. busy \in BOOLEAN /\ (job = NoJob => ~busy)
      BY DEF StorageInv, JobInv, TypeOK
    <2>2. CASE UNCHANGED <<job, busy>> /\ job = NoJob
      BY <2>1, <2>2
    <2>3. CASE job' = NoJob /\ busy' = FALSE
      BY <2>3
    <2> QED BY <2>2, <2>3
  <1>2. TypeOK'
    BY <1>1 DEF StorageInv, TypeOK
  <1>3. OneOwner' /\ UidHome' /\ UiMap' /\ AutoloadMeansEmpty'
    BY DEF StorageInv, OneOwner, UidHome, UiMap, AutoloadMeansEmpty
  <1>4. JobInv'
    BY <1>1 DEF JobInv, NoJob
  <1>5. CardInv'
    BY <1>1 DEF StorageInv, CardInv, NoJob
  <1> QED BY <1>2, <1>3, <1>4, <1>5 DEF StorageInv

\* BeginEffect keeps the invariant of the action, begun or refused.
LEMMA BeginEffectStep ==
    ASSUME StorageInv, act = NoAct, UNCHANGED <<occupied, id, ui>>,
           NEW u \in Slots, NEW i \in Ids, NEW kind \in {"load", "remove"},
           BeginEffect(u, i, kind)
    PROVE  /\ act' \in Acts \cup {NoAct} /\ present' \in [Slots -> BOOLEAN]
           /\ ActInv' /\ PresentIffHeld'
  <1>1. CASE BeginResult(u, i, kind) = "begun"
    <2>1. kind = "load" => Owners(i) = {}
      BY <1>1 DEF BeginResult
    <2> QED BY <1>1, <2>1, BeginStep DEF BeginEffect
  <1>2. CASE BeginResult(u, i, kind) # "begun"
    <2>1. UNCHANGED <<act, present>>
      BY <1>2 DEF BeginEffect
    <2> QED BY <2>1 DEF StorageInv, TypeOK, ActInv, PresentIffHeld
  <1> QED BY <1>1, <1>2

LEMMA MailboxStep ==
    ASSUME StorageInv, Mailbox
    PROVE  StorageInv'
  <1>1. /\ UNCHANGED <<occupied, id, uid, gen, saved, ui, job, busy, ready, cursor,
                       retry, phase, card>>
        /\ pc' = "poll"
    BY DEF Mailbox
  <1>2. /\ cursor' \in Slots /\ retry' \in 0..RetryTicks /\ ready' \in BOOLEAN
        /\ busy \in BOOLEAN /\ error \in BOOLEAN /\ autoload \in BOOLEAN
        /\ flush \in BOOLEAN /\ req \in Requests \cup {NoReq}
    BY <1>1 DEF StorageInv, TypeOK
  <1>3. CASE UNCHANGED <<act, present, autoload>> /\ error' \in {error, FALSE}
             /\ flush' \in {flush, TRUE} /\ req' \in {req, NoReq}
    BY <1>1, <1>2, <1>3, QuietStep DEF slotVars
  <1>4. CASE /\ req.op \in {"load", "remove"} /\ act = NoAct /\ ~busy
             /\ BeginEffect(req.ui, req.id, req.op)
             /\ LET r == BeginResult(req.ui, req.id, req.op) IN
                /\ error' = IF r = "begun" THEN FALSE
                            ELSE IF r = "same" THEN error ELSE TRUE
                /\ autoload' = (autoload /\ r \notin {"begun", "same"})
             /\ req' = NoReq /\ UNCHANGED flush
    <2>1. req.ui \in Slots /\ req.id \in Ids
      BY <1>2, <1>4, SlotFacts, StorageAssumption DEF Requests, NoReq
    <2>2. /\ act' \in Acts \cup {NoAct} /\ present' \in [Slots -> BOOLEAN]
          /\ ActInv' /\ PresentIffHeld'
      BY <1>1, <1>4, <2>1, BeginEffectStep
    <2>3. job = NoJob
      BY <1>4 DEF StorageInv, JobInv
    <2>4. error' \in BOOLEAN /\ autoload' \in BOOLEAN /\ (autoload' => autoload)
          /\ flush' \in BOOLEAN /\ req' \in Requests \cup {NoReq}
      BY <1>2, <1>4
    <2>5. job.op # "save"
      BY <2>3 DEF NoJob
    <2> QED BY <1>1, <1>2, <2>2, <2>3, <2>4, <2>5, ActionStep
  <1> QED BY <1>3, <1>4 DEF Mailbox

LEMMA PollRemoveStep ==
    ASSUME StorageInv, PollRemove
    PROVE  StorageInv'
  <1>1. act \in Acts /\ act # NoAct /\ act.ui \in Slots /\ act.old = ui[act.ui]
    BY ActShape DEF StorageInv, PollRemove, ActInv, Acts
  <1>2. act' = NoAct /\ act'.old = None /\ None \notin Slots
    BY SlotFacts DEF PollRemove, NoAct
  <1>3. \A s \in Slots : occupied'[s] <=> occupied[s] /\ s # act.old
    BY DEF PollRemove
  <1>4. \A v \in Slots : ui'[v] = IF v = act.ui THEN None ELSE ui[v]
    BY DEF PollRemove, StorageInv, TypeOK
  <1>5. TypeOK'
    BY DEF StorageInv, TypeOK, PollRemove, Polling
  <1>6. OneOwner' /\ UidHome' /\ AutoloadMeansEmpty'
    BY <1>3 DEF StorageInv, PollRemove, OneOwner, UidHome, AutoloadMeansEmpty
  <1>7. UiMap'
    <2>1. ASSUME NEW u \in Slots, NEW v \in Slots, ui'[u] = ui'[v], ui'[u] # None
          PROVE  u = v
      BY <1>4, <2>1 DEF StorageInv, UiMap
    <2>2. ASSUME NEW s \in Slots
          PROVE  occupied'[s] <=> \E u \in Slots : ui'[u] = s
      BY <1>1, <1>2, <1>3, <1>4 DEF StorageInv, UiMap
    <2> QED BY <2>1, <2>2 DEF UiMap
  <1>8. PresentIffHeld'
    BY <1>2, <1>3 DEF StorageInv, PresentIffHeld, PollRemove
  <1>9. ActInv' /\ JobInv' /\ CardInv'
    <2>1. job = NoJob /\ job' = NoJob /\ busy' = busy
      BY DEF StorageInv, JobInv, PollRemove
    <2> QED BY <1>2, <1>3, <2>1
            DEF StorageInv, PollRemove, ActInv, JobInv, CardInv, NoJob
  <1> QED BY <1>5, <1>6, <1>7, <1>8, <1>9 DEF StorageInv

LEMMA PollStep ==
    ASSUME StorageInv, Poll
    PROVE  StorageInv'
  <1>1. /\ cursor \in Slots /\ retry \in 0..RetryTicks /\ ready \in BOOLEAN
        /\ error \in BOOLEAN /\ autoload \in BOOLEAN /\ flush \in BOOLEAN
        /\ req \in Requests \cup {NoReq}
    BY DEF StorageInv, TypeOK
  <1>2. 0 \in Slots /\ 0 \in Ids
    BY SlotFacts, StorageAssumption
  <1>3. CASE PollCatalog
    <2>1. CASE retry = 0
      BY <1>1, <1>2, <1>3, <2>1, SubmitStep DEF PollCatalog, Polling
    <2>2. CASE retry # 0
      BY <1>1, <1>3, <2>2, QuietStep DEF PollCatalog, Polling
    <2> QED BY <2>1, <2>2
  <1>4. CASE PollSaveOld
    <2>1. act.old \in Slots /\ act \in Acts /\ act # NoAct
      BY <1>4, ActShape DEF PollSaveOld, OldDirty, StorageInv
    <2>2. occupied[act.old]
      BY <2>1 DEF StorageInv, ActInv, UiMap, Acts
    <2>3. Dirty(act.old) /\ id[act.old] \in Ids
      BY <1>4, <2>1, <2>2 DEF PollSaveOld, OldDirty, Dirty, StorageInv, TypeOK
    <2> QED BY <1>1, <1>4, <2>1, <2>3, SubmitStep DEF PollSaveOld, Polling, SaveSlot
  <1>5. CASE PollRemove
    BY <1>5, PollRemoveStep
  <1>6. CASE PollLoad
    <2>1. act.id \in Ids
      BY <1>6, ActShape DEF PollLoad, StorageInv, Acts
    <2> QED BY <1>1, <1>2, <1>6, <2>1, SubmitStep DEF PollLoad, Polling
  <1>7. CASE PollAutoload
    <2>1. /\ act' \in Acts \cup {NoAct} /\ present' \in [Slots -> BOOLEAN]
          /\ ActInv' /\ PresentIffHeld'
      BY <1>2, <1>7, BeginEffectStep DEF PollAutoload
    <2>2. job = NoJob /\ job.op # "save"
      BY <1>7 DEF PollAutoload, StorageInv, JobInv, NoJob
    <2>3. error' \in BOOLEAN
      BY <1>1, <1>7 DEF PollAutoload
    <2> QED BY <1>1, <1>7, <2>1, <2>2, <2>3, ActionStep DEF PollAutoload, Polling
  <1>8. CASE PollSave
    <2> DEFINE D == {j \in Slots : Dirty((cursor + j) % N)}
               s == (cursor + First(D)) % N
    <2>1. D # {}
      <3>1. PICK t \in Slots : Dirty(t)
        BY <1>8 DEF PollSave
      <3>2. \E j \in Slots : (cursor + j) % N = t
        <4>1. N \in Nat /\ N # 0 /\ cursor \in 0..(N-1) /\ t \in 0..(N-1)
          BY <1>1, StorageAssumption DEF Slots
        <4>2. CASE t >= cursor
          <5>1. t - cursor \in Slots
            BY <4>1, <4>2 DEF Slots
          <5>2. (cursor + (t - cursor)) % N = t
            BY <4>1, <4>2
          <5> QED BY <5>1, <5>2
        <4>3. CASE t < cursor
          <5>1. t - cursor + N \in Slots
            BY <4>1, <4>3 DEF Slots
          <5>2. (cursor + (t - cursor + N)) % N = t
            BY <4>1, <4>3
          <5> QED BY <5>1, <5>2
        <4> QED BY <4>1, <4>2, <4>3
      <3> QED BY <3>1, <3>2
    <2>2. First(D) \in D
      BY <2>1, SlotFacts, FirstIn
    <2>3. s \in Slots /\ Dirty(s) /\ id[s] \in Ids
      BY <1>1, <2>2, ModFacts DEF StorageInv, TypeOK
    <2>4. SaveSlot(s) /\ cursor' = (s + 1) % N
      BY <1>8 DEF PollSave
    <2>5. cursor' \in Slots
      BY <2>3, <2>4, ModFacts
    <2> HIDE DEF s
    <2> QED BY <1>8, <2>3, <2>4, <2>5, SubmitStep DEF PollSave, Polling, SaveSlot
  <1>9. CASE PollClean \/ PollNothing
    BY <1>1, <1>9, QuietStep DEF PollClean, PollNothing, Polling
  <1> QED BY <1>3, <1>4, <1>5, <1>6, <1>7, <1>8, <1>9 DEF Poll

LEMMA WorkerStep ==
    ASSUME StorageInv, NEW st \in {"ok", "failed"}, WorkerFinish(st)
    PROVE  StorageInv'
  <1>1. job \in Jobs /\ job # NoJob
    BY DEF StorageInv, TypeOK, WorkerFinish, NoJob
  <1>2. /\ job' \in Jobs /\ job' # NoJob /\ job'.st = st
        /\ job'.op = job.op /\ job'.slot = job.slot /\ job'.snap = job.snap
        /\ job'.id = job.id
    BY <1>1 DEF WorkerFinish, Jobs, NoJob
  <1>3. card' \in [Slots -> Gens]
    BY <1>1 DEF StorageInv, TypeOK, WorkerFinish, Jobs
  <1>4. TypeOK'
    BY <1>2, <1>3 DEF StorageInv, TypeOK, WorkerFinish, slotVars
  <1>5. OneOwner' /\ UidHome' /\ UiMap' /\ PresentIffHeld' /\ AutoloadMeansEmpty'
    BY DEF StorageInv, WorkerFinish, slotVars, OneOwner, UidHome, UiMap,
           PresentIffHeld, AutoloadMeansEmpty
  <1>6. ActInv' /\ JobInv'
    BY <1>1, <1>2 DEF StorageInv, WorkerFinish, slotVars, ActInv, JobInv, Owners,
                      OldDirty, Dirty
  <1>7. ASSUME NEW s \in Slots, occupied[s]
        PROVE  card'[s] = IF job'.op = "save" /\ job'.slot = s /\ job'.st = "ok"
                          THEN job'.snap ELSE saved[s]
    <2>1. card[s] = saved[s]
      BY <1>7 DEF StorageInv, CardInv, WorkerFinish
    <2>2. CASE job.op = "save" /\ st = "ok"
      BY <1>2, <1>7, <2>1, <2>2 DEF WorkerFinish, StorageInv, TypeOK
    <2>3. CASE ~(job.op = "save" /\ st = "ok")
      BY <1>2, <1>7, <2>1, <2>3 DEF WorkerFinish
    <2> QED BY <2>2, <2>3
  <1>8. CardInv'
    BY <1>7 DEF StorageInv, CardInv, WorkerFinish, slotVars
  <1> QED BY <1>4, <1>5, <1>6, <1>8 DEF StorageInv
-----------------------------------------------------------------------------
LEMMA CompleteFailedStep ==
    ASSUME StorageInv, CompleteFailed
    PROVE  StorageInv'
  <1>1. /\ cursor \in Slots /\ ready \in BOOLEAN /\ autoload \in BOOLEAN
        /\ flush \in BOOLEAN /\ req \in Requests \cup {NoReq}
        /\ RetryTicks \in 0..RetryTicks
    BY StorageAssumption DEF StorageInv, TypeOK
  <1>2. /\ act' \in Acts \cup {NoAct} /\ present' \in [Slots -> BOOLEAN]
        /\ ActInv' /\ PresentIffHeld' /\ error' = TRUE
    <2>1. CASE act # NoAct
      BY <2>1, RestoreStep DEF CompleteFailed, Restore
    <2>2. CASE act = NoAct
      BY <2>2 DEF CompleteFailed, StorageInv, TypeOK, ActInv, PresentIffHeld
    <2> QED BY <2>1, <2>2
  <1> QED BY <1>1, <1>2, ActionStep DEF CompleteFailed, Completing

LEMMA CompleteCatalogStep ==
    ASSUME StorageInv, CompleteCatalog
    PROVE  StorageInv'
  <1>1. /\ cursor \in Slots /\ autoload \in BOOLEAN
        /\ flush \in BOOLEAN /\ req \in Requests \cup {NoReq}
        /\ RetryTicks \in 0..RetryTicks
    BY StorageAssumption DEF StorageInv, TypeOK
  <1>2. /\ act' \in Acts \cup {NoAct} /\ present' \in [Slots -> BOOLEAN]
        /\ ActInv' /\ PresentIffHeld'
    <2>1. CASE act = NoAct /\ Owners(0) = {}
      BY <2>1, BeginStep, SlotFacts, StorageAssumption DEF CompleteCatalog
    <2>2. CASE ~(act = NoAct /\ Owners(0) = {})
      <3>1. UNCHANGED <<act, present, occupied, id, ui>>
        BY <2>2 DEF CompleteCatalog
      <3>2. PresentIffHeld'
        BY <3>1 DEF StorageInv, PresentIffHeld
      <3>3. ActInv'
        BY <3>1 DEF StorageInv, ActInv, Owners
      <3> QED BY <3>1, <3>2, <3>3 DEF StorageInv, TypeOK
    <2> QED BY <2>1, <2>2
  <1> QED BY <1>1, <1>2, ActionStep DEF CompleteCatalog, Completing

LEMMA CompleteSaveStep ==
    ASSUME StorageInv, CompleteSave
    PROVE  StorageInv'
  <1>1. job \in Jobs /\ job.slot \in Slots /\ job.snap \in Gens
    BY DEF StorageInv, TypeOK, CompleteSave, NoJob, Jobs
  <1>2. job' = NoJob /\ busy' = FALSE
    BY DEF CompleteSave, Completing
  <1>3. TypeOK'
    <2>1. saved' \in [Slots -> Gens]
      BY <1>1 DEF StorageInv, TypeOK, CompleteSave
    <2>2. /\ error' \in BOOLEAN /\ busy' \in BOOLEAN
          /\ retry' = RetryTicks /\ RetryTicks \in 0..RetryTicks
      <3>1. error' \in BOOLEAN /\ busy' \in BOOLEAN
        BY DEF CompleteSave, Completing
      <3>2. retry' = RetryTicks
        BY DEF CompleteSave, Completing
      <3>3. RetryTicks \in 0..RetryTicks
        BY StorageAssumption
      <3> QED BY <3>1, <3>2, <3>3
    <2>3. job' \in Jobs \cup {NoJob}
      BY <1>2
    <2> QED BY <2>1, <2>2, <2>3 DEF StorageInv, TypeOK, CompleteSave, Acts
  <1>4. OneOwner' /\ UidHome' /\ UiMap' /\ PresentIffHeld' /\ AutoloadMeansEmpty'
    BY DEF StorageInv, CompleteSave, OneOwner, UidHome, UiMap, PresentIffHeld,
           AutoloadMeansEmpty
  <1>5. ActInv' /\ JobInv'
    BY <1>2 DEF StorageInv, CompleteSave, ActInv, JobInv, Owners, NoJob
  <1>6. CardInv'
    BY <1>1, <1>2 DEF StorageInv, CompleteSave, Completing, CardInv, NoJob, TypeOK
  <1> QED BY <1>3, <1>4, <1>5, <1>6 DEF StorageInv

LEMMA CompleteLoadRefusedStep ==
    ASSUME StorageInv, CompleteLoadRefused
    PROVE  StorageInv'
  <1>1. /\ cursor \in Slots /\ ready \in BOOLEAN /\ autoload \in BOOLEAN
        /\ flush \in BOOLEAN /\ req \in Requests \cup {NoReq}
        /\ RetryTicks \in 0..RetryTicks
    BY StorageAssumption DEF StorageInv, TypeOK
  <1>2. /\ act' = NoAct /\ present' \in [Slots -> BOOLEAN]
        /\ ActInv' /\ PresentIffHeld' /\ error' = TRUE
    BY RestoreStep DEF CompleteLoadRefused, Restore
  <1> QED BY <1>1, <1>2, ActionStep DEF CompleteLoadRefused, Completing
\* A figure is loaded: the old figure of the position, if any, gives up its slot
\* and the new one takes the slot it had before, or the first free one.
LEMMA CompleteLoadStep ==
    ASSUME StorageInv, CompleteLoad
    PROVE  StorageInv'
  <1> DEFINE t == Place(UidOf[job.id])
             new == UidOf[job.id]
  <1>1. /\ act \in Acts /\ act # NoAct /\ act.kind = "load" /\ act.id = job.id
        /\ act.ui \in Slots /\ act.old \in Slots \cup {None}
        /\ act.old = ui[act.ui] /\ Owners(act.id) = {} /\ ~OldDirty
    BY ActShape DEF StorageInv, CompleteLoad, JobInv, ActInv, Acts
  <1>2. job.id \in Ids /\ new \in Uids /\ new # NoUid
    BY <1>1, StorageAssumption DEF Acts
  <1>3. /\ t \in Free
        /\ \A s \in Free : uid[s] = new => uid[t] = new
    <2> DEFINE seen == {s \in Free : uid[s] = new}
    <2>1. Free \in SUBSET Nat /\ seen \in SUBSET Nat /\ Free # {}
      BY SlotFacts DEF Free, CompleteLoad
    <2>2. First(Free) \in Free
      BY <2>1, FirstIn
    <2>3. seen # {} => First(seen) \in seen
      BY <2>1, FirstIn
    <2>4. t = IF seen # {} THEN First(seen) ELSE First(Free)
      BY DEF Place
    <2> QED BY <2>2, <2>3, <2>4
  <1>4. t \in Slots /\ (~occupied[t] \/ t = act.old)
    BY <1>3 DEF Free
  <1> HIDE DEF t
  <1>5. /\ \A s \in Slots : occupied'[s] <=> s = t \/ (occupied[s] /\ s # act.old)
        /\ \A s \in Slots : id'[s] = IF s = t THEN job.id ELSE id[s]
        /\ \A s \in Slots : uid'[s] = IF s = t THEN new ELSE uid[s]
        /\ \A s \in Slots : ui'[s] = IF s = act.ui THEN t ELSE ui[s]
    BY <1>4 DEF CompleteLoad, TakeSlot, t, StorageInv, TypeOK
  <1>6. /\ act' = NoAct /\ act'.old = None /\ None \notin Slots
        /\ job' = NoJob /\ busy' = FALSE /\ autoload' = FALSE /\ error' = FALSE
        /\ retry' = RetryTicks /\ RetryTicks \in 0..RetryTicks
    BY SlotFacts, StorageAssumption DEF CompleteLoad, Completing, NoAct
  <1>7. TypeOK'
    <2>1. /\ occupied' \in [Slots -> BOOLEAN] /\ present' \in [Slots -> BOOLEAN]
      BY <1>4 DEF CompleteLoad, TakeSlot, StorageInv, TypeOK
    <2>2. /\ id' \in [Slots -> Ids] /\ uid' \in [Slots -> Uids \cup {NoUid}]
      BY <1>2, <1>4 DEF CompleteLoad, TakeSlot, StorageInv, TypeOK
    <2>3. /\ gen' \in [Slots -> Gens] /\ saved' \in [Slots -> Gens]
          /\ card' \in [Slots -> Gens]
      BY <1>4, ModFacts DEF CompleteLoad, TakeSlot, StorageInv, TypeOK
    <2>4. ui' \in [Slots -> Slots \cup {None}]
      BY <1>4 DEF CompleteLoad, TakeSlot, StorageInv, TypeOK, t
    <2>5. busy' \in BOOLEAN /\ autoload' \in BOOLEAN /\ error' \in BOOLEAN
      BY <1>6
    <2>6. job' \in Jobs \cup {NoJob} /\ act' \in Acts \cup {NoAct}
      BY <1>6
    <2> QED BY <1>6, <2>1, <2>2, <2>3, <2>4, <2>5, <2>6
            DEF StorageInv, TypeOK, CompleteLoad, TakeSlot
  <1>8. OneOwner'
    <2>1. \A s \in Slots : occupied[s] => id[s] # job.id
      BY <1>1 DEF Owners
    <2>2. \A s \in Slots : occupied[s] /\ s # act.old => uid[s] # new
      BY DEF CompleteLoad, UidTaken, Free
    <2> QED BY <1>5, <2>1, <2>2 DEF StorageInv, OneOwner
  <1>9. UidHome'
    <2>1. \A s \in Slots : s \notin Free => uid[s] # new
      BY DEF CompleteLoad, UidTaken
    <2>2. \A s \in Slots : uid[s] = new => s = t
      BY <1>2, <1>3, <1>4, <2>1 DEF StorageInv, UidHome
    <2> QED BY <1>2, <1>5, <2>2 DEF StorageInv, UidHome
  <1>10. UiMap'
    <2>1. \A v \in Slots : v # act.ui => ui[v] # t
      <3>1. \A v \in Slots : ui[v] = t => occupied[t]
        BY <1>4 DEF StorageInv, UiMap
      <3>2. \A v \in Slots : ui[v] = act.old /\ act.old # None => v = act.ui
        BY <1>1 DEF StorageInv, UiMap
      <3> QED BY <1>4, <1>6, <3>1, <3>2
    <2>2. ASSUME NEW u \in Slots, NEW v \in Slots, ui'[u] = ui'[v], ui'[u] # None
          PROVE  u = v
      BY <1>5, <2>1, <2>2 DEF StorageInv, UiMap
    <2>3. ASSUME NEW s \in Slots
          PROVE  occupied'[s] <=> \E u \in Slots : ui'[u] = s
      <3>1. CASE s = t
        BY <1>1, <1>5, <3>1
      <3>2. CASE s # t
        <4>1. occupied[s] <=> \E u \in Slots : ui[u] = s
          BY DEF StorageInv, UiMap
        <4>2. s = act.old => ui[act.ui] = s
          BY <1>1
        <4>3. \A u \in Slots : ui[u] = s /\ s = act.old => u = act.ui
          BY <1>1, <1>6 DEF StorageInv, UiMap
        <4>4. ASSUME occupied'[s] PROVE \E u \in Slots : ui'[u] = s
          <5>1. occupied[s] /\ s # act.old
            BY <1>5, <3>2, <4>4
          <5>2. PICK u \in Slots : ui[u] = s
            BY <4>1, <5>1
          <5>3. u # act.ui
            BY <1>1, <5>1, <5>2
          <5> QED BY <1>5, <5>2, <5>3
        <4>5. ASSUME NEW u \in Slots, ui'[u] = s PROVE occupied'[s]
          <5>1. u # act.ui /\ ui[u] = s
            BY <1>5, <3>2, <4>5
          <5> QED BY <1>5, <4>1, <4>3, <5>1
        <4> QED BY <4>4, <4>5
      <3> QED BY <3>1, <3>2
    <2> QED BY <2>2, <2>3 DEF UiMap
  <1>11. PresentIffHeld'
    <2>1. \A s \in Slots : present'[s] <=> s = t \/ present[s]
      BY <1>4 DEF CompleteLoad, TakeSlot, t, StorageInv, TypeOK
    <2> QED BY <1>4, <1>5, <1>6, <2>1 DEF StorageInv, PresentIffHeld
  <1>12. ActInv' /\ JobInv' /\ AutoloadMeansEmpty'
    BY <1>6 DEF ActInv, JobInv, AutoloadMeansEmpty, NoJob
  <1>13. CardInv'
    <2>1. /\ \A s \in Slots : card'[s] = IF s = t THEN 0 ELSE card[s]
          /\ \A s \in Slots : saved'[s] = IF s = t THEN 0 ELSE saved[s]
      BY <1>4 DEF CompleteLoad, TakeSlot, t, StorageInv, TypeOK
    <2>2. job.op # "save" /\ job'.op # "save"
      BY <1>6 DEF CompleteLoad, NoJob
    <2>3. \A s \in Slots : occupied[s] => uid[s] # NoUid /\ card[s] = saved[s]
      BY <2>2 DEF StorageInv, CardInv
    <2> QED BY <1>2, <1>5, <2>1, <2>2, <2>3 DEF CardInv
  <1> QED BY <1>7, <1>8, <1>9, <1>10, <1>11, <1>12, <1>13 DEF StorageInv
LEMMA StepInv == StorageInv /\ [Next]_vars => StorageInv'
  <1> SUFFICES ASSUME StorageInv, [Next]_vars PROVE StorageInv' OBVIOUS
  <1>1. CASE UNCHANGED vars
    <2>1. TypeOK'
      BY <1>1 DEF StorageInv, TypeOK, vars
    <2>2. OneOwner' /\ UidHome' /\ UiMap' /\ PresentIffHeld' /\ AutoloadMeansEmpty'
      BY <1>1 DEF StorageInv, vars, OneOwner, UidHome, UiMap, PresentIffHeld,
                  AutoloadMeansEmpty
    <2>3. ActInv' /\ JobInv' /\ CardInv'
      BY <1>1 DEF StorageInv, vars, ActInv, JobInv, CardInv, Owners, OldDirty, Dirty
    <2> QED BY <2>1, <2>2, <2>3 DEF StorageInv
  <1>2. ASSUME NEW r \in Requests, Request(r) PROVE StorageInv'
    BY <1>2, RequestStep
  <1>3. ASSUME NEW s \in Slots, GameWrite(s) PROVE StorageInv'
    BY <1>3, GameWriteStep
  <1>4. CASE Tick
    BY <1>4, TickStep
  <1>5. CASE Mailbox
    BY <1>5, MailboxStep
  <1>6. CASE Poll
    BY <1>6, PollStep
  <1>7. ASSUME NEW st \in {"ok", "failed"}, WorkerFinish(st) PROVE StorageInv'
    BY <1>7, WorkerStep
  <1>8. CASE Complete
    BY <1>8, CompleteFailedStep, CompleteCatalogStep, CompleteSaveStep,
       CompleteLoadRefusedStep, CompleteLoadStep DEF Complete
  <1> QED BY <1>1, <1>2, <1>3, <1>4, <1>5, <1>6, <1>7, <1>8 DEF Next

\* The storage keeps its inductive invariant: what e12_begin, e09_poll and
\* e09_complete must agree on about the pending action, the disk job, the slots
\* and the UI positions.
THEOREM StorageInvariant == Spec => []StorageInv
  <1>1. Init => StorageInv
    BY InitInv
  <1>2. StorageInv /\ [Next]_vars => StorageInv'
    BY StepInv
  <1> QED BY <1>1, <1>2, PTL DEF Spec

\* All fields keep their types: a UI position names a slot or 255, the pending
\* action a position, the disk job a slot and an entry.
THEOREM StorageTypes == Spec => []TypeOK
  <1>1. StorageInv => TypeOK
    BY DEF StorageInv
  <1> QED BY <1>1, StorageInvariant, PTL

\* No entry and no figure is ever open in two slots: the checks of e12_begin
\* and e09_complete together are enough, although a job runs between them.
THEOREM NoSharedFigure == Spec => []OneOwner
  <1>1. StorageInv => OneOwner
    BY DEF StorageInv
  <1> QED BY <1>1, StorageInvariant, PTL

\* A figure keeps its slot number for the session (seen_uid in e09_complete).
THEOREM SlotRetention == Spec => []UidHome
  <1>1. StorageInv => UidHome
    BY DEF StorageInv
  <1> QED BY <1>1, StorageInvariant, PTL

\* e12_ui and the occupied slots stay in one-to-one correspondence.
THEOREM PositionsMatchSlots == Spec => []UiMap
  <1>1. StorageInv => UiMap
    BY DEF StorageInv
  <1> QED BY <1>1, StorageInvariant, PTL

\* The figures on the portal are the loaded ones but the one that leaves.
THEOREM PortalShowsSlots == Spec => []PresentIffHeld
  <1>1. StorageInv => PresentIffHeld
    BY DEF StorageInv
  <1> QED BY <1>1, StorageInvariant, PTL

\* A slot that is not dirty is on the card, concurrent writes notwithstanding:
\* e09_complete marks as saved the snapshot of e12_save_slot, not the current
\* generation.
THEOREM CleanMeansSaved == Spec => []SavedIsOnCard
  <1>1. StorageInv => SavedIsOnCard
    <2> SUFFICES ASSUME StorageInv, NEW s \in Slots, occupied[s], ~Dirty(s)
                 PROVE  card[s] = gen[s]
      BY DEF SavedIsOnCard
    <2>1. gen[s] = saved[s]
      BY DEF Dirty
    <2>2. ~(job.op = "save" /\ job.slot = s)
      BY DEF StorageInv, JobInv
    <2> QED BY <2>1, <2>2 DEF StorageInv, CardInv
  <1> QED BY <1>1, StorageInvariant, PTL

\* e09_complete never runs out of slots (-8): there are as many as positions,
\* and the position of the load has none but the one it gives up.
THEOREM LoadFindsRoom == Spec => []AlwaysRoom
  <1>1. StorageInv => AlwaysRoom
    <2> SUFFICES ASSUME StorageInv, job.op = "load" PROVE Free # {}
      BY DEF AlwaysRoom
    <2>1. act # NoAct /\ act \in Acts
      BY ActShape DEF StorageInv, JobInv
    <2>2. act.ui \in Slots /\ act.old = ui[act.ui]
      BY <2>1 DEF StorageInv, ActInv, Acts
    <2>3. CASE act.old \in Slots
      BY <2>3 DEF Free
    <2>4. CASE act.old \notin Slots
      BY <2>2, <2>4, RoomForOne DEF StorageInv, Free
    <2> QED BY <2>3, <2>4
  <1> QED BY <1>1, StorageInvariant, PTL

\* While the figure of the start is still to be loaded nothing is held, so the
\* early return of e09_poll delays no save.
THEOREM NothingHeldAtStart == Spec => []AutoloadMeansEmpty
  <1>1. StorageInv => AutoloadMeansEmpty
    BY DEF StorageInv
  <1> QED BY <1>1, StorageInvariant, PTL
-----------------------------------------------------------------------------
\* Only the removal and the load of e09_poll and e09_complete take a slot from
\* its figure, and both only after its data was saved.
THEOREM SavedBeforeLeaving == Spec => NoProgressLost
  <1> DEFINE Kept == \A s \in Slots :
                 occupied[s] /\ (~occupied'[s] \/ id'[s] # id[s]) => ~Dirty(s)
  <1>1. StorageInv /\ [Next]_vars => [Kept]_vars
    <2> SUFFICES ASSUME StorageInv, Next PROVE Kept \/ UNCHANGED vars
      OBVIOUS
    <2>1. CASE UNCHANGED <<occupied, id>>
      BY <2>1
    <2>2. CASE PollRemove
      <3> SUFFICES ASSUME NEW s \in Slots, occupied[s],
                          ~occupied'[s] \/ id'[s] # id[s]
                   PROVE  ~Dirty(s)
        OBVIOUS
      <3>1. s = act.old
        BY <2>2 DEF PollRemove
      <3> QED BY <2>2, <3>1 DEF PollRemove, OldDirty, Dirty
    <2>3. CASE CompleteLoad
      <3> SUFFICES ASSUME NEW s \in Slots, occupied[s],
                          ~occupied'[s] \/ id'[s] # id[s]
                   PROVE  ~Dirty(s)
        OBVIOUS
      <3>1. Place(UidOf[job.id]) \in Free
        <4> DEFINE seen == {x \in Free : uid[x] = UidOf[job.id]}
        <4>1. Free \in SUBSET Nat /\ seen \in SUBSET Nat /\ Free # {}
          BY <2>3, SlotFacts DEF Free, CompleteLoad
        <4>2. First(Free) \in Free
          BY <4>1, FirstIn
        <4>3. seen # {} => First(seen) \in seen
          BY <4>1, FirstIn
        <4> QED BY <4>2, <4>3 DEF Place
      <3>2. s = act.old
        <4>1. CASE s = Place(UidOf[job.id])
          BY <3>1, <4>1 DEF Free
        <4>2. CASE s # Place(UidOf[job.id])
          BY <2>3, <4>2 DEF CompleteLoad, TakeSlot, StorageInv, TypeOK
        <4> QED BY <4>1, <4>2
      <3>3. ~OldDirty
        BY <2>3 DEF CompleteLoad, StorageInv, JobInv
      <3> QED BY <3>2, <3>3 DEF OldDirty, Dirty
    <2> QED BY <2>1, <2>2, <2>3
         DEF Next, Request, GameWrite, Tick, Mailbox, Poll, PollCatalog, PollSaveOld,
             PollLoad, PollAutoload, PollSave, PollClean, PollNothing, WorkerFinish,
             Complete, CompleteFailed, CompleteCatalog, CompleteSave,
             CompleteLoadRefused, slotVars
  <1> QED BY <1>1, StorageInvariant, PTL DEF Spec, NoProgressLost

\* e09_busy serializes the disk: whatever submits a job has seen that none is
\* running and that the last result was handled.
THEOREM OneJob == Spec => JobUndisturbed
  <1> DEFINE Ordered == job # NoJob =>
                 \/ job' = NoJob /\ job.st # "running"
                 \/ job' = job
                 \/ job.st = "running" /\ \E st \in {"ok", "failed"} :
                                          job' = [job EXCEPT !.st = st]
  <1>1. StorageInv /\ [Next]_vars => [Ordered]_vars
    <2> SUFFICES ASSUME StorageInv, Next, job # NoJob PROVE Ordered
      OBVIOUS
    <2>1. busy
      BY DEF StorageInv, JobInv
    <2>2. CASE UNCHANGED job
      BY <2>2
    <2>3. ASSUME NEW st \in {"ok", "failed"}, WorkerFinish(st) PROVE Ordered
      BY <2>3 DEF WorkerFinish
    <2>4. CASE Complete
      BY <2>4 DEF Complete, CompleteFailed, CompleteCatalog, CompleteSave,
                  CompleteLoadRefused, CompleteLoad, Completing
    <2>5. CASE Poll
      BY <2>1, <2>5 DEF Poll, PollCatalog, PollSaveOld, PollRemove, PollLoad,
                        PollAutoload, PollSave, PollClean, PollNothing
    <2> QED BY <2>2, <2>3, <2>4, <2>5 DEF Next, Request, GameWrite, Tick, Mailbox
  <1> QED BY <1>1, StorageInvariant, PTL DEF Spec, JobUndisturbed
-----------------------------------------------------------------------------
\* What the slots and the menu positions are to each other.
THEOREM HomesKept == Spec => []FigureHomes
  <1>1. OneOwner /\ UidHome => FigureHomes
    BY DEF FigureHomes
  <1> QED BY <1>1, NoSharedFigure, SlotRetention, PTL

\* No position loses its slot, and a load always has one to take.
THEOREM PlacesKept == Spec => []MenuPlaces
  <1>1. UiMap /\ AlwaysRoom => MenuPlaces
    BY DEF MenuPlaces
  <1> QED BY <1>1, PositionsMatchSlots, LoadFindsRoom, PTL

\* A figure that leaves the portal is a move of the interface.
LEMMA HideOne ==
  ASSUME StorageInv, NEW s, uid' = uid,
         present' = [t \in Slots |-> present[t] /\ t # s]
  PROVE  Feed!MovesNext \/ present' = present
  <1>1. CASE s \in Slots /\ present[s]
    <2>1. uid[s] # NoUid
      BY <1>1 DEF StorageInv, PresentIffHeld, CardInv
    <2>2. Feed!Leaves(s)
      BY <1>1, <2>1 DEF Feed!Leaves, StorageInv, TypeOK
    <2> QED BY <1>1, <2>2 DEF Feed!MovesNext
  <1>2. CASE ~(s \in Slots /\ present[s])
    BY <1>2 DEF StorageInv, TypeOK
  <1> QED BY <1>1, <1>2

\* A figure that enters its slot is a move.
LEMMA EnterOne ==
  ASSUME NEW t \in Slots, NEW u \in Uids, Feed!Enters(t, u)
  PROVE  Feed!MovesNext
  <1>1. \E s \in Slots, v \in Uids : Feed!Enters(s, v)
    OBVIOUS
  <1> QED BY <1>1 DEF Feed!MovesNext, Feed!Enters

\* So is one that comes back to its slot.
LEMMA ShowOne ==
  ASSUME StorageInv, Restore, uid' = uid
  PROVE  Feed!MovesNext \/ present' = present
  <1> DEFINE s == act.old
  <1>1. CASE s \in Slots
    <2>1. act # NoAct /\ act \in Acts
      BY <1>1, SlotFacts DEF NoAct, StorageInv, TypeOK
    <2>2. occupied[s] /\ ~present[s]
      BY <1>1, <2>1 DEF Acts, StorageInv, ActInv, UiMap, PresentIffHeld, TypeOK
    <2>3. uid[s] \in Uids
      BY <1>1, <2>2 DEF StorageInv, CardInv, TypeOK
    <2>4. \A t \in Slots : present[t] => uid[t] # uid[s]
      BY <1>1, <2>2, <2>3, StorageAssumption DEF StorageInv, UidHome
    <2>5. PICK o \in Slots, v \in Uids : o = s /\ v = uid[s]
      BY <1>1, <2>3
    <2>6. Feed!Enters(o, v)
      BY <2>2, <2>4, <2>5, StorageAssumption
         DEF Feed!Enters, Restore, StorageInv, TypeOK
    <2> QED BY <2>6, EnterOne
  <1>2. CASE s \notin Slots
    BY <1>2 DEF Restore, StorageInv, TypeOK
  <1> QED BY <1>1, <1>2

\* A loaded figure enters a slot whose old figure has left, and is in no other.
LEMMA LoadOne ==
  ASSUME StorageInv, CompleteLoad
  PROVE  Feed!MovesNext
  <1> DEFINE t == Place(UidOf[job.id])
             u == UidOf[job.id]
             seen == {s \in Free : uid[s] = u}
  <1>1. act \in Acts /\ act # NoAct /\ act.id = job.id
    BY ActShape DEF StorageInv, CompleteLoad, JobInv
  <1>2. u \in Uids /\ u # NoUid
    BY <1>1, StorageAssumption DEF Acts
  <1>3. t \in Free
    <2>1. Free \in SUBSET Nat /\ seen \in SUBSET Nat /\ Free # {}
      BY SlotFacts DEF Free, CompleteLoad
    <2>2. First(Free) \in Free
      BY <2>1, FirstIn
    <2>3. seen # {} => First(seen) \in seen
      BY <2>1, FirstIn
    <2> QED BY <2>2, <2>3 DEF Place
  <1>4. t \in Slots /\ ~present[t]
    BY <1>3 DEF Free, StorageInv, PresentIffHeld
  <1>5. \A s \in Slots : present[s] => uid[s] # u
    BY DEF CompleteLoad, UidTaken, Free, StorageInv, PresentIffHeld
  <1> HIDE DEF t
  <1>6. present' = [present EXCEPT ![t] = TRUE] /\ uid' = [uid EXCEPT ![t] = u]
    BY DEF CompleteLoad, TakeSlot, t
  <1>7. PICK o \in Slots, v \in Uids : o = t /\ v = u
    BY <1>2, <1>4
  <1>8. Feed!Enters(o, v)
    BY <1>4, <1>5, <1>6, <1>7, StorageAssumption DEF Feed!Enters, StorageInv, TypeOK
  <1> QED BY <1>8, EnterOne

\* Every step of the storage is a move of one figure, or moves none.
LEMMA MovesStep ==
  ASSUME StorageInv, [Next]_vars
  PROVE  Feed!MovesNext \/ UNCHANGED <<present, uid>>
  <1>1. CASE UNCHANGED <<present, uid>>
    BY <1>1
  <1>2. CASE Mailbox
    <2>1. CASE UNCHANGED present
      BY <1>2, <2>1 DEF Mailbox
    <2>2. CASE BeginEffect(req.ui, req.id, req.op)
      <3>1. uid' = uid
        BY <1>2 DEF Mailbox
      <3> QED BY <2>2, <3>1, HideOne DEF BeginEffect
    <2> QED BY <1>2, <2>1, <2>2 DEF Mailbox
  <1>3. CASE PollAutoload
    <2>1. uid' = uid /\ BeginEffect(0, 0, "load")
      BY <1>3 DEF PollAutoload
    <2> QED BY <2>1, HideOne DEF BeginEffect
  <1>4. CASE CompleteFailed
    BY <1>4, ShowOne DEF CompleteFailed
  <1>5. CASE CompleteCatalog
    <2>1. uid' = uid
      BY <1>5 DEF CompleteCatalog
    <2>2. present' = present \/ present' = [s \in Slots |-> present[s] /\ s # ui[0]]
      BY <1>5 DEF CompleteCatalog
    <2> QED BY <2>1, <2>2, HideOne
  <1>6. CASE CompleteLoadRefused
    BY <1>6, ShowOne DEF CompleteLoadRefused
  <1>7. CASE CompleteLoad
    BY <1>7, LoadOne
  <1> QED BY <1>1, <1>2, <1>3, <1>4, <1>5, <1>6, <1>7
       DEF Next, Request, GameWrite, Tick, Poll, PollCatalog, PollSaveOld, PollRemove,
           PollLoad, PollSave, PollClean, PollNothing, WorkerFinish, Complete,
           CompleteSave, slotVars, vars

\* The storage implements the interface that the status packets rely on:
\* figures move one at a time, and none is on the portal twice.
THEOREM StorageMovesFigures == Spec => MovesOneByOne
  <1>1. Init => Feed!MovesInit
    BY DEF Init, Feed!MovesInit
  <1>2. StorageInv /\ [Next]_vars =>
          [Feed!MovesNext]_[s \in Slots |-> IF present[s] THEN uid[s] ELSE NoUid]
    BY MovesStep
  <1> QED BY <1>1, <1>2, StorageInvariant, PTL DEF Spec, MovesOneByOne, Feed!MovesSpec
-----------------------------------------------------------------------------
\* How many slots the scan looks at before it comes to slot s.
Ahead(c, s) == IF s >= c THEN s - c ELSE s - c + N

LEMMA Wraps ==
    \A a, b \in Slots : (a + b) % N = IF a + b < N THEN a + b ELSE a + b - N
  BY StorageAssumption DEF Slots

LEMMA WrapsOne ==
    \A a \in Slots : (a + 1) % N = IF a + 1 < N THEN a + 1 ELSE 0
  BY StorageAssumption DEF Slots

LEMMA AheadFacts ==
  ASSUME NEW c \in Slots, NEW s \in Slots
  PROVE  Ahead(c, s) \in Slots /\ (c + Ahead(c, s)) % N = s
  <1>1. Ahead(c, s) \in Slots
    BY StorageAssumption DEF Ahead, Slots
  <1>2. (c + Ahead(c, s)) % N = IF c + Ahead(c, s) < N THEN c + Ahead(c, s)
                                ELSE c + Ahead(c, s) - N
    BY <1>1, Wraps
  <1> QED BY <1>1, <1>2, StorageAssumption DEF Ahead, Slots

\* The scan passes slot s, or a slot that is k < Ahead(c, s) ahead.
LEMMA Passed ==
  ASSUME NEW c \in Slots, NEW s \in Slots, NEW k \in Slots, k < Ahead(c, s)
  PROVE  Ahead((((c + k) % N) + 1) % N, s) < Ahead(c, s)
  <1> DEFINE t == (c + k) % N
  <1>1. t = IF c + k < N THEN c + k ELSE c + k - N
    BY Wraps
  <1>2. t \in Slots
    BY ModFacts
  <1> HIDE DEF t
  <1>3. (t + 1) % N = IF t + 1 < N THEN t + 1 ELSE 0
    BY <1>2, WrapsOne
  <1>4. Ahead((t + 1) % N, s) < Ahead(c, s)
    BY <1>1, <1>2, <1>3, StorageAssumption DEF Ahead, Slots
  <1> QED BY <1>4 DEF t

\* A scan of e09_poll takes the turn of an unsaved slot or comes nearer to it.
ComesNearer(s) ==
    \/ cursor' = (s + 1) % N /\ (busy' => job'.op = "save" /\ job'.slot = s)
    \/ Ahead(cursor', s) < Ahead(cursor, s)

\* No unsaved slot is passed over: every save that e09_poll starts is that of the
\* slot, or brings the scan nearer to it, however many slots the game goes on
\* writing to; and nothing else moves the cursor.  This is what DirtyIsSaved
\* rests on.
THEOREM ScanComesRound ==
    Spec => [][/\ cursor' # cursor => PollSave
               /\ PollSave => \A s \in Slots : Dirty(s) => ComesNearer(s)]_vars
  <1> DEFINE A == /\ cursor' # cursor => PollSave
                  /\ PollSave => \A s \in Slots : Dirty(s) => ComesNearer(s)
  <1>1. ASSUME StorageInv, PollSave, NEW s \in Slots, Dirty(s)
        PROVE  ComesNearer(s)
    <2> DEFINE S == {j \in Slots : Dirty((cursor + j) % N)}
               k == First(S)
               t == (cursor + k) % N
    <2>1. cursor \in Slots
      BY <1>1 DEF StorageInv, TypeOK
    <2>2. Ahead(cursor, s) \in S
      BY <1>1, <2>1, AheadFacts
    <2>3. k \in S /\ k <= Ahead(cursor, s)
      <3>1. S \in SUBSET Nat /\ S # {}
        BY <2>2, SlotFacts
      <3> HIDE DEF S
      <3> QED BY <2>2, <3>1, FirstIn
    <2>4. SaveSlot(t) /\ cursor' = (t + 1) % N
      BY <1>1 DEF PollSave
    <2>5. k \in Slots
      BY <2>3
    <2> HIDE DEF S, k
    <2>6. CASE k = Ahead(cursor, s)
      <3>1. t = s
        BY <2>1, <2>6, AheadFacts
      <3> HIDE DEF t
      <3>2. busy' => job'.op = "save" /\ job'.slot = s
        BY <2>4, <3>1 DEF SaveSlot, Submit
      <3> QED BY <2>4, <3>1, <3>2 DEF ComesNearer
    <2>7. CASE k # Ahead(cursor, s)
      <3>1. k < Ahead(cursor, s)
        <4>1. k \in Nat /\ Ahead(cursor, s) \in Nat
          BY <2>1, <2>5, AheadFacts, SlotFacts
        <4> QED BY <2>3, <2>7, <4>1
      <3> QED BY <2>1, <2>4, <2>5, <3>1, Passed DEF ComesNearer
    <2> QED BY <2>6, <2>7
  <1>2. ASSUME Next, cursor' # cursor PROVE PollSave
    BY <1>2 DEF Next, Request, GameWrite, Tick, Mailbox, Poll, PollCatalog, PollSaveOld,
                PollRemove, PollLoad, PollAutoload, PollClean, PollNothing, WorkerFinish,
                Complete, CompleteFailed, CompleteCatalog, CompleteSave,
                CompleteLoadRefused, CompleteLoad
  <1>3. StorageInv /\ [Next]_vars => [A]_vars
    BY <1>1, <1>2
  <1> QED BY <1>3, StorageInvariant, PTL DEF Spec
-----------------------------------------------------------------------------
\* A pending action is not replaced and waits for no more ticks than before.
SameAction == act'.wait <= act.wait /\ act' = [act EXCEPT !.wait = act'.wait]

\* A poll that finds the disk idle and has nothing to wait for takes the next part
\* of the action, unless the send to the worker fails.
NextPart ==
    \/ act' = NoAct
    \/ /\ busy' /\ OldDirty /\ job'.op = "save" /\ job'.slot = act.old
    \/ /\ busy' /\ ~OldDirty /\ job'.op = "load" /\ job'.id = act.id
    \/ SendMayFail /\ error'

\* A pending action only goes forward: its figure, once saved, stays saved, and
\* the end of its load, or a failure of any job, ends it.
GoesForward ==
    act # NoAct =>
        /\ act' = NoAct \/ SameAction
        /\ act' # NoAct /\ ~OldDirty => ~OldDirty'
        /\ Tick => act'.wait = Max0(act.wait)
        /\ Poll /\ ready /\ ~busy /\ (OldDirty \/ act.wait = 0) => NextPart
        /\ Complete /\ (job.op = "load" \/ job.st = "failed") => act' = NoAct

LEMMA ActionStays ==
  ASSUME StorageInv, Next, act # NoAct
  PROVE  act' = NoAct \/ SameAction
  <1>1. act \in Acts /\ act.wait \in Nat
    BY StorageAssumption DEF StorageInv, TypeOK, Acts
  <1>2. CASE UNCHANGED act
    BY <1>1, <1>2 DEF SameAction, Acts
  <1>3. CASE Tick
    <2>1. act' = [act EXCEPT !.wait = Max0(@)]
      BY <1>3 DEF Tick
    <2>2. act'.wait = Max0(act.wait) /\ Max0(act.wait) <= act.wait
      BY <1>1, <2>1 DEF Acts, Max0
    <2> QED BY <2>1, <2>2 DEF SameAction
  <1>4. CASE act' = NoAct
    BY <1>4
  <1>5. ~PollAutoload
    BY DEF PollAutoload
  <1> QED BY <1>2, <1>3, <1>4, <1>5
       DEF Next, Request, GameWrite, Mailbox, Poll, PollCatalog, PollSaveOld, PollRemove,
           PollLoad, PollSave, PollClean, PollNothing, WorkerFinish, Complete,
           CompleteFailed, Restore, CompleteCatalog, CompleteSave, CompleteLoadRefused,
           CompleteLoad

LEMMA OldStaysSaved ==
  ASSUME StorageInv, Next, act # NoAct, act' # NoAct, ~OldDirty
  PROVE  ~OldDirty'
  <1>1. act'.old = act.old
    <2>1. act \in Acts /\ SameAction
      BY ActionStays DEF StorageInv, TypeOK
    <2> QED BY <2>1 DEF SameAction, Acts
  <1>2. SUFFICES ASSUME act.old \in Slots
                 PROVE  gen'[act.old] = saved'[act.old]
    BY <1>1 DEF OldDirty
  <1>3. gen[act.old] = saved[act.old]
    BY <1>2 DEF OldDirty
  <1>4. CASE UNCHANGED <<gen, saved>>
    BY <1>3, <1>4
  \* The game does not write to a figure that has left.
  <1>5. ASSUME NEW s \in Slots, GameWrite(s) PROVE gen'[act.old] = saved'[act.old]
    <2>1. s # act.old
      BY <1>2, <1>5 DEF StorageInv, PresentIffHeld, GameWrite
    <2> QED BY <1>2, <1>3, <1>5, <2>1 DEF GameWrite, StorageInv, TypeOK
  <1>6. CASE CompleteSave
    <2>1. job.slot # act.old
      BY <1>3, <1>6 DEF CompleteSave, StorageInv, JobInv, Dirty
    <2> QED BY <1>2, <1>3, <1>6, <2>1 DEF CompleteSave, StorageInv, TypeOK
  <1>7. ~CompleteLoad
    BY DEF CompleteLoad
  <1> QED BY <1>4, <1>5, <1>6, <1>7
       DEF Next, Request, Tick, Mailbox, Poll, PollCatalog, PollSaveOld, PollRemove,
           PollLoad, PollAutoload, PollSave, PollClean, PollNothing, WorkerFinish,
           Complete, CompleteFailed, CompleteCatalog, CompleteLoadRefused, slotVars

LEMMA PollTakesPart ==
  ASSUME StorageInv, act # NoAct, Poll, ready, ~busy, OldDirty \/ act.wait = 0
  PROVE  NextPart
  <1>1. act.kind \in {"load", "remove"} /\ act.wait \in Nat
    BY StorageAssumption DEF StorageInv, TypeOK, Acts
  <1>2. CASE PollSaveOld
    BY <1>2 DEF PollSaveOld, SaveSlot, Submit, NextPart
  <1>3. CASE PollRemove
    BY <1>3 DEF PollRemove, NextPart
  <1>4. CASE PollLoad
    BY <1>4 DEF PollLoad, Submit, NextPart
  <1>5. ~PollCatalog /\ ~PollAutoload /\ ~PollSave /\ ~PollClean
    BY DEF PollCatalog, PollAutoload, PollSave, PollClean, SaveDue
  <1>6. ~PollNothing
    <2>1. act.wait > 0 => act.wait # 0
      BY <1>1
    <2> HIDE DEF OldDirty
    <2> QED BY <2>1, Zenon DEF PollNothing
  <1> QED BY <1>2, <1>3, <1>4, <1>5, <1>6 DEF Poll

\* Whatever else the menu asks for and whichever jobs fail, a removal or a swap
\* goes through its parts one after the other and none is undone: the old
\* figure is saved, the ticks pass, the figure is loaded (e12_begin, e09_poll,
\* e09_complete).  This is what ActionEnds rests on.
THEOREM ActionsAdvance == Spec => [][GoesForward]_vars
  <1>1. ASSUME StorageInv, Next PROVE GoesForward
    <2>1. act # NoAct /\ Tick => act'.wait = Max0(act.wait)
      BY <1>1 DEF Tick, StorageInv, TypeOK, Acts
    <2>2. act # NoAct /\ Complete /\ (job.op = "load" \/ job.st = "failed") => act' = NoAct
      BY DEF Complete, CompleteFailed, CompleteCatalog, CompleteSave, CompleteLoadRefused,
             CompleteLoad, Completing, Restore
    <2> QED BY <1>1, <2>1, <2>2, ActionStays, OldStaysSaved, PollTakesPart DEF GoesForward
  <1>2. StorageInv /\ [Next]_vars => [GoesForward]_vars
    BY <1>1
  <1> QED BY <1>2, StorageInvariant, PTL DEF Spec
=============================================================================
