------------------------------- MODULE Storage -------------------------------
(***************************************************************************)
(* The sixteen-slot figure storage of plugin/source/e12_storage.h.         *)
(*                                                                         *)
(* The HID worker runs everything here but WorkerFinish, one message at a  *)
(* time: timer ticks (v4_tick: e11_mailbox on every eighth, then           *)
(* e09_poll), writes of the game (the W command) and the completions of    *)
(* disk jobs (e09_complete).  The storage worker runs one disk job at a    *)
(* time concurrently.  The overlay overwrites the request in the mailbox   *)
(* whenever it likes.                                                      *)
(*                                                                         *)
(* A figure's 1024 bytes are abstracted by its generation, catalogue       *)
(* entries by Ids with the UID their dump carries.  e12_ui has the value   *)
(* None where the code has 255.  Time differences against v4_ticks become  *)
(* countdowns.  Fields of the pending action and of the disk job that the  *)
(* code leaves behind when they end, and never reads again, are reset.     *)
(***************************************************************************)
EXTENDS Integers

CONSTANTS
    N,             \* slots, and UI positions (16)
    Ids,           \* catalogue entries; entry 0 is the one loaded at start
    Uids, NoUid,   \* figure UIDs; NoUid: a slot that has seen none
    UidOf,         \* the UID in the dump of an entry
    GenMod,        \* range of a write generation (2^32)
    RemoveTicks,   \* ticks a figure stays away before a swap (250)
    RetryTicks,    \* ticks between disk attempts (500)
    MailboxTicks,  \* ticks between mailbox polls (8)
    Ops,           \* the operations the overlay asks for
    SendMayFail    \* whether os_message_queue_send to the worker may fail

ASSUME StorageAssumption ==
    /\ N \in Nat \ {0}
    /\ 0 \in Ids
    /\ NoUid \notin Uids
    /\ UidOf \in [Ids -> Uids]
    /\ GenMod \in Nat \ {0, 1}
    /\ RemoveTicks \in Nat /\ RetryTicks \in Nat
    /\ MailboxTicks \in Nat \ {0}
    /\ Ops \subseteq {"load", "remove", "flush", "page"}
    /\ SendMayFail \in BOOLEAN

Slots == 0..(N - 1)
None == N
Gens == 0..(GenMod - 1)

VARIABLES
    occupied, present, id, uid, gen, saved,  \* e12_slots
    ui,        \* e12_ui: UI position to slot
    act,       \* e12_action, e12_action_ui, e12_target, e12_old, remove_tick
    job,       \* e11_op, e12_disk_slot, e12_snapshot, e11_job_slot, e11_result
    busy,      \* e09_busy
    error,     \* e09_error # 0
    ready,     \* e11_count # 0
    autoload, flush, cursor,  \* e12_autoload, e12_flush, e12_save_cursor
    retry,     \* ticks until v4_ticks - e11_retry >= RetryTicks
    phase,     \* v4_ticks modulo MailboxTicks
    pc,        \* where the HID worker is in v4_tick
    req,       \* the request in the mailbox the storage has not consumed
    card       \* history: the generation of the slot's figure on the card

slotVars == <<occupied, present, id, uid, gen, saved>>
vars == <<occupied, present, id, uid, gen, saved, ui, act, job, busy, error,
          ready, autoload, flush, cursor, retry, phase, pc, req, card>>
-----------------------------------------------------------------------------
NoAct == [kind |-> "none", ui |-> 0, id |-> 0, old |-> None, wait |-> 0]
NoJob == [op |-> "none", slot |-> 0, snap |-> 0, id |-> 0, st |-> "idle"]
NoReq == [op |-> "none", ui |-> 0, id |-> 0]

Requests ==
    [op : Ops \cap {"load"}, ui : Slots, id : Ids] \cup
    [op : Ops \cap {"remove"}, ui : Slots, id : {0}] \cup
    [op : Ops \cap {"flush", "page"}, ui : {0}, id : {0}]

Max0(n) == IF n = 0 THEN 0 ELSE n - 1
NextGen(g) == (g + 1) % GenMod
First(S) == CHOOSE i \in S : \A j \in S : i <= j

Dirty(s) == occupied[s] /\ gen[s] # saved[s]
Owners(i) == {s \in Slots : occupied[s] /\ id[s] = i}
-----------------------------------------------------------------------------
\* e11_submit.
Submit(op, s, i) ==
    \/ /\ busy' = TRUE
       /\ job' = [op |-> op, slot |-> s, id |-> i, st |-> "running",
                  snap |-> IF op = "save" THEN gen[s] ELSE 0]
       /\ UNCHANGED <<error, retry>>
    \/ /\ SendMayFail
       /\ busy' = FALSE /\ error' = TRUE /\ retry' = RetryTicks
       /\ UNCHANGED job

\* e12_save_slot.
SaveSlot(s) == Submit("save", s, id[s])

\* e12_begin returns an error, 0 without doing anything ("same"), or begins.
BeginResult(u, i, kind) ==
    IF kind = "load" /\ ~ready THEN "invalid"
    ELSE IF act # NoAct \/ busy THEN "busy"
    ELSE IF kind = "load" /\ Owners(i) # {}
         THEN IF ui[u] = First(Owners(i)) THEN "same" ELSE "taken"
    ELSE "begun"

\* Fault: the figure stays on the portal while it is swapped.
BeginKeepsFigure(u, i, kind) ==
    IF BeginResult(u, i, kind) = "begun"
    THEN /\ act' = [kind |-> kind, ui |-> u, id |-> i, old |-> ui[u], wait |-> RemoveTicks]
         /\ UNCHANGED present
    ELSE UNCHANGED <<act, present>>

\* The figure of UI position u leaves the portal and the action is recorded.
BeginEffect(u, i, kind) ==
    IF BeginResult(u, i, kind) = "begun"
    THEN /\ act' = [kind |-> kind, ui |-> u, id |-> i, old |-> ui[u], wait |-> RemoveTicks]
         /\ present' = [s \in Slots |-> present[s] /\ s # ui[u]]
    ELSE UNCHANGED <<act, present>>

\* Fault: the figure that left does not come back.
RestoreDropsFigure == error' = TRUE /\ act' = NoAct /\ UNCHANGED present

\* e12_restore: the figure that left comes back, the action is dropped.
Restore ==
    /\ error' = TRUE
    /\ present' = [s \in Slots |-> present[s] \/ s = act.old]
    /\ act' = NoAct
-----------------------------------------------------------------------------
Init ==
    /\ occupied = [s \in Slots |-> FALSE] /\ present = [s \in Slots |-> FALSE]
    /\ id = [s \in Slots |-> 0] /\ uid = [s \in Slots |-> NoUid]
    /\ gen = [s \in Slots |-> 0] /\ saved = [s \in Slots |-> 0]
    /\ card = [s \in Slots |-> 0]
    /\ ui = [u \in Slots |-> None]
    /\ act = NoAct
    \* e09_start ends with the submission of the catalogue job.
    /\ job = [NoJob EXCEPT !.op = "catalog", !.st = "running"]
    /\ busy = TRUE /\ error = FALSE
    /\ ready = FALSE
    /\ autoload = TRUE /\ flush = FALSE /\ cursor = 0
    /\ retry = RetryTicks /\ phase = 0
    /\ pc = "idle"
    /\ req = NoReq

\* The overlay posts a request over whatever is in the mailbox.  Requests that
\* do not concern the storage (page, view, rescan) are all "page".
Request(r) ==
    /\ req' = r
    /\ UNCHANGED <<slotVars, ui, act, job, busy, error, ready, autoload, flush,
                   cursor, retry, phase, pc, card>>

\* The W command on a present figure.  A figure is written fewer than GenMod
\* times between two saves, so that its generation never laps.
GameWrite(s) ==
    /\ pc = "idle"
    /\ present[s]
    /\ NextGen(gen[s]) # saved[s]
    /\ job.op = "save" /\ job.slot = s => NextGen(gen[s]) # job.snap
    /\ gen' = [gen EXCEPT ![s] = NextGen(gen[s])]
    /\ UNCHANGED <<occupied, present, id, uid, saved, ui, act, job, busy, error,
                   ready, autoload, flush, cursor, retry, phase, pc, req, card>>

\* The timer message: time advances, then the mailbox on every MailboxTicks-th
\* tick and the poll on each.
Tick ==
    /\ pc = "idle"
    /\ phase' = (phase + 1) % MailboxTicks
    /\ pc' = IF phase' = 0 THEN "mailbox" ELSE "poll"
    /\ retry' = Max0(retry)
    /\ act' = [act EXCEPT !.wait = Max0(@)]
    /\ UNCHANGED <<slotVars, ui, job, busy, error, ready, autoload, flush,
                   cursor, req, card>>

\* e11_mailbox.
Mailbox ==
    /\ pc = "mailbox" /\ pc' = "poll"
    /\ \/ \* Nothing new, or load and remove wait for the action or the disk.
          /\ req.op = "none" \/ (req.op \in {"load", "remove"} /\ (act # NoAct \/ busy))
          /\ UNCHANGED <<req, act, present, error, autoload, flush>>
       \/ /\ req.op \in {"load", "remove"} /\ act = NoAct /\ ~busy
          /\ LET r == BeginResult(req.ui, req.id, req.op) IN
             /\ BeginEffect(req.ui, req.id, req.op)
             /\ error' = IF r = "begun" THEN FALSE
                         ELSE IF r = "same" THEN error ELSE TRUE
             /\ autoload' = (autoload /\ r \notin {"begun", "same"})
          /\ req' = NoReq
          /\ UNCHANGED flush
       \/ /\ req.op = "flush"
          /\ flush' = TRUE /\ error' = FALSE
          /\ req' = NoReq
          /\ UNCHANGED <<act, present, autoload>>
       \/ /\ req.op = "page"
          /\ req' = NoReq
          /\ UNCHANGED <<act, present, error, autoload, flush>>
    /\ UNCHANGED <<occupied, id, uid, gen, saved, ui, job, busy, ready, cursor,
                   retry, phase, card>>
-----------------------------------------------------------------------------
\* e09_poll, one action for each way it returns.
Polling == pc = "poll" /\ pc' = "idle"

\* Fault: a catalogue that failed is not tried again.
PollCatalogOnce ==
    /\ Polling /\ ~busy /\ ~ready
    /\ IF retry = 0 /\ ~error THEN Submit("catalog", 0, 0)
       ELSE UNCHANGED <<job, busy, error, retry>>
    /\ UNCHANGED <<slotVars, ui, act, ready, autoload, flush, cursor, phase, req, card>>

PollCatalog ==
    /\ Polling /\ ~busy /\ ~ready
    /\ IF retry = 0 THEN Submit("catalog", 0, 0) ELSE UNCHANGED <<job, busy, error, retry>>
    /\ UNCHANGED <<slotVars, ui, act, ready, autoload, flush, cursor, phase, req, card>>

\* Fault: only a swap saves the figure that leaves.
OldDirtyOfSwap == act.kind = "load" /\ act.old \in Slots /\ gen[act.old] # saved[act.old]

OldDirty == act.old \in Slots /\ gen[act.old] # saved[act.old]

\* The figure about to leave is saved first.
PollSaveOld ==
    /\ Polling /\ ~busy /\ ready /\ act # NoAct
    /\ OldDirty
    /\ SaveSlot(act.old)
    /\ UNCHANGED <<slotVars, ui, act, ready, autoload, flush, cursor, phase, req, card>>

\* Fault: the action is not cleared.
RemoveKeepsAction ==
    /\ Polling /\ ~busy /\ ready /\ act.kind = "remove"
    /\ ~OldDirty /\ act.wait = 0
    /\ occupied' = [s \in Slots |-> occupied[s] /\ s # act.old]
    /\ ui' = [ui EXCEPT ![act.ui] = None]
    /\ UNCHANGED <<act, present, id, uid, gen, saved, job, busy, error, ready, autoload,
                   flush, cursor, retry, phase, req, card>>

PollRemove ==
    /\ Polling /\ ~busy /\ ready /\ act.kind = "remove"
    /\ ~OldDirty /\ act.wait = 0
    /\ occupied' = [s \in Slots |-> occupied[s] /\ s # act.old]
    /\ ui' = [ui EXCEPT ![act.ui] = None]
    /\ act' = NoAct
    /\ UNCHANGED <<present, id, uid, gen, saved, job, busy, error, ready, autoload,
                   flush, cursor, retry, phase, req, card>>

PollLoad ==
    /\ Polling /\ ~busy /\ ready /\ act.kind = "load"
    /\ ~OldDirty /\ act.wait = 0
    /\ Submit("load", 0, act.id)
    /\ UNCHANGED <<slotVars, ui, act, ready, autoload, flush, cursor, phase, req, card>>

PollAutoload ==
    /\ Polling /\ ~busy /\ ready /\ act = NoAct
    /\ autoload /\ retry = 0
    /\ BeginEffect(0, 0, "load")
    /\ error' = (error /\ BeginResult(0, 0, "load") # "begun")
    /\ UNCHANGED <<occupied, id, uid, gen, saved, ui, job, busy, ready, autoload,
                   flush, cursor, retry, phase, req, card>>

SaveDue ==
    /\ ready /\ act = NoAct /\ ~(autoload /\ retry = 0)
    /\ (flush /\ ~error) \/ retry = 0

\* Fault: a save starts although a job is in progress.
PollSaveBusy ==
    /\ Polling /\ SaveDue
    /\ \E s \in Slots : Dirty(s) /\ SaveSlot(s) /\ cursor' = (s + 1) % N
    /\ UNCHANGED <<slotVars, ui, act, ready, autoload, flush, phase, req, card>>

\* Fault: every scan starts at the first slot.
PollSaveFirst ==
    /\ Polling /\ ~busy /\ SaveDue
    /\ \E s \in Slots : Dirty(s)
    /\ SaveSlot(First({s \in Slots : Dirty(s)})) /\ UNCHANGED cursor
    /\ UNCHANGED <<slotVars, ui, act, ready, autoload, flush, phase, req, card>>

\* The first dirty slot from the cursor on is saved, and the cursor passes it.
PollSave ==
    /\ Polling /\ ~busy /\ SaveDue
    /\ \E s \in Slots : Dirty(s)
    /\ LET k == First({j \in Slots : Dirty((cursor + j) % N)})
           s == (cursor + k) % N
       IN  SaveSlot(s) /\ cursor' = (s + 1) % N
    /\ UNCHANGED <<slotVars, ui, act, ready, autoload, flush, phase, req, card>>

PollClean ==
    /\ Polling /\ ~busy /\ SaveDue
    /\ \A s \in Slots : ~Dirty(s)
    /\ flush' = FALSE
    /\ UNCHANGED <<slotVars, ui, act, job, busy, error, ready, autoload, cursor,
                   retry, phase, req, card>>

\* A job is in progress, the figure is still away, or no save is due.
PollNothing ==
    /\ Polling
    /\ \/ busy
       \/ ready /\ act # NoAct /\ ~OldDirty /\ act.wait > 0
       \/ ready /\ act = NoAct /\ ~SaveDue /\ ~(autoload /\ retry = 0)
    /\ UNCHANGED <<slotVars, ui, act, job, busy, error, ready, autoload, flush,
                   cursor, retry, phase, req, card>>

Poll == \/ PollCatalog \/ PollSaveOld \/ PollRemove \/ PollLoad
        \/ PollAutoload \/ PollSave \/ PollClean \/ PollNothing
-----------------------------------------------------------------------------
\* The storage worker (e11_worker) ends its job and sends its event; Journal
\* has what happens to the files.
WorkerFinish(st) ==
    /\ job.st = "running"
    /\ st \in {"ok", "failed"}
    /\ job' = [job EXCEPT !.st = st]
    /\ card' = IF job.op = "save" /\ st = "ok"
               THEN [card EXCEPT ![job.slot] = job.snap] ELSE card
    /\ UNCHANGED <<slotVars, ui, act, busy, error, ready, autoload, flush, cursor,
                   retry, phase, pc, req>>

\* e09_complete, one action for each job and result.
Completing(st) == /\ pc = "idle" /\ job.st = st
                  /\ busy' = FALSE /\ job' = NoJob /\ retry' = RetryTicks

CompleteFailed ==
    /\ Completing("failed")
    /\ IF act # NoAct THEN Restore
       ELSE error' = TRUE /\ UNCHANGED <<present, act>>
    /\ UNCHANGED <<occupied, id, uid, gen, saved, ui, ready, autoload, flush,
                   cursor, phase, pc, req, card>>

\* The call of e12_begin comes after e09_busy is cleared and e11_count is set.
CompleteCatalog ==
    /\ Completing("ok") /\ job.op = "catalog"
    /\ ready' = TRUE /\ error' = FALSE
    /\ IF act = NoAct /\ Owners(0) = {}
       THEN /\ act' = [kind |-> "load", ui |-> 0, id |-> 0, old |-> ui[0], wait |-> RemoveTicks]
            /\ present' = [s \in Slots |-> present[s] /\ s # ui[0]]
       ELSE UNCHANGED <<act, present>>
    /\ UNCHANGED <<occupied, id, uid, gen, saved, ui, autoload, flush, cursor,
                   phase, pc, req, card>>

\* Fault: what was written while the save ran counts as saved.
CompleteSaveCurrent ==
    /\ Completing("ok") /\ job.op = "save"
    /\ saved' = [saved EXCEPT ![job.slot] = gen[job.slot]]
    /\ error' = FALSE
    /\ UNCHANGED <<occupied, present, id, uid, gen, ui, act, ready, autoload, flush,
                   cursor, phase, pc, req, card>>

CompleteSave ==
    /\ Completing("ok") /\ job.op = "save"
    /\ saved' = [saved EXCEPT ![job.slot] = job.snap]
    /\ error' = FALSE
    /\ UNCHANGED <<occupied, present, id, uid, gen, ui, act, ready, autoload, flush,
                   cursor, phase, pc, req, card>>

\* Fault: the slot of the figure that is replaced does not count.
FreeEmpty == {s \in Slots : ~occupied[s]}

\* Slots a loaded figure may take: free ones, and that of the figure it replaces.
Free == {s \in Slots : ~occupied[s] \/ s = act.old}
UidTaken(u) == \E s \in Slots \ Free : uid[s] = u
\* Fault: the first free slot, wherever the figure has been before.
PlaceFirst(u) == First(Free)

\* The slot where the figure has been before, or the first free one.
Place(u) == LET seen == {s \in Free : uid[s] = u}
            IN  IF seen # {} THEN First(seen) ELSE First(Free)

CompleteLoadRefused ==
    /\ Completing("ok") /\ job.op = "load"
    /\ UidTaken(UidOf[job.id]) \/ Free = {}
    /\ Restore
    /\ UNCHANGED <<occupied, id, uid, gen, saved, ui, ready, autoload, flush,
                   cursor, phase, pc, req, card>>

\* The slot gets the figure of the job, and the position of the action the slot.
TakeSlot(t) ==
    /\ occupied' = [s \in Slots |-> s = t \/ (occupied[s] /\ s # act.old)]
    /\ present' = [present EXCEPT ![t] = TRUE]
    /\ id' = [id EXCEPT ![t] = job.id]
    /\ uid' = [uid EXCEPT ![t] = UidOf[job.id]]
    /\ gen' = [gen EXCEPT ![t] = 0] /\ saved' = [saved EXCEPT ![t] = 0]
    /\ card' = [card EXCEPT ![t] = 0]
    /\ ui' = [ui EXCEPT ![act.ui] = t]

CompleteLoad ==
    /\ Completing("ok") /\ job.op = "load"
    /\ ~UidTaken(UidOf[job.id]) /\ Free # {}
    /\ TakeSlot(Place(UidOf[job.id]))
    /\ act' = NoAct /\ autoload' = FALSE /\ error' = FALSE
    /\ UNCHANGED <<ready, flush, cursor, phase, pc, req>>

Complete == \/ CompleteFailed \/ CompleteCatalog \/ CompleteSave
            \/ CompleteLoadRefused \/ CompleteLoad

Next ==
    \/ \E r \in Requests : Request(r)
    \/ \E s \in Slots : GameWrite(s)
    \/ Tick \/ Mailbox \/ Poll
    \/ \E st \in {"ok", "failed"} : WorkerFinish(st)
    \/ Complete

Spec == Init /\ [][Next]_vars

\* The fairness the program's scheduling gives: the timer and the event queue
\* keep being served, and each disk job ends.  A job that is tried again and
\* again succeeds some time (the card is not broken for good).
Fairness ==
    /\ WF_vars(Tick) /\ WF_vars(Mailbox) /\ WF_vars(Poll) /\ SF_vars(Complete)
    /\ WF_vars(\E st \in {"ok", "failed"} : WorkerFinish(st))
    /\ SF_vars(job.op = "catalog" /\ WorkerFinish("ok"))
    /\ SF_vars(job.op = "load" /\ WorkerFinish("ok"))
    /\ \A s \in Slots : SF_vars(job.op = "save" /\ job.slot = s /\ WorkerFinish("ok"))

FairSpec == Spec /\ Fairness
-----------------------------------------------------------------------------
Acts == [kind : {"load", "remove"}, ui : Slots, id : Ids, old : Slots \cup {None},
         wait : 0..RemoveTicks]
Jobs == [op : {"catalog", "load", "save"}, slot : Slots, snap : Gens, id : Ids,
         st : {"running", "ok", "failed"}]

\* Types of every variable.
TypeOK ==
    /\ occupied \in [Slots -> BOOLEAN] /\ present \in [Slots -> BOOLEAN]
    /\ id \in [Slots -> Ids] /\ uid \in [Slots -> Uids \cup {NoUid}]
    /\ gen \in [Slots -> Gens] /\ saved \in [Slots -> Gens] /\ card \in [Slots -> Gens]
    /\ ui \in [Slots -> Slots \cup {None}]
    /\ act \in Acts \cup {NoAct}
    /\ job \in Jobs \cup {NoJob}
    /\ busy \in BOOLEAN /\ error \in BOOLEAN /\ ready \in BOOLEAN
    /\ autoload \in BOOLEAN /\ flush \in BOOLEAN
    /\ cursor \in Slots /\ retry \in 0..RetryTicks /\ phase \in 0..(MailboxTicks - 1)
    /\ pc \in {"idle", "mailbox", "poll"}
    /\ req \in Requests \cup {NoReq}

\* A catalogue entry is open in at most one slot, and so is a figure (a UID),
\* also while one slot is being replaced: e12_begin and e09_complete refuse the
\* others (test_e12.c:97, "duplicate save ownership").  Two owners would save
\* to the same journals.
OneOwner ==
    \A s, t \in Slots : occupied[s] /\ occupied[t] /\ s # t =>
        id[s] # id[t] /\ uid[s] # uid[t]

\* A figure has one slot number for the whole session, however often it is
\* removed and loaded again at other UI positions (test_e12.c:98, "retains15
\* rather than empty0"): no two slots remember the same UID.
UidHome ==
    \A s, t \in Slots : uid[s] = uid[t] /\ uid[s] # NoUid => s = t

\* Every occupied slot is at exactly one UI position and no position names an
\* empty slot, so no figure becomes unreachable in the menu.
UiMap ==
    /\ \A u, v \in Slots : ui[u] = ui[v] /\ ui[u] # None => u = v
    /\ \A s \in Slots : occupied[s] <=> \E u \in Slots : ui[u] = s

\* The game sees a figure exactly when its slot is occupied and it is not the
\* one being removed or swapped, so nothing is written to a figure that leaves.
PresentIffHeld ==
    \A s \in Slots : present[s] <=> occupied[s] /\ s # act.old

\* A slot reported as saved (it counts no more in e12_dirty, which the menu
\* shows) has its current data on the card, whatever was written while the
\* save ran (test_e12.c:90, "Snapshot completion cannot swallow a concurrent
\* write").
SavedIsOnCard ==
    \A s \in Slots : occupied[s] /\ ~Dirty(s) => card[s] = gen[s]

\* A loaded figure always finds a slot: -8 (no room) is never reached.
AlwaysRoom == job.op = "load" => Free # {}

\* What a slot and a menu position are to each other.  No figure has two slots
\* or two owners, and it keeps its slot for the session; no position loses its
\* slot, and there is always room for what a position loads.
FigureHomes == OneOwner /\ UidHome
MenuPlaces == UiMap /\ AlwaysRoom

\* The early return of e09_poll for the initial load never keeps a figure from
\* being saved: no figure is held while it is pending.
AutoloadMeansEmpty == autoload => \A s \in Slots : ~occupied[s]

\* The inductive invariant: what relates the pending action, the disk job and
\* the slots.
ActInv ==
    act # NoAct => /\ act.old = ui[act.ui]
                   /\ act.kind = "load" => Owners(act.id) = {}

JobInv ==
    /\ busy <=> job # NoJob
    /\ job.op = "load" => act.kind = "load" /\ act.id = job.id /\ ~OldDirty
    /\ job.op = "save" => Dirty(job.slot)

CardInv ==
    \A s \in Slots : occupied[s] =>
        /\ uid[s] # NoUid
        /\ card[s] = IF job.op = "save" /\ job.slot = s /\ job.st = "ok"
                     THEN job.snap ELSE saved[s]

StorageInv ==
    /\ TypeOK
    /\ OneOwner /\ UidHome /\ UiMap /\ PresentIffHeld
    /\ ActInv /\ JobInv /\ CardInv
    /\ AutoloadMeansEmpty

\* No step drops the figure of a slot, by removal or replacement, while the
\* slot has data that is not saved: a swap saves the old figure first and gives
\* up when that fails (test_e12.c:91, "Save failure restores removed figure
\* with all RAM progress").
NoProgressLost ==
    [][\A s \in Slots :
          occupied[s] /\ (~occupied'[s] \/ id'[s] # id[s]) => ~Dirty(s)]_vars

\* The storage worker never has two jobs: a job is not replaced before it has
\* ended and its completion has been handled.  e11_job, the buffer of the job,
\* is therefore never overwritten and the four-entry queue never fills.
JobUndisturbed ==
    [][job # NoJob => \/ job' = NoJob /\ job.st # "running"
                      \/ job' = job
                      \/ job.st = "running" /\ \E st \in {"ok", "failed"} :
                                               job' = [job EXCEPT !.st = st]]_vars

\* The portal as the game finds it: the figures of the slots present.
Feed == INSTANCE FigureMoves
        WITH Figs <- Uids, NoFig <- NoUid,
             fig <- [s \in Slots |-> IF present[s] THEN uid[s] ELSE NoUid]

\* Removals, swaps, loads and what restores a figure after a failure move one
\* figure at a time on the portal: none takes the place of another in a step,
\* none is there twice, also not the one that comes back.  The status packets
\* (PortalStatus) rely on this.
MovesOneByOne == Feed!MovesSpec
-----------------------------------------------------------------------------
\* A removal or a swap ends, with a new figure or with the old one back, even
\* when the disk fails and whatever else the overlay asks for.
ActionEnds == (act # NoAct) ~> (act = NoAct)

SaveEnded(s) == job.op = "save" /\ job.slot = s /\ job.st = "ok"

\* Once the overlay stops asking for changes, unsaved data of every slot is
\* written, however often the game writes to the other slots: the scan starts
\* after the slot saved last and failures are tried again.
DirtyIsSaved ==
    <>[](req = NoReq) =>
        \A s \in Slots : Dirty(s) ~> (SaveEnded(s) \/ ~Dirty(s))

\* The catalogue is loaded in the end, after failures too, and the figure of
\* the start (or another one, if the user was faster) gets its slot.
StartsUp == <>(ready /\ ~autoload)
=============================================================================
