---------------------------- MODULE PluginProofs ----------------------------
(***************************************************************************)
(* Proofs about the parts that MCPlugin runs: the HIDv5 handlers and their *)
(* installation, for every number of unknown instructions and lost writes  *)
(* and every counter; the storages E11 and E09, which implement OneFigure, *)
(* for any figures, any delays and any number of writes of the game; and   *)
(* the start of the worker threads, for any number of failures.            *)
(***************************************************************************)
EXTENDS HidV5, E11, E09, HidStart, FiniteSetTheorems, TLAPS


\* Before the loader is past the discovery call nothing leads to a handler.
Fresh ==
    stage \in {"v4", "discovery"} =>
        /\ ~delivered
        /\ \A s \in Handlers \cup {"discovery", "version"} : ~Patched(s)

\* What the game was told is what it finds once it has read its answers.
Owed ==
    /\ ~owedR /\ ~owedA => told = activated
    /\ owedR /\ ~owedA => ~activated

V5Inv == PatchesInv /\ Fresh /\ Owed /\ StatusAgrees
-----------------------------------------------------------------------------
LEMMA SitesFinite == IsFiniteSet(Sites)
  <1> DEFINE A == {"v4ioctl", "v4close"}
             B == {"discovery", "version"}
             C == {"change", "params", "attach"}
             D == {"suspend", "cancel", "control", "interrupt"}
  <1>1. /\ IsFiniteSet({"v4ioctl"}) /\ IsFiniteSet({"discovery"})
        /\ IsFiniteSet({"change"}) /\ IsFiniteSet({"suspend"})
    BY FS_Singleton
  <1>2. IsFiniteSet({"v4ioctl"} \cup {"v4close"})
    BY <1>1, FS_AddElement
  <1>3. IsFiniteSet({"discovery"} \cup {"version"})
    BY <1>1, FS_AddElement
  <1>4. IsFiniteSet(({"change"} \cup {"params"}) \cup {"attach"})
    BY <1>1, FS_AddElement
  <1>5. IsFiniteSet((({"suspend"} \cup {"cancel"}) \cup {"control"}) \cup {"interrupt"})
    BY <1>1, FS_AddElement
  <1>6. /\ A = {"v4ioctl"} \cup {"v4close"}
        /\ B = {"discovery"} \cup {"version"}
        /\ C = ({"change"} \cup {"params"}) \cup {"attach"}
        /\ D = (({"suspend"} \cup {"cancel"}) \cup {"control"}) \cup {"interrupt"}
    OBVIOUS
  <1>7. IsFiniteSet(A) /\ IsFiniteSet(B) /\ IsFiniteSet(C) /\ IsFiniteSet(D)
    BY <1>2, <1>3, <1>4, <1>5, <1>6
  <1>8. IsFiniteSet(((A \cup B) \cup C) \cup D)
    BY <1>7, FS_Union
  <1>9. Sites = ((A \cup B) \cup C) \cup D
    BY DEF Sites, V4Sites, Handlers
  <1> QED BY <1>8, <1>9

LEMMA SiteFacts ==
    /\ Handlers \subseteq Sites /\ V4Sites \subseteq Sites
    /\ "discovery" \in Sites /\ "version" \in Sites
    /\ V4Sites \cap Handlers = {}
    /\ "discovery" \notin Handlers /\ "version" \notin Handlers
    /\ "discovery" \notin V4Sites /\ "version" \notin V4Sites
    /\ "discovery" # "version"
    /\ {"change", "params", "attach", "suspend", "cancel", "control", "interrupt"}
          \subseteq Handlers
    /\ \A s \in Handlers : s \in Group(s)
  BY DEF Sites, V4Sites, Handlers, Group

\* Lost writes stay within their bound.
LEMMA LoseFacts ==
  ASSUME NEW L \in SUBSET Sites, faults \in 0..MaxFaults, Lose(L)
  PROVE  faults' \in 0..MaxFaults
  <1>1. Cardinality(L) \in Nat
    BY SitesFinite, FS_Subset, FS_CardinalityType
  <1> QED BY <1>1, HidV5Assumption DEF Lose

LEMMA WrittenFacts ==
  ASSUME NEW W, NEW L, mem \in [Sites -> {"stock", "ours", "other"}], mem' = Written(W, L)
  PROVE  /\ mem' \in [Sites -> {"stock", "ours", "other"}]
         /\ \A s \in Sites : Patched(s)' <=> (Patched(s) \/ s \in W \ L)
  BY DEF Written, Patched
-----------------------------------------------------------------------------
LEMMA V5Init == Init => V5Inv
  <1> SUFFICES ASSUME Init PROVE V5Inv OBVIOUS
  <1>1. faults \in 0..MaxFaults
    <2>1. Cardinality({s \in Sites : mem[s] = "other"}) \in Nat
      BY SitesFinite, FS_Subset, FS_CardinalityType
    <2> QED BY <2>1, HidV5Assumption DEF Init
  <1>2. TypeOK
    <2>1. 0 \in 0 .. CounterMod - 1
      BY HidV5Assumption
    <2>2. /\ mem \in [Sites -> {"stock", "ours", "other"}]
          /\ result \in [Handlers -> {"none", "pre", "post", "applied"}]
      BY DEF Init
    <2> QED BY <1>1, <2>1, <2>2 DEF Init, TypeOK
  <1>3. AppliedInPlace /\ AnnouncedWhole /\ SnapshotCurrent
    BY SiteFacts DEF Init, AppliedInPlace, AnnouncedWhole, SnapshotCurrent
  <1>4. Fresh /\ Owed /\ StatusAgrees
    BY SiteFacts DEF Init, Fresh, Owed, StatusAgrees, Patched
  <1> QED BY <1>2, <1>3, <1>4 DEF V5Inv, PatchesInv

\* What the patchers of the loader do to the rest.
StartEffect ==
    /\ mem' \in [Sites -> {"stock", "ours", "other"}]
    /\ \A s \in Handlers : Patched(s)' <=> Patched(s)
    /\ stage' \in {"discovery", "version", "running", "halted"}
    /\ stage' = "discovery" => /\ stage = "v4"
                               /\ ~Patched("discovery")' /\ ~Patched("version")'
    /\ faults' \in 0..MaxFaults
    /\ Patched("discovery")' => Patched("discovery") \/ ~delivered

\* The patchers of the loader.
LEMMA StartStep ==
  ASSUME V5Inv, Start
  PROVE  V5Inv'
  <1>1. PICK lost, stuck \in Losses(Sites) :
              \/ PatchV4(lost, stuck)
              \/ stuck = {} /\ \/ PatchCall("discovery", "version", lost)
                               \/ PatchCall("version", "running", lost)
    BY DEF Start
  <1>2. lost \in SUBSET Sites /\ stuck \in SUBSET Sites /\ lost \cup stuck \in SUBSET Sites
    BY <1>1 DEF Losses
  <1>3. UNCHANGED <<result, portalVars, snap, answer>>
    BY <1>1 DEF PatchV4, PatchCall
  <1>4. StartEffect
    <2>1. CASE PatchV4(lost, stuck)
      <3>1. /\ mem' = mem \/ \E W, L \in SUBSET V4Sites : mem' = Written(W, L)
            /\ stage = "v4" /\ stage' \in {"discovery", "halted"}
        BY <2>1 DEF PatchV4, Goes
      <3>2. faults' \in 0..MaxFaults
        BY <1>2, <2>1, LoseFacts DEF PatchV4, V5Inv, PatchesInv, TypeOK
      <3>3. /\ mem' \in [Sites -> {"stock", "ours", "other"}]
            /\ \A s \in Sites \ V4Sites : Patched(s)' <=> Patched(s)
        BY <3>1, WrittenFacts DEF V5Inv, PatchesInv, TypeOK, Patched
      <3>4. ~Patched("discovery") /\ ~Patched("version")
        BY <3>1 DEF V5Inv, Fresh
      <3> QED BY <3>1, <3>2, <3>3, <3>4, SiteFacts DEF StartEffect
    <2>2. ASSUME NEW site \in {"discovery", "version"}, NEW next \in {"version", "running"},
                 PatchCall(site, next, lost), site = "discovery" <=> next = "version"
          PROVE  StartEffect
      <3>1. mem' = mem \/ mem' = Written({site}, lost)
        BY <2>2 DEF PatchCall
      <3>2. faults' \in 0..MaxFaults
        BY <1>2, <2>2, LoseFacts DEF PatchCall, V5Inv, PatchesInv, TypeOK
      <3>3. /\ mem' \in [Sites -> {"stock", "ours", "other"}]
            /\ \A s \in Sites \ {site} : Patched(s)' <=> Patched(s)
        BY <3>1, WrittenFacts DEF V5Inv, PatchesInv, TypeOK, Patched
      <3>4. stage' \in {next, "halted"} /\ stage = site
        BY <2>2 DEF PatchCall, Goes
      <3>5. site = "discovery" => ~delivered
        BY <3>4 DEF V5Inv, Fresh
      <3> QED BY <2>2, <3>2, <3>3, <3>4, <3>5, SiteFacts DEF StartEffect
    <2> QED BY <1>1, <2>1, <2>2
  <1>5. TypeOK'
    BY <1>3, <1>4 DEF StartEffect, V5Inv, PatchesInv, TypeOK, portalVars
  <1>6. AppliedInPlace' /\ SnapshotCurrent'
    BY <1>3, <1>4
       DEF StartEffect, V5Inv, PatchesInv, AppliedInPlace, SnapshotCurrent, Snapshot, portalVars
  <1>7. AnnouncedWhole'
    BY <1>3, <1>4 DEF StartEffect, V5Inv, PatchesInv, AnnouncedWhole, portalVars
  <1>8. Fresh'
    BY <1>3, <1>4, SiteFacts DEF StartEffect, V5Inv, Fresh, portalVars
  <1>9. Owed' /\ StatusAgrees'
    BY <1>3 DEF V5Inv, Owed, StatusAgrees, portalVars
  <1> QED BY <1>5, <1>6, <1>7, <1>8, <1>9 DEF V5Inv, PatchesInv
-----------------------------------------------------------------------------
\* What the installers of one message do.
LEMMA InstallStep ==
  ASSUME V5Inv, NEW all \in BOOLEAN, NEW lost \in Losses(Handlers), Install(all, lost)
  PROVE  /\ mem' \in [Sites -> {"stock", "ours", "other"}]
         /\ result' \in [Handlers -> {"none", "pre", "post", "applied"}]
         /\ faults' \in 0..MaxFaults
         /\ \A s \in Sites : Patched(s) => Patched(s)'
         /\ \A s \in Sites \ Handlers : Patched(s)' => Patched(s)
         /\ AppliedInPlace'
  <1> DEFINE tried == Attempted(all, lost)
             W == {s \in tried : StockGroup(s)}
  <1>1. /\ mem' = Written(W, lost) /\ lost \subseteq W /\ Lose(lost)
        /\ result' = [s \in Handlers |-> IF s \in tried THEN Report(s, lost) ELSE result[s]]
    BY DEF Install
  <1>2. W \subseteq Handlers /\ lost \in SUBSET Sites
    BY <1>1, SiteFacts DEF Attempted
  <1>3. /\ mem' \in [Sites -> {"stock", "ours", "other"}]
        /\ \A s \in Sites : Patched(s)' <=> (Patched(s) \/ s \in W \ lost)
    <2> HIDE DEF W
    <2> QED BY <1>1, WrittenFacts DEF V5Inv, PatchesInv, TypeOK
  <1>4. faults' \in 0..MaxFaults
    BY <1>1, <1>2, LoseFacts DEF V5Inv, PatchesInv, TypeOK
  <1>5. ASSUME NEW s \in Handlers
        PROVE  /\ Report(s, lost) \in {"none", "pre", "post", "applied"}
               /\ Report(s, lost) = "applied" =>
                     result[s] = "applied" \/ (StockGroup(s) /\ s \notin lost)
    BY DEF Report, V5Inv, PatchesInv, TypeOK
  <1>6. result' \in [Handlers -> {"none", "pre", "post", "applied"}]
    BY <1>1, <1>5 DEF V5Inv, PatchesInv, TypeOK
  <1>7. AppliedInPlace'
    <2> SUFFICES ASSUME NEW s \in Handlers, result'[s] = "applied" PROVE Patched(s)'
      BY DEF AppliedInPlace
    <2>1. result[s] = "applied" \/ s \in W \ lost
      BY <1>1, <1>5
    <2> QED BY <1>3, <2>1, SiteFacts DEF V5Inv, PatchesInv, AppliedInPlace
  <1> QED BY <1>2, <1>3, <1>4, <1>6, <1>7

\* When every installer of the discovery succeeds, every handler is in place:
\* those that were done already, and those written now.
LEMMA AllWork ==
  ASSUME V5Inv, NEW lost \in Losses(Handlers), Install(FALSE, lost),
         \A s \in Handlers : Works(s, lost)
  PROVE  \A s \in Handlers : Patched(s)'
  <1> SUFFICES ASSUME NEW s \in Handlers PROVE Patched(s)'
    OBVIOUS
  <1>1. CASE Done(s)
    <2>1. Patched(s)
      BY <1>1, SiteFacts DEF Done, V5Inv, PatchesInv, AppliedInPlace
    <2> QED BY <2>1, InstallStep, SiteFacts
  <1>2. CASE ~Done(s)
    <2>1. StockGroup(s) /\ s \notin lost
      BY <1>2, SiteFacts DEF Works
    <2>2. s \in Attempted(FALSE, lost)
      BY <1>2 DEF Attempted
    <2> QED BY <2>1, <2>2, SiteFacts DEF Install, Written, Patched
  <1> QED BY <1>1, <1>2

\* The messages that change only the portal, not the patches.
LEMMA PortalStep ==
  ASSUME V5Inv, UNCHANGED <<patchVars, stage, delivered>>, SnapshotCurrent',
         {resumed, activated, owedR, owedA, told}' \subseteq BOOLEAN,
         counter' \in 0 .. CounterMod - 1,
         answer' \in {"none", "ok", "refused", "parked", "entry", "version", "R", "A0", "A1",
                      "S0", "S1"},
         Owed', StatusAgrees'
  PROVE  V5Inv'
  <1>1. UNCHANGED <<mem, result, faults, stage, delivered>>
    BY DEF patchVars
  <1>2. TypeOK'
    BY <1>1 DEF V5Inv, PatchesInv, TypeOK
  <1>3. AppliedInPlace' /\ AnnouncedWhole' /\ Fresh'
    BY <1>1 DEF V5Inv, PatchesInv, AppliedInPlace, AnnouncedWhole, Fresh, Patched
  <1> QED BY <1>2, <1>3 DEF V5Inv, PatchesInv

\* Types of the portal's own state, for one step at a time.
LEMMA Flags ==
  ASSUME V5Inv
  PROVE  /\ resumed \in BOOLEAN /\ activated \in BOOLEAN /\ owedR \in BOOLEAN
         /\ owedA \in BOOLEAN /\ delivered \in BOOLEAN /\ told \in BOOLEAN
         /\ counter \in 0 .. CounterMod - 1 /\ CounterMod \in Nat \ {0}
         /\ SnapshotCurrent /\ Owed /\ StatusAgrees
  BY HidV5Assumption DEF V5Inv, PatchesInv, TypeOK

LEMMA DiscoverStep ==
  ASSUME V5Inv, NEW valid \in BOOLEAN, NEW lost \in Losses(Handlers), Discover(valid, lost)
  PROVE  V5Inv'
  <1>1. /\ UNCHANGED <<stage, resumed, activated, owedR, owedA, counter, told>>
        /\ answer' \in {"refused", "parked", "entry"} /\ delivered' \in BOOLEAN
        /\ SnapshotCurrent'
    BY Flags DEF Discover, Change, Publish, SnapshotCurrent, portalVars
  <1>2. Owed' /\ StatusAgrees'
    BY <1>1, Flags DEF Owed, StatusAgrees
  <1>3. CASE Patched("discovery")
    <2>1. Install(FALSE, lost)
      BY <1>3 DEF Discover
    <2>2. /\ mem' \in [Sites -> {"stock", "ours", "other"}]
          /\ result' \in [Handlers -> {"none", "pre", "post", "applied"}]
          /\ faults' \in 0..MaxFaults /\ AppliedInPlace'
          /\ \A s \in Sites : Patched(s) => Patched(s)'
      BY <2>1, InstallStep
    <2>3. TypeOK'
      BY <1>1, <2>2, Flags DEF V5Inv, PatchesInv, TypeOK
    <2>4. AnnouncedWhole'
      <3>1. CASE \A s \in Handlers : Works(s, lost)
        BY <2>1, <3>1, AllWork DEF AnnouncedWhole
      <3>2. CASE ~\A s \in Handlers : Works(s, lost)
        <4>1. delivered' = delivered
          BY <1>3, <3>2 DEF Discover, portalVars
        <4> QED BY <1>3, <2>2, <4>1, SiteFacts DEF V5Inv, PatchesInv, AnnouncedWhole
      <3> QED BY <3>1, <3>2
    <2>5. Fresh'
      BY <1>1, <1>3 DEF V5Inv, Fresh
    <2> QED BY <1>1, <1>2, <2>2, <2>3, <2>4, <2>5 DEF V5Inv, PatchesInv
  <1>4. CASE ~Patched("discovery")
    <2>1. UNCHANGED <<mem, result, faults>> /\ Patched("change")
      BY <1>4 DEF Discover, patchVars
    <2>2. TypeOK'
      BY <1>1, <2>1, Flags DEF V5Inv, PatchesInv, TypeOK
    <2>3. AppliedInPlace' /\ AnnouncedWhole'
      BY <1>4, <2>1 DEF V5Inv, PatchesInv, AppliedInPlace, AnnouncedWhole, Patched
    <2>4. Fresh'
      BY <1>1, <2>1, SiteFacts DEF V5Inv, Fresh
    <2> QED BY <1>1, <1>2, <2>2, <2>3, <2>4 DEF V5Inv, PatchesInv
  <1> QED BY <1>3, <1>4

LEMMA GetVersionStep ==
  ASSUME V5Inv, NEW valid \in BOOLEAN, NEW lost \in Losses(Handlers), GetVersion(valid, lost)
  PROVE  V5Inv'
  <1>1. UNCHANGED <<stage, portalVars>> /\ Patched("version")
    BY DEF GetVersion
  <1>2. CASE valid
    <2>1. Install(TRUE, lost) /\ answer' = "version" /\ SnapshotCurrent'
      BY <1>2 DEF GetVersion, Publish, SnapshotCurrent
    <2>2. /\ mem' \in [Sites -> {"stock", "ours", "other"}]
          /\ result' \in [Handlers -> {"none", "pre", "post", "applied"}]
          /\ faults' \in 0..MaxFaults /\ AppliedInPlace'
          /\ \A s \in Sites : Patched(s) => Patched(s)'
          /\ \A s \in Sites \ Handlers : Patched(s)' => Patched(s)
      BY <2>1, InstallStep
    <2>3. TypeOK'
      BY <1>1, <2>1, <2>2 DEF V5Inv, PatchesInv, TypeOK, portalVars
    <2>4. AnnouncedWhole'
      BY <1>1, <2>2, SiteFacts DEF V5Inv, PatchesInv, AnnouncedWhole, portalVars
    <2>5. Fresh'
      BY <1>1, SiteFacts DEF V5Inv, Fresh
    <2>6. Owed' /\ StatusAgrees'
      BY <1>1, <2>1, Flags DEF Owed, StatusAgrees, portalVars
    <2> QED BY <2>1, <2>2, <2>3, <2>4, <2>5, <2>6 DEF V5Inv, PatchesInv
  <1>3. CASE ~valid
    <2>1. UNCHANGED <<patchVars, stage, delivered>> /\ SnapshotCurrent' /\ answer' = "refused"
      BY <1>1, <1>3, Flags
         DEF GetVersion, SnapshotCurrent, Snapshot, patchVars, portalVars
    <2>2. Owed' /\ StatusAgrees'
      BY <1>1, <2>1, Flags DEF Owed, StatusAgrees, portalVars
    <2> QED BY <1>1, <2>1, <2>2, Flags, PortalStep DEF portalVars
  <1> QED BY <1>2, <1>3

LEMMA SuspendStep ==
  ASSUME V5Inv, NEW v \in {"suspend", "resume", "bad"}, SuspendResume(v)
  PROVE  V5Inv'
  <1>1. /\ UNCHANGED <<patchVars, stage, activated, owedR, owedA, counter, delivered, told>>
        /\ answer' \in {"ok", "refused"} /\ resumed' \in BOOLEAN
    BY Flags DEF SuspendResume
  <1>2. SnapshotCurrent'
    BY <1>1, Flags DEF SuspendResume, Publish, SnapshotCurrent, Snapshot, patchVars
  <1>3. Owed' /\ StatusAgrees'
    BY <1>1, Flags DEF Owed, StatusAgrees
  <1> QED BY <1>1, <1>2, <1>3, Flags, PortalStep

LEMMA StatelessStep ==
  ASSUME V5Inv, NEW site, NEW valid, Stateless(site, valid)
  PROVE  V5Inv'
  <1>1. UNCHANGED <<patchVars, stage, portalVars, snap>> /\ answer' \in {"ok", "refused"}
    BY DEF Stateless
  <1>2. SnapshotCurrent' /\ Owed' /\ StatusAgrees'
    BY <1>1, Flags
       DEF Owed, StatusAgrees, SnapshotCurrent, Snapshot, patchVars, portalVars
  <1> QED BY <1>1, <1>2, Flags, PortalStep DEF portalVars

\* R makes the portal inactive and A decides, both until their answers are read.
LEMMA ControlStep ==
  ASSUME V5Inv, NEW c \in {"R", "A0", "A1", "C", "bad"}, Control(c)
  PROVE  V5Inv'
  <1>1. /\ UNCHANGED <<patchVars, stage, resumed, counter, delivered, told>>
        /\ answer' \in {"ok", "refused"}
        /\ activated' \in BOOLEAN /\ owedR' \in BOOLEAN /\ owedA' \in BOOLEAN
    BY Flags DEF Control
  <1>2. SnapshotCurrent'
    BY <1>1, Flags DEF Control, Publish, SnapshotCurrent, Snapshot, patchVars
  <1>3. Owed'
    BY <1>1, Flags DEF Control, Owed
  <1>4. StatusAgrees'
    BY <1>1, Flags DEF StatusAgrees
  <1> QED BY <1>1, <1>2, <1>3, <1>4, Flags, PortalStep

\* A read takes one answer, the one to R first, or a status packet.
LEMMA InterruptStep ==
  ASSUME V5Inv, NEW kind \in {"in", "light", "bad"}, Interrupt(kind)
  PROVE  V5Inv'
  <1>1. CASE ReadReset
    <2>1. SnapshotCurrent' /\ Owed' /\ StatusAgrees'
      BY <1>1, Flags DEF ReadReset, ResetFirst, Owed, StatusAgrees, SnapshotCurrent, Snapshot,
                         patchVars
    <2> QED BY <1>1, <2>1, Flags, PortalStep DEF ReadReset
  <1>2. CASE ReadActivation
    <2>1. SnapshotCurrent' /\ Owed' /\ StatusAgrees'
      BY <1>2, Flags DEF ReadActivation, ResetFirst, Owed, StatusAgrees, SnapshotCurrent,
                         Publish
    <2> QED BY <1>2, <2>1, Flags, PortalStep DEF ReadActivation
  <1>3. CASE ReadStatus
    <2>1. SnapshotCurrent' /\ Owed' /\ StatusAgrees'
      BY <1>3, Flags DEF ReadStatus, Owed, StatusAgrees, SnapshotCurrent, Snapshot, patchVars
    <2>2. counter' \in 0 .. CounterMod - 1
      BY <1>3, Flags DEF ReadStatus
    <2> QED BY <1>3, <2>1, <2>2, Flags, PortalStep DEF ReadStatus
  <1>4. CASE UNCHANGED <<patchVars, stage, portalVars, snap>> /\ answer' \in {"ok", "refused"}
    <2>1. SnapshotCurrent' /\ Owed' /\ StatusAgrees'
      BY <1>4, Flags
         DEF Owed, StatusAgrees, SnapshotCurrent, Snapshot, patchVars, portalVars
    <2> QED BY <1>4, <2>1, Flags, PortalStep DEF portalVars
  <1> QED BY <1>1, <1>2, <1>3, <1>4 DEF Interrupt, Refuse
-----------------------------------------------------------------------------
\* Every step of the handlers and of their installation keeps V5Inv.
THEOREM V5Invariant == Spec => []V5Inv
  <1>1. Init => V5Inv
    BY V5Init
  <1>2. V5Inv /\ [Next]_vars => V5Inv'
    <2> SUFFICES ASSUME V5Inv, [Next]_vars PROVE V5Inv' OBVIOUS
    <2>1. CASE UNCHANGED vars
      <3>1. SnapshotCurrent' /\ Owed' /\ StatusAgrees'
        BY <2>1, Flags DEF vars, SnapshotCurrent, Snapshot, Owed, StatusAgrees
      <3> QED BY <2>1, <3>1, Flags, PortalStep
              DEF vars, patchVars, V5Inv, PatchesInv, TypeOK
    <2>2. CASE Start
      BY <2>2, StartStep
    <2>3. CASE Message
      BY <2>3, DiscoverStep, GetVersionStep, StatelessStep, SuspendStep, ControlStep,
         InterruptStep DEF Message
    <2> QED BY <2>1, <2>2, <2>3 DEF Next
  <1> QED BY <1>1, <1>2, PTL DEF Spec

\* A handler counts as installed only where its branch is; the portal is
\* announced only with all handlers in place; the snapshot is current.
THEOREM PatchesHold == Spec => []PatchesInv
  <1>1. V5Inv => PatchesInv
    BY DEF V5Inv
  <1> QED BY <1>1, V5Invariant, PTL

\* Status packets agree with the answers to R and A that the game has read.
THEOREM StatusHolds == Spec => []StatusAgrees
  <1>1. V5Inv => StatusAgrees
    BY DEF V5Inv
  <1> QED BY <1>1, V5Invariant, PTL
-----------------------------------------------------------------------------
(***************************************************************************)
(* The storages E11 and E09.                                               *)
(***************************************************************************)

Records == [ok : BOOLEAN, seq : Seq32, data : Nat]

EarlyTypeOK ==
    /\ live \in Figures \cup {None} /\ have \in Nat /\ shown \in BOOLEAN
    /\ gen \in Nat /\ saved \in Nat /\ seq \in Seq32 /\ kept \in Nat /\ writes \in Nat
    /\ card \in [Figures -> [Files -> Records]]
    /\ busy \in BOOLEAN /\ job \in Jobs \cup {NoJob} /\ ended \in {"no", "ok", "failed"}
    /\ swap \in BOOLEAN /\ ready \in BOOLEAN
    /\ target \in Figures /\ box \in Figures \cup {None}

\* There is a job exactly while the storage is busy.
OneJob == (busy <=> job # NoJob) /\ (ended # "no" => busy)

\* A record is in the file that the parity of its sequence names.
InPlace == \A fg \in Figures, k \in Files : card[fg][k].ok => card[fg][k].seq % 2 = k

\* The content c of sequence s is the dump or in its journal.
IsOnCard(fg, s, c) == c = 0 \/ card[fg][s % 2] = Rec(s, c)

\* The content last kept is on the card, and is that of the memory when nothing
\* is dirty.
Stays == live # None => /\ IsOnCard(live, seq, kept)
                        /\ gen = saved => have = kept
Ordered == saved <= gen /\ (shown => live # None)

\* A save follows the record that was kept; what it saves is what the memory has
\* unless the game has written since.
Saving == job # NoJob /\ job.op = "save" =>
    /\ live # None /\ job.fig = live /\ job.seq = seq
    /\ saved < job.snap /\ job.snap <= gen
    /\ job.snap = gen => job.data = have
    /\ ended = "ok" => card[live][Target(seq)] = Rec(Succ(seq), job.data)

\* A load waits until nothing is dirty, and brings what is on the card.
Loading == job # NoJob /\ job.op = "load" =>
    /\ ~shown /\ (live # None => gen = saved)
    /\ ended = "ok" => IsOnCard(job.fig, job.seq, job.data)

EarlyInv == EarlyTypeOK /\ OneJob /\ InPlace /\ Stays /\ Ordered /\ Saving /\ Loading

\* E11: a swap keeps the figure off the portal, the library comes first.
E11Inv ==
    /\ EarlyInv
    /\ swap => ~shown
    /\ ~ready => live = None
    /\ job # NoJob => /\ job.op # "trace"
                      /\ job.op = "catalog" <=> ~ready
                      /\ job.op = "load" => swap

\* E09: no figure leaves the portal.
E09Inv ==
    /\ EarlyInv
    /\ ~shown => live = None
    /\ job # NoJob => job.op # "catalog"
-----------------------------------------------------------------------------
\* A save goes to the other file than the record it follows.
LEMMA TargetFacts ==
  ASSUME NEW s \in Seq32
  PROVE  /\ s % 2 \in Files /\ Target(s) \in Files /\ Target(s) # s % 2
         /\ Succ(s) \in Seq32 /\ Succ(s) % 2 = Target(s) /\ 0 \in Seq32
  <1>1. s \in Int /\ 0 <= s /\ s <= 2 * HalfSeq - 1 /\ HalfSeq \in Int /\ HalfSeq >= 2
    BY EarlyAssumption DEF Seq32
  <1>2. Succ(s) \in Seq32 /\ 0 \in Seq32
    BY <1>1 DEF Seq32, Succ
  <1>3. s % 2 \in Files /\ Succ(s) % 2 \in Files
    BY <1>1, <1>2 DEF Files, Seq32
  <1>4. Succ(s) % 2 # s % 2
    <2>1. CASE s = 2 * HalfSeq - 1
      <3>1. Succ(s) = 0 /\ s % 2 = 1
        BY <1>1, <2>1 DEF Succ
      <3> QED BY <3>1
    <2>2. CASE s # 2 * HalfSeq - 1
      BY <1>1, <2>2 DEF Succ
    <2> QED BY <2>1, <2>2
  <1> QED BY <1>2, <1>3, <1>4 DEF Target

\* A record that is on the card, and the dump, can be loaded.
LEMMA OnCardLoads ==
  ASSUME NEW fg \in Figures, NEW s \in Seq32, NEW c, IsOnCard(fg, s, c)
  PROVE  c \in Contents(fg)
  <1>1. s % 2 \in Files
    BY TargetFacts
  <1> QED BY <1>1 DEF IsOnCard, Contents, Rec

\* What a load brings is on the card.
LEMMA LoadFacts ==
  ASSUME EarlyInv, NEW fg \in Figures, NEW R \in SUBSET Files
  PROVE  LET r == LoadedFrom(fg, R)
         IN  r.seq \in Seq32 /\ r.data \in Nat /\ IsOnCard(fg, r.seq, r.data)
  <1> DEFINE r == LoadedFrom(fg, R)
  <1>1. CASE r = Dump
    <2>1. 0 \in Seq32
      BY EarlyAssumption DEF Seq32
    <2> QED BY <1>1, <2>1 DEF Dump, Rec, IsOnCard
  <1>2. ASSUME NEW k \in Files, card[fg][k].ok, r = card[fg][k]
        PROVE  r.seq \in Seq32 /\ r.data \in Nat /\ IsOnCard(fg, r.seq, r.data)
    <2>1. card[fg][k] \in Records
      BY DEF EarlyInv, EarlyTypeOK
    <2>2. card[fg][k] = Rec(r.seq, r.data) /\ r.seq % 2 = k
      BY <1>2, <2>1 DEF EarlyInv, InPlace, Records, Rec
    <2> QED BY <1>2, <2>1, <2>2 DEF IsOnCard, Records
  <1>3. r = Dump \/ \E k \in Files : card[fg][k].ok /\ r = card[fg][k]
    <2> DEFINE found == {k \in R : card[fg][k].ok}
               newer == 1 \in found /\ (0 \in found => Newer(card[fg][1].seq, card[fg][0].seq))
    <2>1. r = IF found = {} THEN Dump ELSE IF newer THEN card[fg][1] ELSE card[fg][0]
      BY DEF LoadedFrom
    <2>2. found \subseteq Files /\ \A k \in found : card[fg][k].ok
      OBVIOUS
    <2>3. found = {} \/ (newer /\ 1 \in found) \/ (~newer /\ 0 \in found)
      BY <2>2 DEF Files
    <2> HIDE DEF found, newer, r
    <2> QED BY <2>1, <2>2, <2>3
  <1> QED BY <1>1, <1>2, <1>3

\* What does not touch the card or the job leaves the promise alone.
LEMMA Unseen ==
  ASSUME UNCHANGED <<live, have, shown, kept, job, card>>
  PROVE  UNCHANGED One!oneVars
  BY DEF One!oneVars, Writing, OnCard, Contents

LEMMA StartsWell ==
  ASSUME NEW b, NEW op \in {"catalog", "load"}, EarlyInit(b, op)
  PROVE  /\ EarlyInv /\ One!OneInit /\ ~shown /\ live = None /\ ~ready /\ ~swap
         /\ job # NoJob => job.op = op
  <1>1. 0 \in Seq32 /\ HalfSeq \in Nat
    BY EarlyAssumption DEF Seq32
  <1>2. job \in Jobs \cup {NoJob} /\ (busy <=> job # NoJob) /\ (job # NoJob => job.op = op)
    BY <1>1, EarlyAssumption DEF EarlyInit, Job, Jobs
  <1>3. card \in [Figures -> [Files -> Records]] /\ InPlace
    <2>1. \A s \in Earlier : s \in Seq32 /\ s + 1 \in Nat
      BY EarlyAssumption DEF Seq32
    <2>2. {NoRec} \cup {Rec(s, s + 1) : s \in Earlier} \subseteq Records
      <3>1. \A s \in Earlier : Rec(s, s + 1) \in Records
        BY <2>1, EarlyAssumption DEF Rec, Records
      <3>2. NoRec \in Records
        BY <1>1 DEF NoRec, Records
      <3> QED BY <3>1, <3>2
    <2> QED BY <2>2 DEF EarlyInit, OldJournals, InPlace
  <1>4. EarlyTypeOK /\ OneJob
    BY <1>1, <1>2, <1>3 DEF EarlyInit, EarlyTypeOK, OneJob
  <1>5. Stays /\ Ordered /\ Saving /\ Loading
    BY <1>2 DEF EarlyInit, Stays, Ordered, Saving, Loading
  <1>6. One!OneInit
    <2>1. \A fg \in Figures : Contents(fg) \in SUBSET Nat /\ 0 \in Contents(fg)
      BY <1>3 DEF Contents, Records
    <2>2. OnCard \in [Figures -> SUBSET Nat] /\ \A fg \in Figures : 0 \in OnCard[fg]
      BY <2>1 DEF OnCard
    <2>3. Writing = None
      BY <1>2 DEF Writing
    <2> QED BY <2>2, <2>3 DEF EarlyInit, One!OneInit
  <1> QED BY <1>2, <1>3, <1>4, <1>5, <1>6 DEF EarlyInv, EarlyInit

LEMMA WriteStep ==
  ASSUME EarlyInv, GameWrites
  PROVE  EarlyInv' /\ One!Played
  <1>1. have' \in Nat
    BY EarlyAssumption DEF EarlyInv, EarlyTypeOK, GameWrites
  <1>2. EarlyTypeOK' /\ OneJob' /\ InPlace'
    BY <1>1 DEF EarlyInv, EarlyTypeOK, OneJob, InPlace, GameWrites
  <1>3. Stays' /\ Ordered'
    BY DEF EarlyInv, EarlyTypeOK, Stays, IsOnCard, Ordered, GameWrites
  <1>4. job \in Jobs => job.snap \in Nat
    BY DEF Jobs
  <1>5. Saving' /\ Loading'
    BY <1>4 DEF EarlyInv, EarlyTypeOK, Saving, Loading, IsOnCard, GameWrites
  <1>6. One!Played
    BY <1>1 DEF GameWrites, One!Played, Writing, OnCard, Contents
  <1> QED BY <1>2, <1>3, <1>5, <1>6 DEF EarlyInv
-----------------------------------------------------------------------------
\* What any job does: its kind and figure stay, and the figure in memory.
WorkFacts ==
    /\ job \in Jobs /\ job # NoJob /\ busy /\ busy' /\ ended' \in {"ok", "failed"}
    /\ job' \in Jobs /\ job' # NoJob
    /\ job'.op = job.op /\ job'.fig = job.fig /\ job'.snap = job.snap
    /\ UNCHANGED <<live, have, shown, gen, saved, seq, kept, writes, swap, ready, target, box>>
    /\ UNCHANGED busy

\* A load leaves the card alone, and brings what is on it.
LEMMA LoadStep ==
  ASSUME EarlyInv, Work(TRUE), LoadJob
  PROVE  EarlyInv' /\ UNCHANGED One!oneVars /\ WorkFacts
  <1>1. /\ job \in Jobs /\ job # NoJob /\ busy /\ busy' = busy /\ ended' = "ok"
        /\ UNCHANGED <<live, have, shown, gen, saved, seq, kept, writes, swap, ready, target,
                       box>>
        /\ job.op = "load" /\ UNCHANGED card
    BY DEF EarlyInv, EarlyTypeOK, OneJob, Work, LoadJob, figure
  <1>2. PICK R \in SUBSET Files :
            job' = [job EXCEPT !.data = LoadedFrom(job.fig, R).data,
                               !.seq = LoadedFrom(job.fig, R).seq]
    BY DEF LoadJob
  <1>3. job.fig \in Figures
    BY <1>1 DEF Jobs
  <1> DEFINE r == LoadedFrom(job.fig, R)
  <1>4. r.seq \in Seq32 /\ r.data \in Nat /\ IsOnCard(job.fig, r.seq, r.data)
    BY <1>3, LoadFacts
  <1>5. /\ job' \in Jobs /\ job'.op = "load" /\ job'.fig = job.fig /\ job'.snap = job.snap
        /\ job'.seq = r.seq /\ job'.data = r.data
    <2> HIDE DEF r
    <2> QED BY <1>1, <1>2, <1>4 DEF Jobs, r
  <1>6. job' # NoJob
    BY <1>5, EarlyAssumption
  <1>7. EarlyTypeOK' /\ OneJob' /\ InPlace'
    BY <1>1, <1>5, <1>6 DEF EarlyInv, EarlyTypeOK, OneJob, InPlace
  <1>8. Stays' /\ Ordered' /\ Saving' /\ Loading'
    BY <1>1, <1>4, <1>5, <1>6
       DEF EarlyInv, Stays, IsOnCard, Ordered, Saving, Loading
  <1>9. UNCHANGED One!oneVars
    BY <1>1, <1>5, <1>6 DEF One!oneVars, Writing, OnCard, Contents
  <1> QED BY <1>1, <1>5, <1>6, <1>7, <1>8, <1>9 DEF EarlyInv, WorkFacts

\* A save changes the one file that does not have the content kept.
LEMMA SaveStep ==
  ASSUME EarlyInv, NEW ok \in BOOLEAN, Work(ok), SaveJob(ok)
  PROVE  EarlyInv' /\ [One!Changed]_One!oneVars /\ WorkFacts
  <1> DEFINE k == Target(seq)
             new == Rec(Succ(seq), job.data)
  <1>1. /\ job \in Jobs /\ job # NoJob /\ busy /\ busy' = busy
        /\ ended' = IF ok THEN "ok" ELSE "failed"
        /\ UNCHANGED <<live, have, shown, gen, saved, seq, kept, writes, swap, ready, target,
                       box>>
        /\ job.op = "save" /\ UNCHANGED job
    BY DEF EarlyInv, EarlyTypeOK, OneJob, Work, SaveJob, figure
  <1>2. /\ live \in Figures /\ live # None /\ job.fig = live /\ job.seq = seq
        /\ job.data \in Nat /\ seq \in Seq32 /\ kept \in Nat
        /\ saved < job.snap /\ job.snap <= gen /\ (job.snap = gen => job.data = have)
    BY <1>1 DEF EarlyInv, EarlyTypeOK, Saving, Jobs
  <1>3. /\ k \in Files /\ seq % 2 \in Files /\ k # seq % 2 /\ Succ(seq) \in Seq32
        /\ Succ(seq) % 2 = k
    BY <1>2, TargetFacts
  <1>4. PICK r \in {new} \cup (IF ok THEN {} ELSE {NoRec, card[live][k]}) :
            card' = [card EXCEPT ![live][k] = r]
    BY <1>2 DEF SaveJob
  <1>5. r \in Records /\ (r.ok => r.seq % 2 = k /\ r.data \in Contents(live) \cup {job.data})
    <2>1. CASE r = new
      BY <1>2, <1>3, <2>1 DEF Rec, Records
    <2>2. CASE r = NoRec
      BY <1>2, <2>2, TargetFacts DEF NoRec, Records
    <2>3. CASE r = card[live][k]
      BY <1>2, <1>3, <2>3 DEF EarlyInv, EarlyTypeOK, InPlace, Contents
    <2> QED BY <1>4, <2>1, <2>2, <2>3
  <1>6. /\ card \in [Figures -> [Files -> Records]] /\ card' \in [Figures -> [Files -> Records]]
        /\ card'[live][k] = r
        /\ \A j \in Files \ {k} : card'[live][j] = card[live][j]
        /\ \A fg \in Figures \ {live} : card'[fg] = card[fg]
    <2> HIDE DEF k
    <2> QED BY <1>2, <1>3, <1>4, <1>5 DEF EarlyInv, EarlyTypeOK
  <1> HIDE DEF k, new
  <1>7. EarlyTypeOK' /\ OneJob'
    BY <1>1, <1>6 DEF EarlyInv, EarlyTypeOK, OneJob
  <1>8. InPlace'
    <2> SUFFICES ASSUME NEW fg \in Figures, NEW j \in Files, card'[fg][j].ok
                 PROVE  card'[fg][j].seq % 2 = j
      BY DEF InPlace
    <2> QED BY <1>3, <1>5, <1>6 DEF EarlyInv, InPlace
  <1>9. Stays'
    BY <1>1, <1>2, <1>3, <1>6 DEF EarlyInv, Stays, IsOnCard
  <1>10. Ordered' /\ Loading'
    BY <1>1 DEF EarlyInv, Ordered, Loading
  <1>11. ended' = "ok" => card'[live][k] = new
    BY <1>1, <1>4, <1>6
  <1>12. Saving'
    BY <1>1, <1>2, <1>11 DEF Saving, k, new
  <1>13. [One!Changed]_One!oneVars
    <2> DEFINE c == Contents(live)'
    <2>1. c \subseteq Contents(live) \cup {job.data}
      <3>1. ASSUME NEW j \in Files, card'[live][j].ok
            PROVE  card'[live][j].data \in Contents(live) \cup {job.data}
        BY <1>3, <1>5, <1>6, <3>1 DEF Contents
      <3> QED BY <1>1, <3>1 DEF Contents
    <2>2. {0, kept} \subseteq c
      <3>1. kept = 0 \/ card'[live][seq % 2] = Rec(seq, kept)
        BY <1>2, <1>3, <1>6 DEF EarlyInv, Stays, IsOnCard
      <3> QED BY <1>1, <1>3, <3>1 DEF Contents, Rec
    <2>3. OnCard' = [OnCard EXCEPT ![live] = c]
      <3>1. \A fg \in Figures : fg # live => Contents(fg)' = Contents(fg)
        BY <1>6 DEF Contents
      <3> QED BY <1>1, <1>2, <3>1 DEF OnCard
    <2>4. Writing = job.data /\ Writing' = Writing /\ Writing # None
      BY <1>1, <1>2, EarlyAssumption DEF Writing
    <2>5. OnCard[live] = Contents(live)
      BY <1>2 DEF OnCard
    <2> HIDE DEF c
    <2> QED BY <1>1, <2>1, <2>2, <2>3, <2>4, <2>5 DEF One!Changed
  <1> QED BY <1>1, <1>7, <1>8, <1>9, <1>10, <1>12, <1>13 DEF EarlyInv, WorkFacts

\* The storage worker: what it does to the job and the card.
LEMMA WorkStep ==
  ASSUME EarlyInv, NEW ok \in BOOLEAN, Work(ok)
  PROVE  EarlyInv' /\ [One!Changed]_One!oneVars /\ WorkFacts
  <1>1. CASE ok /\ LoadJob
    BY <1>1, LoadStep
  <1>2. CASE SaveJob(ok)
    BY <1>2, SaveStep
  <1>3. CASE job.op \in (IF ok THEN {"catalog", "trace"} ELSE {"catalog", "trace", "load"})
             /\ UNCHANGED <<job, card>>
    <2>1. WorkFacts /\ job.op # "save" /\ (job.op = "load" => ended' # "ok")
      BY <1>3 DEF EarlyInv, EarlyTypeOK, OneJob, Work, WorkFacts, figure
    <2>2. EarlyInv'
      BY <1>3, <2>1 DEF WorkFacts, EarlyInv, EarlyTypeOK, OneJob, InPlace, Stays, IsOnCard,
                        Ordered, Saving, Loading
    <2> QED BY <1>3, <2>1, <2>2, Unseen DEF WorkFacts
  <1> QED BY <1>1, <1>2, <1>3 DEF Work
-----------------------------------------------------------------------------
\* A submitted job, of either storage.
LEMMA SubmitStep ==
  ASSUME EarlyInv, job = NoJob,
         UNCHANGED <<live, have, shown, gen, saved, seq, kept, writes, card, ended>>,
         UNCHANGED <<swap, ready, target, box>>,
         NEW op \in {"catalog", "load", "save", "trace"}, NEW fg \in Figures, NEW data \in Nat,
         NEW sent \in BOOLEAN, Submit(Job(op, fg, data), sent),
         op = "save" => live # None /\ fg = live /\ data = have /\ gen # saved,
         op = "load" => ~shown /\ (live # None => gen = saved)
  PROVE  EarlyInv' /\ [One!Begun]_One!oneVars /\ (job' # NoJob => job'.op = op)
  <1>1. ended = "no" /\ ~busy /\ Writing = None /\ OnCard' = OnCard
    BY DEF EarlyInv, EarlyTypeOK, OneJob, Writing, OnCard, Contents
  <1>2. CASE ~sent
    <2>1. UNCHANGED job /\ busy' = sent
      BY <1>2 DEF Submit
    <2>2. ~busy' /\ busy' \in BOOLEAN
      BY <1>2, <2>1
    <2>3. EarlyInv'
      BY <1>1, <2>1, <2>2 DEF EarlyInv, EarlyTypeOK, OneJob, InPlace, Stays, IsOnCard, Ordered,
                              Saving, Loading
    <2> QED BY <2>1, <2>3, Unseen
  <1>3. CASE sent
    <2>1. /\ busy' /\ job' \in Jobs /\ job' # NoJob
          /\ job'.op = op /\ job'.fig = fg /\ job'.data = data /\ job'.snap = gen
          /\ job'.seq = seq
      BY <1>3, EarlyAssumption DEF Submit, Job, Jobs, EarlyInv, EarlyTypeOK
    <2>2. EarlyTypeOK' /\ OneJob' /\ InPlace'
      BY <1>3, <2>1 DEF EarlyInv, EarlyTypeOK, OneJob, InPlace, Submit
    <2>3. Stays' /\ Ordered' /\ Loading'
      BY <1>1, <2>1 DEF EarlyInv, Stays, IsOnCard, Ordered, Loading
    <2>4. Saving'
      BY <1>1, <2>1 DEF EarlyInv, EarlyTypeOK, Ordered, Saving
    <2>5. [One!Begun]_One!oneVars
      <3>1. Writing' = IF op = "save" THEN have ELSE None
        BY <2>1 DEF Writing
      <3> QED BY <1>1, <3>1 DEF One!Begun, One!oneVars
    <2> QED BY <2>1, <2>2, <2>3, <2>4, <2>5 DEF EarlyInv
  <1> QED BY <1>2, <1>3

\* A load that ended well, of either storage.
LEMMA TakeStep ==
  ASSUME EarlyInv, job # NoJob, job.op = "load", ended = "ok", TakeFigure,
         job' = NoJob, ~busy', ended' = "no", UNCHANGED <<card, writes, ready, target, box>>,
         busy' \in BOOLEAN, swap' \in BOOLEAN
  PROVE  EarlyInv' /\ (\E fg \in Figures : One!Swapped(fg)) /\ shown' /\ live' \in Figures
  <1>1. /\ job.fig \in Figures /\ job.data \in Nat /\ job.seq \in Seq32
        /\ IsOnCard(job.fig, job.seq, job.data)
        /\ ~shown /\ (live # None => kept = have)
    BY DEF EarlyInv, EarlyTypeOK, Loading, Stays, Jobs
  <1>2. EarlyTypeOK' /\ OneJob' /\ InPlace'
    BY <1>1 DEF EarlyInv, EarlyTypeOK, OneJob, InPlace, TakeFigure
  <1>3. Stays' /\ Ordered' /\ Saving' /\ Loading'
    BY <1>1, EarlyAssumption DEF TakeFigure, Stays, IsOnCard, Ordered, Saving, Loading
  <1>4. One!Swapped(job.fig)
    <2>1. job.data \in OnCard[job.fig]
      BY <1>1, OnCardLoads DEF OnCard
    <2>2. Writing = None /\ Writing' = Writing /\ OnCard' = OnCard
      BY DEF Writing, OnCard, Contents
    <2> QED BY <1>1, <2>1, <2>2 DEF TakeFigure, One!Swapped
  <1> QED BY <1>1, <1>2, <1>3, <1>4 DEF EarlyInv, TakeFigure

\* A save that ended well, of either storage.
LEMMA SavedStep ==
  ASSUME EarlyInv, job # NoJob, job.op = "save", ended = "ok", SnapshotSaved,
         job' = NoJob, ~busy', ended' = "no", UNCHANGED <<card, writes, ready, target, box>>,
         busy' \in BOOLEAN, swap' \in BOOLEAN
  PROVE  EarlyInv' /\ One!Saved
  <1>1. /\ job.snap \in Nat /\ job.data \in Nat /\ job.snap <= gen
        /\ job.snap = gen => job.data = have
        /\ live \in Figures /\ live # None /\ seq \in Seq32
        /\ card[live][Target(seq)] = Rec(Succ(seq), job.data)
    BY DEF EarlyInv, EarlyTypeOK, Saving, Jobs
  <1>2. Succ(seq) \in Seq32 /\ Succ(seq) % 2 = Target(seq)
    BY <1>1, TargetFacts
  <1>3. IsOnCard(live, Succ(seq), job.data)
    BY <1>1, <1>2 DEF IsOnCard
  <1>4. /\ seq' = Succ(seq) /\ kept' = job.data /\ saved' = job.snap
        /\ UNCHANGED <<live, have, shown, gen, card>>
    BY DEF SnapshotSaved
  <1>5. EarlyTypeOK' /\ OneJob' /\ InPlace'
    BY <1>1, <1>2, <1>4 DEF EarlyInv, EarlyTypeOK, OneJob, InPlace
  <1>6. Stays' /\ Ordered' /\ Saving' /\ Loading'
    BY <1>1, <1>3, <1>4 DEF EarlyInv, EarlyTypeOK, Stays, IsOnCard, Ordered, Saving, Loading
  <1>7. One!Saved
    <2>1. job.data \in OnCard[live]
      BY <1>1, <1>2, <1>3, OnCardLoads DEF OnCard
    <2>2. Writing = job.data /\ Writing' = None /\ OnCard' = OnCard /\ Writing # None
      BY <1>1, EarlyAssumption DEF Writing, OnCard, Contents
    <2> QED BY <1>1, <1>4, <2>1, <2>2 DEF One!Saved
  <1> QED BY <1>5, <1>6, <1>7 DEF EarlyInv

\* A job that ended with nothing for the figure, except that it may come back.
LEMMA NothingStep ==
  ASSUME EarlyInv, job # NoJob,
         UNCHANGED <<live, have, gen, saved, seq, kept, writes, card, target, box>>,
         job' = NoJob, ~busy', ended' = "no", shown => shown', shown' => shown \/ live # None,
         busy' \in BOOLEAN, swap' \in BOOLEAN, ready' \in BOOLEAN, shown' \in BOOLEAN
  PROVE  EarlyInv' /\ [One!GivenUp \/ One!Restored]_One!oneVars
  <1>1. EarlyTypeOK' /\ OneJob' /\ InPlace'
    BY DEF EarlyInv, EarlyTypeOK, OneJob, InPlace
  <1>2. Stays' /\ Ordered' /\ Saving' /\ Loading'
    BY DEF EarlyInv, Stays, IsOnCard, Ordered, Saving, Loading
  <1>3. Writing' = None /\ OnCard' = OnCard /\ shown \in BOOLEAN
    BY DEF Writing, OnCard, Contents, EarlyInv, EarlyTypeOK
  <1>4. shown' = shown \/ (shown' = TRUE /\ ~shown /\ live # None)
    BY <1>3
  <1>5. CASE job.op = "save"
    <2>1. Writing # None
      BY <1>5, EarlyAssumption DEF Writing, EarlyInv, EarlyTypeOK, Jobs
    <2> QED BY <1>1, <1>2, <1>3, <1>4, <2>1 DEF EarlyInv, One!GivenUp
  <1>6. CASE job.op # "save"
    <2>1. Writing = None
      BY <1>6 DEF Writing
    <2> QED BY <1>1, <1>2, <1>3, <1>4, <2>1 DEF EarlyInv, One!Restored, One!oneVars
  <1> QED BY <1>5, <1>6
-----------------------------------------------------------------------------
LEMMA E11Tock ==
  ASSUME E11Inv, NEW turn \in BOOLEAN, E11Tick(turn)
  PROVE  E11Inv' /\ [One!OneNext]_One!oneVars
  <1>1. UNCHANGED <<live, have, gen, saved, seq, kept, writes, card, busy, job, ended, ready>>
    BY DEF E11Tick
  <1>2. CASE UNCHANGED <<box, target, swap, shown>>
    BY <1>1, <1>2 DEF E11Inv, EarlyInv, EarlyTypeOK, OneJob, InPlace, Stays, IsOnCard, Ordered,
                      Saving, Loading, One!oneVars, Writing, OnCard, Contents
  <1>3. CASE box' = None /\ UNCHANGED <<target, swap, shown>>
    BY <1>1, <1>3 DEF E11Inv, EarlyInv, EarlyTypeOK, OneJob, InPlace, Stays, IsOnCard, Ordered,
                      Saving, Loading, One!oneVars, Writing, OnCard, Contents
  <1>4. CASE box # None /\ box' = None /\ ~busy /\ target' = box /\ swap' /\ swap' \in BOOLEAN
             /\ shown' = FALSE
    <2>1. job = NoJob /\ target' \in Figures
      BY <1>4 DEF E11Inv, EarlyInv, EarlyTypeOK, OneJob
    <2>2. EarlyInv'
      BY <1>1, <1>4, <2>1 DEF E11Inv, EarlyInv, EarlyTypeOK, OneJob, InPlace, Stays, IsOnCard,
                              Ordered, Saving, Loading
    <2>3. E11Inv'
      BY <1>1, <1>4, <2>1, <2>2 DEF E11Inv
    <2>4. One!Hidden \/ UNCHANGED One!oneVars
      BY <1>1, <1>4 DEF E11Inv, EarlyInv, EarlyTypeOK, One!Hidden, One!oneVars, Writing, OnCard,
                        Contents
    <2> QED BY <2>3, <2>4 DEF One!OneNext
  <1> QED BY <1>2, <1>3, <1>4 DEF E11Tick

LEMMA E11Polled ==
  ASSUME E11Inv, NEW sent \in BOOLEAN, E11Poll(sent)
  PROVE  E11Inv' /\ [One!OneNext]_One!oneVars
  <1>1. /\ UNCHANGED <<live, have, shown, gen, saved, seq, kept, writes, card, ended>>
        /\ UNCHANGED <<swap, ready, target, box>>
    BY DEF E11Poll, figure
  <1>2. CASE E11Due = NoJob
    <2>1. UNCHANGED <<job, busy>>
      BY <1>2 DEF E11Poll
    <2> QED BY <1>1, <2>1, Unseen
         DEF E11Inv, EarlyInv, EarlyTypeOK, OneJob, InPlace, Stays, IsOnCard, Ordered, Saving,
             Loading
  <1>3. CASE E11Due # NoJob
    <2>1. ~busy /\ job = NoJob /\ Submit(E11Due, sent)
      BY <1>3 DEF E11Due, E11Poll, E11Inv, EarlyInv, EarlyTypeOK, OneJob
    <2>2. /\ target \in Figures /\ have \in Nat /\ live \in Figures \cup {None}
          /\ swap => ~shown
          /\ ~ready => live = None
      BY DEF E11Inv, EarlyInv, EarlyTypeOK
    <2>3. PICK op \in {"catalog", "load", "save", "trace"}, fg \in Figures, data \in Nat :
             /\ E11Due = Job(op, fg, data)
             /\ op = "save" => live # None /\ fg = live /\ data = have /\ gen # saved
             /\ op = "load" => ~shown /\ (live # None => gen = saved)
             /\ op # "trace" /\ (op = "catalog" <=> ~ready) /\ (op = "load" => swap)
      <3>1. CASE ~ready
        BY <1>3, <2>2, <3>1 DEF E11Due
      <3>2. CASE ready /\ live # None /\ gen # saved /\ (swap \/ since >= SaveTicks)
        BY <1>3, <2>1, <2>2, <3>2 DEF E11Due
      <3>3. CASE ready /\ ~(live # None /\ gen # saved /\ (swap \/ since >= SaveTicks))
        <4>1. swap /\ (live # None => gen = saved) /\ E11Due = Job("load", target, 0)
          BY <1>3, <3>3 DEF E11Due
        <4> QED BY <2>2, <3>3, <4>1
      <3> QED BY <3>1, <3>2, <3>3
    <2>4. Submit(Job(op, fg, data), sent)
      BY <2>1, <2>3
    <2>5. EarlyInv /\ EarlyInv' /\ [One!Begun]_One!oneVars /\ (job' # NoJob => job'.op = op)
      BY <1>1, <2>1, <2>3, <2>4, SubmitStep DEF E11Inv
    <2> QED BY <1>1, <2>3, <2>5 DEF E11Inv, One!OneNext
  <1> QED BY <1>2, <1>3

LEMMA E11Completed ==
  ASSUME E11Inv, E11Complete
  PROVE  E11Inv' /\ [One!OneNext]_One!oneVars
  <1>1. /\ EarlyInv /\ job # NoJob /\ job.op \in {"catalog", "load", "save"}
        /\ ended \in {"ok", "failed"} /\ job' = NoJob /\ ~busy' /\ busy' \in BOOLEAN
        /\ ended' = "no" /\ UNCHANGED <<card, writes, box>>
    BY DEF E11Inv, EarlyInv, EarlyTypeOK, OneJob, Jobs, E11Complete
  <1>2. CASE ended = "failed"
    <2>1. /\ UNCHANGED <<live, have, gen, saved, seq, kept, ready, target>> /\ swap' = FALSE
          /\ shown' = (shown \/ (swap /\ live # None))
      <3>1. E11Failed
        BY <1>2 DEF E11Complete
      <3>2. UNCHANGED <<live, have, gen, saved, seq, kept, ready, target>> /\ swap' = FALSE
        BY <3>1 DEF E11Failed
      <3>3. shown' = (shown \/ (swap /\ live # None))
        BY <3>1, Zenon DEF E11Failed
      <3> QED BY <3>2, <3>3
    <2>2. /\ shown' \in BOOLEAN /\ (shown => shown') /\ (shown' => shown \/ live # None)
          /\ swap' \in BOOLEAN /\ ready' \in BOOLEAN /\ ~swap'
      BY <2>1 DEF E11Inv, EarlyInv, EarlyTypeOK
    <2>3. EarlyInv' /\ [One!GivenUp \/ One!Restored]_One!oneVars
      BY <1>1, <2>1, <2>2, NothingStep
    <2> QED BY <1>1, <2>1, <2>2, <2>3 DEF E11Inv, One!OneNext
  <1>3. CASE ended = "ok" /\ job.op = "catalog"
    <2>1. /\ UNCHANGED <<live, have, shown, gen, saved, seq, kept, target>>
          /\ swap' = TRUE /\ ready' = TRUE
      BY <1>3 DEF E11Complete, E11Catalogue, figure
    <2>2. /\ shown' \in BOOLEAN /\ (shown => shown') /\ (shown' => shown \/ live # None)
          /\ swap' \in BOOLEAN /\ ready' \in BOOLEAN /\ ready'
      BY <2>1 DEF E11Inv, EarlyInv, EarlyTypeOK
    <2>3. EarlyInv' /\ [One!GivenUp \/ One!Restored]_One!oneVars
      BY <1>1, <2>1, <2>2, NothingStep
    <2>4. ~shown
      BY <1>1, <1>3 DEF E11Inv, EarlyInv, Ordered
    <2> QED BY <1>1, <2>1, <2>2, <2>3, <2>4 DEF E11Inv, One!OneNext
  <1>4. CASE ended = "ok" /\ job.op = "load"
    <2>1. /\ TakeFigure /\ swap' = FALSE /\ UNCHANGED <<ready, target>>
      BY <1>1, <1>4 DEF E11Complete, E11Loaded
    <2>2. /\ EarlyInv' /\ (\E fg \in Figures : One!Swapped(fg))
          /\ swap' \in BOOLEAN /\ ~swap'
      BY <1>1, <1>4, <2>1, TakeStep
    <2>3. ready'
      BY <1>1, <1>4, <2>1 DEF E11Inv
    <2> QED BY <1>1, <2>2, <2>3 DEF E11Inv, One!OneNext
  <1>5. CASE ended = "ok" /\ job.op = "save"
    <2>1. /\ SnapshotSaved /\ UNCHANGED <<ready, swap, target>>
          /\ UNCHANGED <<live, shown>>
      BY <1>1, <1>5 DEF E11Complete, E11Saved, SnapshotSaved
    <2>2. swap' \in BOOLEAN
      BY <2>1 DEF E11Inv, EarlyInv, EarlyTypeOK
    <2>3. EarlyInv' /\ One!Saved
      BY <1>1, <1>5, <2>1, <2>2, SavedStep
    <2> QED BY <1>1, <2>1, <2>3 DEF E11Inv, One!OneNext
  <1> QED BY <1>1, <1>2, <1>3, <1>4, <1>5

LEMMA E11Step ==
  ASSUME E11Inv, [E11Next \/ GameWrites]_earlyVars
  PROVE  E11Inv' /\ [One!OneNext]_One!oneVars
  <1>1. CASE UNCHANGED earlyVars
    BY <1>1 DEF earlyVars, E11Inv, EarlyInv, EarlyTypeOK, OneJob, InPlace, Stays,
                IsOnCard, Ordered, Saving, Loading, One!oneVars, Writing, OnCard, Contents
  <1>2. CASE GameWrites
    <2>1. EarlyInv' /\ One!Played
      BY <1>2, WriteStep DEF E11Inv
    <2> QED BY <1>2, <2>1 DEF E11Inv, GameWrites, One!OneNext
  <1>3. ASSUME NEW fg \in Figures, Ask(fg)
        PROVE  E11Inv' /\ [One!OneNext]_One!oneVars
    BY <1>3 DEF Ask, figure, E11Inv, EarlyInv, EarlyTypeOK, OneJob, InPlace, Stays,
                IsOnCard, Ordered, Saving, Loading, One!oneVars, Writing, OnCard, Contents
  <1>4. ASSUME NEW turn \in BOOLEAN, E11Tick(turn)
        PROVE  E11Inv' /\ [One!OneNext]_One!oneVars
    BY <1>4, E11Tock
  <1>5. ASSUME NEW sent \in BOOLEAN, E11Poll(sent)
        PROVE  E11Inv' /\ [One!OneNext]_One!oneVars
    BY <1>5, E11Polled
  <1>6. ASSUME NEW ok \in BOOLEAN, E11Job(ok)
        PROVE  E11Inv' /\ [One!OneNext]_One!oneVars
    <2>1. EarlyInv' /\ [One!Changed]_One!oneVars /\ WorkFacts
      BY <1>6, WorkStep DEF E11Inv, E11Job
    <2> QED BY <2>1 DEF E11Inv, One!OneNext, WorkFacts
  <1>7. CASE E11Complete
    BY <1>7, E11Completed
  <1> QED BY <1>1, <1>2, <1>3, <1>4, <1>5, <1>6, <1>7 DEF E11Next

\* E11 keeps the promise of OneFigure: a figure gives way to another only when
\* all that the game wrote to it was reported as saved, and no save, whether it
\* fails or not, takes the content last loaded or reported from the card
\* (e11_load, e11_save, e09_poll, e09_complete of e11_storage.h).
THEOREM E11Promise == E11Spec => OneFigureHeld
  <1>1. E11Init => E11Inv /\ One!OneInit
    BY StartsWell DEF E11Init, E11Inv
  <1>2. E11Inv /\ [E11Next \/ GameWrites]_earlyVars => E11Inv' /\ [One!OneNext]_One!oneVars
    BY E11Step
  <1> QED BY <1>1, <1>2, PTL DEF E11Spec, OneFigureHeld, One!OneSpec
-----------------------------------------------------------------------------
LEMMA E09Polled ==
  ASSUME E09Inv, NEW sent \in BOOLEAN, E09Poll(sent)
  PROVE  E09Inv' /\ [One!OneNext]_One!oneVars
  <1>1. /\ UNCHANGED <<live, have, shown, gen, saved, seq, kept, writes, card, ended>>
        /\ UNCHANGED <<swap, ready, target, box>>
    BY DEF E09Poll, figure
  <1>2. CASE E09Due = NoJob
    <2>1. UNCHANGED <<job, busy>>
      BY <1>2 DEF E09Poll
    <2> QED BY <1>1, <2>1, Unseen
         DEF E09Inv, EarlyInv, EarlyTypeOK, OneJob, InPlace, Stays, IsOnCard, Ordered, Saving,
             Loading
  <1>3. CASE E09Due # NoJob
    <2>1. ~busy /\ job = NoJob /\ Submit(E09Due, sent)
      BY <1>3 DEF E09Due, E09Poll, E09Inv, EarlyInv, EarlyTypeOK, OneJob
    <2>2. /\ target \in Figures /\ have \in Nat /\ live \in Figures \cup {None}
          /\ shown => live # None
          /\ ~shown => live = None
      BY DEF E09Inv, EarlyInv, EarlyTypeOK, Ordered
    <2>3. PICK op \in {"catalog", "load", "save", "trace"}, fg \in Figures, data \in Nat :
             /\ E09Due = Job(op, fg, data)
             /\ op = "save" => live # None /\ fg = live /\ data = have /\ gen # saved
             /\ op = "load" => ~shown /\ (live # None => gen = saved)
             /\ op # "catalog"
      <3>1. CASE E09SaveDue
        BY <1>3, <2>1, <2>2, <3>1 DEF E09Due, E09SaveDue
      <3>2. CASE ~E09SaveDue
        BY <1>3, <2>1, <2>2, <3>2 DEF E09Due
      <3> QED BY <3>1, <3>2
    <2>4. Submit(Job(op, fg, data), sent)
      BY <1>3, <2>1, <2>3 DEF E09Poll
    <2>5. EarlyInv /\ EarlyInv' /\ [One!Begun]_One!oneVars /\ (job' # NoJob => job'.op = op)
      BY <1>1, <2>1, <2>3, <2>4, SubmitStep DEF E09Inv
    <2> QED BY <1>1, <2>3, <2>5 DEF E09Inv, One!OneNext
  <1> QED BY <1>2, <1>3

LEMMA E09Completed ==
  ASSUME E09Inv, E09Complete
  PROVE  E09Inv' /\ [One!OneNext]_One!oneVars
  <1>1. /\ EarlyInv /\ job # NoJob /\ job.op \in {"trace", "load", "save"}
        /\ ended \in {"ok", "failed"} /\ job' = NoJob /\ ~busy' /\ busy' \in BOOLEAN
        /\ ended' = "no" /\ UNCHANGED <<card, writes, ready, target, box>>
        /\ ready' \in BOOLEAN /\ swap' \in BOOLEAN /\ shown \in BOOLEAN
    BY DEF E09Inv, EarlyInv, EarlyTypeOK, OneJob, Jobs, E09Complete
  <1>2. CASE ended = "failed" \/ job.op = "trace"
    <2>1. UNCHANGED <<live, have, shown, gen, saved, seq, kept>>
      <3>1. CASE job.op = "trace"
        BY <3>1 DEF E09Complete, figure
      <3>2. CASE job.op # "trace" /\ ended = "failed"
        <4>1. E09Ended
          BY <3>2, Zenon DEF E09Complete
        <4> QED BY <3>2, <4>1 DEF E09Ended, figure
      <3> QED BY <1>2, <3>1, <3>2
    <2>2. EarlyInv' /\ [One!GivenUp \/ One!Restored]_One!oneVars
      BY <1>1, <2>1, NothingStep
    <2> QED BY <1>1, <2>1, <2>2 DEF E09Inv, One!OneNext
  <1>3. CASE ended = "ok" /\ job.op = "load"
    <2>1. TakeFigure
      <3>1. E09Ended
        BY <1>3, Zenon DEF E09Complete
      <3> QED BY <1>3, <3>1 DEF E09Ended
    <2>2. EarlyInv' /\ (\E fg \in Figures : One!Swapped(fg)) /\ shown'
      BY <1>1, <1>3, <2>1, TakeStep
    <2> QED BY <1>1, <2>2 DEF E09Inv, One!OneNext
  <1>4. CASE ended = "ok" /\ job.op = "save"
    <2>1. SnapshotSaved /\ UNCHANGED <<live, shown>>
      <3>1. E09Ended
        BY <1>4, Zenon DEF E09Complete
      <3> QED BY <1>4, <3>1 DEF E09Ended, SnapshotSaved
    <2>2. EarlyInv' /\ One!Saved
      BY <1>1, <1>4, <2>1, SavedStep
    <2> QED BY <1>1, <2>1, <2>2 DEF E09Inv, One!OneNext
  <1> QED BY <1>1, <1>2, <1>3, <1>4

LEMMA E09Step ==
  ASSUME E09Inv, [E09Next \/ GameWrites]_earlyVars
  PROVE  E09Inv' /\ [One!OneNext]_One!oneVars
  <1>1. CASE UNCHANGED earlyVars
    BY <1>1 DEF earlyVars, E09Inv, EarlyInv, EarlyTypeOK, OneJob, InPlace, Stays,
                IsOnCard, Ordered, Saving, Loading, One!oneVars, Writing, OnCard, Contents
  <1>2. CASE GameWrites
    <2>1. EarlyInv' /\ One!Played
      BY <1>2, WriteStep DEF E09Inv
    <2> QED BY <1>2, <2>1 DEF E09Inv, GameWrites, One!OneNext
  <1>3. CASE E09Tick
    BY <1>3 DEF E09Tick, figure, E09Inv, EarlyInv, EarlyTypeOK, OneJob, InPlace, Stays,
                IsOnCard, Ordered, Saving, Loading, One!oneVars, Writing, OnCard, Contents
  <1>4. ASSUME NEW sent \in BOOLEAN, E09Poll(sent)
        PROVE  E09Inv' /\ [One!OneNext]_One!oneVars
    BY <1>4, E09Polled
  <1>5. ASSUME NEW ok \in BOOLEAN, E09Job(ok)
        PROVE  E09Inv' /\ [One!OneNext]_One!oneVars
    <2>1. EarlyInv' /\ [One!Changed]_One!oneVars /\ WorkFacts
      BY <1>5, WorkStep DEF E09Inv, E09Job
    <2> QED BY <2>1 DEF E09Inv, One!OneNext, WorkFacts
  <1>6. CASE E09Complete
    BY <1>6, E09Completed
  <1> QED BY <1>1, <1>2, <1>3, <1>4, <1>5, <1>6 DEF E09Next

\* E09 keeps it as well, whichever loads, saves and traces fail: what the game
\* wrote is never overwritten by a load (e09_storage.h).
THEOREM E09Promise == E09Spec => OneFigureHeld
  <1>1. E09Init => E09Inv /\ One!OneInit
    BY StartsWell DEF E09Init, E09Inv
  <1>2. E09Inv /\ [E09Next \/ GameWrites]_earlyVars => E09Inv' /\ [One!OneNext]_One!oneVars
    BY E09Step
  <1> QED BY <1>1, <1>2, PTL DEF E09Spec, OneFigureHeld, One!OneSpec

\* Whatever a load passed over and whichever saves failed, were tried again or
\* emptied a journal: while a figure is live, the content it was loaded with, or
\* that was last reported as saved, is one that its journals or the dump have,
\* and while nothing is dirty it is the content in memory.
AcknowledgedStays == live # None => /\ kept \in Contents(live)
                                    /\ gen = saved => have = kept

THEOREM AcknowledgedContentStays == E11Spec \/ E09Spec => []AcknowledgedStays
  <1>1. EarlyInv => AcknowledgedStays
    BY OnCardLoads DEF EarlyInv, EarlyTypeOK, Stays, AcknowledgedStays
  <1>2. E11Spec => []EarlyInv
    <2>1. E11Init => E11Inv
      BY StartsWell DEF E11Init, E11Inv
    <2>2. E11Inv => EarlyInv
      BY DEF E11Inv
    <2> QED BY <2>1, <2>2, E11Step, PTL DEF E11Spec
  <1>3. E09Spec => []EarlyInv
    <2>1. E09Init => E09Inv
      BY StartsWell DEF E09Init, E09Inv
    <2>2. E09Inv => EarlyInv
      BY DEF E09Inv
    <2> QED BY <2>1, <2>2, E09Step, PTL DEF E09Spec
  <1> QED BY <1>1, <1>2, <1>3, PTL

-----------------------------------------------------------------------------
(***************************************************************************)
(* The start of the worker threads (HidStart).                             *)
(***************************************************************************)
Calls == {"rest", "id", "priority", "queue", "thread", "timer", "continue", "over"}

StartTypeOK ==
    /\ at \in [Starters -> Calls] /\ has \in [Starters -> BOOLEAN]
    /\ made \in [Starters -> SUBSET {"queue", "thread", "timer"}]
    /\ failures \in Nat

\* What a start has made when it makes its next call.
MadeSoFar(p) ==
    /\ at[p] \in {"rest", "id", "priority", "queue"} => ~has[p] /\ made[p] = {}
    /\ at[p] = "thread" => has[p] /\ made[p] = {"queue"}
    /\ at[p] = "timer" => p = "v4" /\ has[p] /\ made[p] = {"queue", "thread"}
    /\ at[p] = "continue" => has[p] /\ made[p] = Parts(p)

\* e09_start runs only in a HID worker that runs, and so once.
OnceStarted == at["e09"] # "rest" => at["v4"] = "over" /\ has["v4"]

StartInv ==
    /\ StartTypeOK /\ OnceStarted /\ StartedWhole
    /\ \A p \in Starters : MadeSoFar(p)

LEMMA StartInitial == StartInit => StartInv
  BY DEF StartInit, StartInv, StartTypeOK, OnceStarted, StartedWhole, MadeSoFar, Starters,
         Calls, Parts

LEMMA IoctlStep ==
  ASSUME StartInv, Ioctl PROVE StartInv'
  <1>1. StartTypeOK'
    BY DEF StartInv, StartTypeOK, Ioctl, Starters, Calls
  <1>2. OnceStarted'
    BY DEF StartInv, StartTypeOK, OnceStarted, Ioctl, Starters
  <1>3. StartedWhole' /\ \A p \in Starters : MadeSoFar(p)'
    BY DEF StartInv, StartTypeOK, StartedWhole, MadeSoFar, Ioctl, Starters, Parts
  <1> QED BY <1>1, <1>2, <1>3 DEF StartInv

LEMMA WorksStep ==
  ASSUME StartInv, NEW p \in Starters, CallWorks(p) PROVE StartInv'
  <1>1. p \in {"v4", "e09"} /\ at[p] \in Calls \ {"rest", "over"}
    BY DEF StartInv, StartTypeOK, CallWorks, Starters
  <1>2. StartTypeOK'
    BY <1>1 DEF StartInv, StartTypeOK, CallWorks, Starters, Calls, After, Parts
  <1>3. OnceStarted'
    BY <1>1 DEF StartInv, StartTypeOK, OnceStarted, MadeSoFar, CallWorks, Starters, Calls,
                After
  \* The HID worker that is continued begins an e09_start that had not begun.
  <1>4. p = "v4" => at["e09"] = "rest" /\ ~has["e09"] /\ made["e09"] = {}
    <2> SUFFICES ASSUME p = "v4" PROVE at["e09"] = "rest"
      BY DEF StartInv, MadeSoFar, Starters
    <2> QED BY <1>1 DEF StartInv, OnceStarted
  <1>5. StartedWhole' /\ \A q \in Starters : MadeSoFar(q)'
    <2> SUFFICES ASSUME NEW q \in Starters
                 PROVE  /\ MadeSoFar(q)'
                        /\ at'[q] \in {"rest", "over"} =>
                              made'[q] = IF has'[q] THEN Parts(q) ELSE {}
      BY DEF StartedWhole
    <2>1. CASE q = p
      BY <1>1, <2>1 DEF StartInv, StartTypeOK, MadeSoFar, CallWorks, Starters, Calls, After,
                        Parts
    <2>2. CASE q # p
      BY <1>1, <1>4, <2>2 DEF StartInv, StartTypeOK, StartedWhole, MadeSoFar, CallWorks,
                              Starters
    <2> QED BY <2>1, <2>2
  <1> QED BY <1>2, <1>3, <1>5 DEF StartInv

LEMMA FailsStep ==
  ASSUME StartInv, NEW p \in Starters, CallFails(p) PROVE StartInv'
  <1>1. p \in {"v4", "e09"} /\ at[p] \in Calls \ {"rest", "over"}
    BY DEF StartInv, StartTypeOK, CallFails, Starters
  <1>2. made[p] \ Released(p, at[p]) = {}
    BY <1>1 DEF StartInv, MadeSoFar, Released, Parts, Calls
  <1>3. StartTypeOK'
    BY <1>1, <1>2 DEF StartInv, StartTypeOK, CallFails, Starters, Calls
  <1>4. OnceStarted'
    BY <1>1 DEF StartInv, StartTypeOK, OnceStarted, CallFails, Starters
  <1>5. StartedWhole' /\ \A q \in Starters : MadeSoFar(q)'
    BY <1>1, <1>2 DEF StartInv, StartTypeOK, StartedWhole, MadeSoFar, CallFails, Starters
  <1> QED BY <1>3, <1>4, <1>5 DEF StartInv

\* Where a start stands says what it has made, whichever calls fail, in any
\* number of attempts of v4_start and in the one of e09_start.
THEOREM StartInvariant == StartSpec => []StartInv
  <1>1. StartInv /\ [StartNext]_startVars => StartInv'
    <2> SUFFICES ASSUME StartInv, UNCHANGED startVars PROVE StartInv'
      BY IoctlStep, WorksStep, FailsStep DEF StartNext
    <2> QED BY DEF startVars, StartInv, StartTypeOK, OnceStarted, StartedWhole, MadeSoFar
  <1> QED BY <1>1, StartInitial, PTL DEF StartSpec

\* A start that is over has left all its parts behind its queue or none
\* (v4_start, e09_start).
THEOREM StartsAreWhole == StartSpec => []StartedWhole
  <1>1. StartInv => StartedWhole
    BY DEF StartInv
  <1> QED BY <1>1, StartInvariant, PTL
=============================================================================
