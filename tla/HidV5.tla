-------------------------------- MODULE HidV5 --------------------------------
(***************************************************************************)
(* The HIDv5 portal of plugin/source/main.c: a portal without figures that *)
(* takes the place of the handlers of IOS by branches written over their   *)
(* first instruction.                                                      *)
(*                                                                         *)
(* At its start the plugin patches the two dispatch calls of HIDv4, the    *)
(* call that leads to GETDEVICECHANGE and the handler of GETVERSION.  The  *)
(* other seven sites are patched when the game first asks for the devices  *)
(* (hid_discovery_bootstrap) or the version, and again by the next such    *)
(* request while one of them is not in place.  Every patch checks the      *)
(* instruction it replaces before and after the write.                     *)
(*                                                                         *)
(* An instruction is "stock", "ours", or "other" for one the plugin does   *)
(* not know.  A write may be lost.  The HID thread handles one message at  *)
(* a time, so a message is a step; requests that fail the tests of their   *)
(* handler are the inputs "bad" or FALSE.  The loader (IOS_InitSystem) is  *)
(* external: after a patcher that fails it stops or goes on.               *)
(***************************************************************************)
EXTENDS Integers, FiniteSets

CONSTANTS
    CounterMod,  \* range of the packet counter (256)
    MaxFaults    \* bound on unknown instructions and lost writes

ASSUME HidV5Assumption == CounterMod \in Nat \ {0} /\ MaxFaults \in Nat

VARIABLES
    mem,       \* the instruction at every site
    result,    \* the seven ..._patch_result
    stage,     \* the patcher of the loader that runs next
    resumed,   \* portal_resumed
    activated, \* portal_activated
    owedR,     \* reset_response_pending
    owedA,     \* activation_response_pending
    counter,   \* status_counter
    delivered, \* getdevicechange_initial_delivered
    snap,      \* diagnostic_snapshot
    answer,    \* how the last message was answered
    told,      \* history: whether the replies said that the portal is active
    faults     \* how many of MaxFaults happened

patchVars == <<mem, result, faults>>
portalVars == <<resumed, activated, owedR, owedA, counter, delivered, told>>
vars == <<mem, result, stage, resumed, activated, owedR, owedA, counter, delivered,
          snap, answer, told, faults>>
-----------------------------------------------------------------------------
V4Sites == {"v4ioctl", "v4close"}
Handlers == {"change", "params", "attach", "suspend", "cancel", "control", "interrupt"}
Sites == V4Sites \cup {"discovery", "version"} \cup Handlers

\* The handlers in the order hid_discovery_bootstrap installs them; attach and
\* suspend have one installer, which looks at attach first.
Rank == [change |-> 1, params |-> 2, attach |-> 3, suspend |-> 3, cancel |-> 4,
         control |-> 5, interrupt |-> 6]
Group(s) == {t \in Handlers : Rank[t] = Rank[s]}
Before(s) == IF s = "suspend" THEN {"attach"} ELSE {}

Stock(s) == mem[s] = "stock"
\* Fault: an installer that failed gives up.
StockOnce(s) == \A t \in Group(s) : Stock(t) /\ result[t] = "none"
StockGroup(s) == \A t \in Group(s) : Stock(t)
Patched(s) == mem[s] = "ours"
Done(s) == \A t \in Group(s) : result[t] = "applied"

\* The snapshot that publish_diagnostic_snapshot makes of the state.
Snapshot == [result |-> result, resumed |-> resumed, activated |-> activated,
             owedA |-> owedA]
Publish == snap' = Snapshot'
-----------------------------------------------------------------------------
Init ==
    /\ mem \in [Sites -> {"stock", "other"}]
    /\ faults = Cardinality({s \in Sites : mem[s] = "other"}) /\ faults <= MaxFaults
    /\ result = [s \in Handlers |-> "none"]
    /\ stage = "v4"
    /\ resumed = FALSE /\ activated = FALSE /\ owedR = FALSE /\ owedA = FALSE
    /\ counter = 0 /\ delivered = FALSE
    /\ snap = Snapshot
    /\ answer = "none" /\ told = FALSE

\* Any few of the writes of a step are lost.
FewSites == {L \in SUBSET Sites : Cardinality(L) <= MaxFaults}
Losses(S) == LET stock == {s \in S : Stock(s)}
             IN  {L \in FewSites : L \subseteq stock /\ faults + Cardinality(L) <= MaxFaults}
Lose(lost) == faults' = faults + Cardinality(lost) /\ faults' <= MaxFaults

\* The words after the plugin wrote its branches to W and the writes to lost
\* did not arrive.
Written(W, lost) == [s \in Sites |-> IF s \in W \ lost THEN "ours" ELSE mem[s]]

\* The loader goes on with the next patcher, or stops when this one failed.
Goes(next, failed) == stage' = next \/ (failed /\ stage' = "halted")

\* patch_v4_dispatch checks both calls before it writes one, and writes the old
\* ones back unless both arrived; that may be lost too.
PatchV4(lost, stuck) ==
    /\ stage = "v4"
    /\ lost \subseteq V4Sites /\ stuck \subseteq V4Sites
    /\ IF \E s \in V4Sites : ~Stock(s)
       THEN mem' = mem /\ faults' = faults /\ lost = {} /\ stuck = {}
       ELSE IF lost = {}
       THEN mem' = Written(V4Sites, {}) /\ faults' = faults /\ stuck = {}
       ELSE /\ mem' = Written(stuck, lost) /\ stuck \cap lost = {}
            /\ Lose(lost \cup stuck)
    /\ Goes("discovery", \E s \in V4Sites : mem'[s] # "ours")
    /\ UNCHANGED <<result, portalVars, snap, answer>>

\* patch_hid_discovery_call and patch_getversion_handler; the second does not
\* notice that its write was lost.  The snapshots that main makes before and
\* after the patchers show nothing new.
PatchCall(site, next, lost) ==
    /\ stage = site /\ lost \subseteq {site}
    /\ IF Stock(site) THEN mem' = Written({site}, lost) /\ Lose(lost)
       ELSE UNCHANGED mem /\ faults' = faults /\ lost = {}
    /\ Goes(next, IF site = "version" THEN ~Stock(site) ELSE mem'[site] # "ours")
    /\ UNCHANGED <<result, portalVars, snap, answer>>

Start == \E lost, stuck \in Losses(Sites) :
            \/ PatchV4(lost, stuck)
            \/ stuck = {} /\ \/ PatchCall("discovery", "version", lost)
                             \/ PatchCall("version", "running", lost)
-----------------------------------------------------------------------------
\* Fault: the word is not read back after the write.
WorksUnread(s, lost) == Done(s) \/ StockGroup(s)

\* The installers.  A step's installers lose the writes in lost; an installer
\* succeeds when it is done already, or finds its group as it expects it.
Works(s, lost) == Done(s) \/ (StockGroup(s) /\ Group(s) \cap lost = {})

\* The sites whose installer calls its supervisor function: GETVERSION calls all
\* that are not done; the discovery stops at the first that fails.
Attempted(all, lost) ==
    {s \in Handlers : /\ ~Done(s)
                      /\ all \/ \A t \in Handlers : Rank[t] < Rank[s] => Works(t, lost)}

\* What an installer reports of a site: it stops at the first instruction it
\* does not expect, before it wrote or after, and leaves the later result alone.
Report(s, lost) ==
    IF StockGroup(s)
    THEN IF Before(s) \cap lost # {} THEN result[s]
         ELSE IF s \in lost THEN "post" ELSE "applied"
    ELSE IF Stock(s) \/ \E t \in Before(s) : ~Stock(t) THEN result[s] ELSE "pre"

Install(all, lost) ==
    LET tried == Attempted(all, lost)
        W == {s \in tried : StockGroup(s)}
    IN  /\ lost \subseteq W
        /\ mem' = Written(W, lost) /\ Lose(lost)
        /\ result' = [s \in Handlers |-> IF s \in tried THEN Report(s, lost) ELSE result[s]]
-----------------------------------------------------------------------------
\* getdevicechange_handler: the portal is announced once; a later request is
\* kept without an answer, as that of a device that does not change.
Change(valid) ==
    /\ delivered' = (delivered \/ valid)
    /\ answer' = IF ~valid THEN "refused" ELSE IF delivered THEN "parked" ELSE "entry"
    /\ UNCHANGED <<stage, resumed, activated, owedR, owedA, counter, told>>
    /\ Publish

\* GETDEVICECHANGE arrives: by the patched call, or else at the handler.
Discover(valid, lost) ==
    IF Patched("discovery")
    THEN /\ Install(FALSE, lost)
         /\ IF \A s \in Handlers : Works(s, lost) THEN Change(valid)
            ELSE answer' = "refused" /\ UNCHANGED <<stage, portalVars>> /\ Publish
    ELSE /\ Patched("change") /\ lost = {} /\ UNCHANGED patchVars
         /\ Change(valid)

\* getversion_handler: answers, and installs what it can.
GetVersion(valid, lost) ==
    /\ Patched("version")
    /\ UNCHANGED <<stage, portalVars>>
    /\ IF valid THEN answer' = "version" /\ Install(TRUE, lost) /\ Publish
       ELSE answer' = "refused" /\ lost = {} /\ UNCHANGED <<patchVars, snap>>

\* The handlers that only answer: ATTACHFINISH, GETDEVPARAMS, CANCEL_ENDPOINT.
Stateless(site, valid) ==
    /\ Patched(site) /\ answer' = IF valid THEN "ok" ELSE "refused"
    /\ UNCHANGED <<patchVars, stage, portalVars, snap>>

SuspendResume(v) ==
    /\ Patched("suspend")
    /\ UNCHANGED <<patchVars, stage, activated, owedR, owedA, counter, delivered, told>>
    /\ IF v # "bad" THEN answer' = "ok" /\ resumed' = (v = "resume") /\ Publish
       ELSE answer' = "refused" /\ UNCHANGED <<resumed, snap>>

\* control_transfer_handler: the command R, A with its byte, or C.
Control(c) ==
    /\ Patched("control")
    /\ UNCHANGED <<patchVars, stage, resumed, counter, delivered, told>>
    /\ IF c = "bad" \/ ~resumed
       THEN answer' = "refused" /\ UNCHANGED <<activated, owedR, owedA, snap>>
       ELSE /\ answer' = "ok"
            /\ activated' = (c = "A1" \/ (c = "C" /\ activated))
            /\ owedR' = (owedR \/ c = "R")
            /\ owedA' = (owedA \/ c \in {"A0", "A1"})
            /\ Publish

\* interrupt_transfer_handler.  A read takes the answer to R before that to A,
\* and a status packet when none is owed; only the answer to A is published.
Refuse == answer' = "refused"
          /\ UNCHANGED <<patchVars, stage, portalVars, snap>>
ActivationFirst == owedR /\ ~owedA  \* fault: the order of the two is swapped
ResetFirst == owedR
ReadReset ==
    /\ ResetFirst /\ answer' = "R" /\ owedR' = FALSE /\ told' = FALSE
    /\ UNCHANGED <<patchVars, stage, resumed, activated, owedA, counter, delivered, snap>>
ReadActivation ==
    /\ owedA /\ ~ResetFirst
    /\ answer' = (IF activated THEN "A1" ELSE "A0") /\ owedA' = FALSE /\ told' = activated
    /\ UNCHANGED <<patchVars, stage, resumed, activated, owedR, counter, delivered>>
    /\ Publish
ReadStatus ==
    /\ ~owedR /\ ~owedA
    /\ answer' = (IF activated THEN "S1" ELSE "S0") /\ counter' = (counter + 1) % CounterMod
    /\ UNCHANGED <<patchVars, stage, resumed, activated, owedR, owedA, delivered, snap, told>>

\* kind: a read, the write of a light ('L'), or neither.
Interrupt(kind) ==
    /\ Patched("interrupt")
    /\ \/ resumed /\ kind = "in" /\ (ReadReset \/ ReadActivation \/ ReadStatus)
       \/ /\ resumed /\ kind = "light" /\ answer' = "ok"
          /\ UNCHANGED <<patchVars, stage, portalVars, snap>>
       \/ (kind = "bad" \/ ~resumed) /\ Refuse

Message ==
    \/ \E lost \in Losses(Handlers), valid \in BOOLEAN :
          Discover(valid, lost) \/ GetVersion(valid, lost)
    \/ \E site \in {"attach", "params", "cancel"}, valid \in BOOLEAN : Stateless(site, valid)
    \/ \E v \in {"suspend", "resume", "bad"} : SuspendResume(v)
    \/ \E c \in {"R", "A0", "A1", "C", "bad"} : Control(c)
    \/ \E kind \in {"in", "light", "bad"} : Interrupt(kind)

Next == Start \/ Message

Spec == Init /\ [][Next]_vars

\* The game goes on asking for its devices; only MaxFaults writes are lost, so
\* the fairness is that of a request that loses none.
FairSpec == Spec /\ WF_vars(Discover(TRUE, {}))
-----------------------------------------------------------------------------
TypeOK ==
    /\ mem \in [Sites -> {"stock", "ours", "other"}]
    /\ result \in [Handlers -> {"none", "pre", "post", "applied"}]
    /\ stage \in {"v4", "discovery", "version", "running", "halted"}
    /\ {resumed, activated, owedR, owedA, delivered, told} \subseteq BOOLEAN
    /\ counter \in 0 .. CounterMod - 1
    /\ answer \in {"none", "ok", "refused", "parked", "entry", "version", "R", "A0", "A1",
                  "S0", "S1"}
    /\ faults \in 0 .. MaxFaults

\* A result that says a branch is applied is the truth: every installer trusts
\* it and does not look at the site again.
AppliedInPlace == \A s \in Handlers : result[s] = "applied" => Patched(s)

\* With the discovery call patched, the game hears of the portal only once all
\* seven handlers are the portal's: none of its later requests about a device
\* that IOS does not know reaches IOS.  The GETVERSION that ignores what its
\* installers return, lost writes and retried installs do not break that.
AnnouncedWhole ==
    Patched("discovery") /\ delivered => \A s \in Handlers : Patched(s)

\* The snapshot that the diagnostics read from memory is up to date after
\* every message, though not every handler publishes one.
SnapshotCurrent == snap = Snapshot

PatchesInv == TypeOK /\ AppliedInPlace /\ AnnouncedWhole /\ SnapshotCurrent

\* A status packet has the active bit the game was told last by the answers to
\* its R and A commands, however these are mixed, repeated before an answer is
\* read, or cut by a suspend.
StatusAgrees == (answer = "S1" => told) /\ (answer = "S0" => ~told)

\* The second of the lifecycle writes, or the first alone, was lost: the pair
\* is never both stock again, so its installer fails for good.
HalfLifecycle == Patched("attach") # Patched("suspend")

\* Lost writes are made up for: the game that keeps asking finds the portal,
\* unless an instruction was unknown from the start or the lifecycle is half.
Recovers ==
    Patched("discovery") ~>
        (delivered \/ HalfLifecycle \/ \E s \in Handlers : mem[s] = "other")
=============================================================================
