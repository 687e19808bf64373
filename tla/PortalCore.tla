----------------------------- MODULE PortalCore -----------------------------
(***************************************************************************)
(* portal-core/portal_core.c, the first portal: a module of its own that   *)
(* serves the requests of the game one by one and shows the dumps of two   *)
(* files of the card.  Nobody tells it that the user changed a file: every *)
(* PollEvery-th read of the game looks at one of the files.                *)
(*                                                                         *)
(* The game cannot see the files.  It learns of a figure by the two bits   *)
(* per slot of a status packet: 3 it arrived, 1 it is there, 2 it was      *)
(* removed, 0 there is none.  A slot's next bits wait in `pend`; each      *)
(* status packet takes one.  A read gets the answers to queries and writes *)
(* first, and a status packet when none is left.                           *)
(*                                                                         *)
(* One request is one step.  Budget bounds what may go on for ever: what   *)
(* the user does to the card, the game's requests other than reads, and    *)
(* the failures of ISFS_SetMode.                                           *)
(***************************************************************************)
EXTENDS Integers, Sequences

CONSTANTS
    SlotCount,  \* SLOT_COUNT
    Dumps,      \* contents of a whole file
    QueueSize,  \* QUEUE_SIZE
    PollEvery,  \* every how many reads look at a file (8)
    Budget      \* bound: edits, requests other than reads, failures

Slots == 0 .. SlotCount - 1
ASSUME CoreAssumption == /\ {SlotCount, QueueSize, PollEvery} \subseteq Nat \ {0}
                         /\ Budget \in Nat

Missing == "missing"  \* there is no file
Short == "short"      \* the file is shorter than a figure
Zero == "zero"        \* a figure of zeroes
Part == "part"        \* the bytes of a short file over those of a figure
Edited == "edited"    \* what the game made of a dump

VARIABLES
    file,      \* the file of each slot
    slots,     \* per slot: figures, what the game would read; state; pending
    ring,      \* deferred: the answers that wait for a read
    delay,     \* poll_delay
    pollSlot,  \* poll_slot
    loaded,    \* figures_loaded
    resumed,   \* resumed
    activated, \* activated
    view,      \* history: the bits of each slot in the last status packet
    met,       \* history: the figure at the packet that said it arrived, as
               \* the game changed it since
    left       \* how much of Budget is left

coreVars == <<file, slots, ring, delay, pollSlot, loaded, resumed, activated, view, met,
              left>>
-----------------------------------------------------------------------------
Empty == [fig |-> Zero, state |-> 0, pend |-> <<>>]

CoreInit ==
    /\ file \in [Slots -> Dumps \cup {Missing}]
    /\ slots = [s \in Slots |-> Empty]
    /\ ring = <<>> /\ delay = 0 /\ pollSlot = 0
    /\ loaded = FALSE /\ resumed = FALSE /\ activated = TRUE
    /\ view = [s \in Slots |-> 0] /\ met = [s \in Slots |-> Zero]
    /\ left = Budget

Spend == left > 0 /\ left' = left - 1

\* queue_response: an answer that finds the ring full is lost.
Queued(answer) == IF Len(ring) = QueueSize THEN ring ELSE Append(ring, answer)

\* Fault: a figure announced again does not arrive, it is there.
PresentAtOnce(r) == IF r.state # 0 THEN [r EXCEPT !.pend = <<1>>] ELSE r

\* queue_present, queue_removed, queue_replaced: what the game is told next.
Present(r) == IF r.state # 0 THEN [r EXCEPT !.pend = <<3, 1>>] ELSE r
Removed(r) == [r EXCEPT !.fig = Zero, !.pend = <<2>>]
Replaced(r, f) == [r EXCEPT !.fig = f, !.pend = <<2, 3, 1>>]
Arrived(f) == [fig |-> f, state |-> 3, pend |-> <<3, 1>>]

\* load_figures and load_slot: the slots are forgotten and the files read; a
\* short file is in part over the figure, which is not there.
Loaded(f) == CASE f = Missing -> Empty
               [] f = Short -> [Empty EXCEPT !.fig = Part]
               [] OTHER -> Arrived(f)
LoadFigures(ok) ==
    IF ok THEN slots' = [s \in Slots |-> Loaded(file[s])] /\ loaded' = TRUE
    ELSE UNCHANGED <<slots, loaded>>

\* ioctl_request: every ioctl loads the figures while that failed so far, and
\* RELOAD does again; `ok` is whether ISFS_SetMode works.
Ioctl(kind, ok) ==
    /\ Spend
    /\ IF kind = "reload"
       THEN slots' = (IF ok THEN [s \in Slots |-> Loaded(file[s])] ELSE slots) /\ loaded' = ok
       ELSE IF loaded THEN ok /\ UNCHANGED <<slots, loaded>> ELSE LoadFigures(ok)
    /\ resumed' = (resumed \/ kind = "resume")
    /\ UNCHANGED <<file, ring, delay, pollSlot, activated, view, met>>
-----------------------------------------------------------------------------
\* handle_report answers C, L, S and V at once, and queues an answer that says
\* nothing of a figure to J, M and R.
Plain(later) ==
    /\ resumed /\ Spend
    /\ ring' = IF later THEN Queued([kind |-> "plain"]) ELSE ring
    /\ UNCHANGED <<file, slots, delay, pollSlot, loaded, resumed, activated, view, met>>

\* A, which announces every figure again.
Activate(on) ==
    /\ resumed /\ Spend
    /\ activated' = on /\ ring' = Queued([kind |-> "plain"])
    /\ slots' = IF on THEN [s \in Slots |-> Present(slots[s])] ELSE slots
    /\ UNCHANGED <<file, delay, pollSlot, loaded, resumed, view, met>>

\* Fault: a figure that is still arriving is read too, as it may be written.
QueryArriving(s) ==
    /\ resumed /\ Spend
    /\ ring' = Queued(IF slots[s].state \in {1, 3} THEN [kind |-> "Q", slot |-> s]
                      ELSE [kind |-> "absent"])
    /\ UNCHANGED <<file, slots, delay, pollSlot, loaded, resumed, activated, view, met>>

\* Q, with build_query.
Query(s) ==
    /\ resumed /\ Spend
    /\ ring' = Queued(IF slots[s].state = 1 THEN [kind |-> "Q", slot |-> s]
                      ELSE [kind |-> "absent"])
    /\ UNCHANGED <<file, slots, delay, pollSlot, loaded, resumed, activated, view, met>>

\* W, with build_write, which changes the figure in memory only.
Write(s) ==
    /\ resumed /\ Spend
    /\ IF slots[s].state \in {1, 3}
       THEN /\ slots' = [slots EXCEPT ![s].fig = Edited]
            /\ met' = [met EXCEPT ![s] = IF @ = slots[s].fig THEN Edited ELSE @]
            /\ ring' = Queued([kind |-> "W", slot |-> s])
       ELSE ring' = Queued([kind |-> "absent"]) /\ UNCHANGED <<slots, met>>
    /\ UNCHANGED <<file, delay, pollSlot, loaded, resumed, activated, view>>
-----------------------------------------------------------------------------
\* poll_one_figure: what becomes of slot r when its file is f.
Polled(r, f) ==
    LET there == r.state \notin {0, 2}
    IN  CASE f = Missing -> IF there THEN Removed(r) ELSE r
          [] f = Short -> r
          [] OTHER -> IF ~there THEN Arrived(f)
                      ELSE IF r.fig # f THEN Replaced(r, f) ELSE r

\* build_status: the packet takes the next bits of every slot.
Shown(r) == IF r.pend = <<>> THEN r
            ELSE [r EXCEPT !.state = Head(r.pend), !.pend = Tail(r.pend)]

\* ioctlv_request for a read: poll_figures, then the next answer or a status
\* packet.  The slot to poll stays the same when ISFS_SetMode fails.
SameSlot == pollSlot  \* fault: the other slot's file is never looked at
NextSlot == (pollSlot + 1) % SlotCount
Due == delay + 1 >= PollEvery
Looked(ok) == IF Due /\ ok THEN [slots EXCEPT ![pollSlot] = Polled(@, file[pollSlot])]
              ELSE slots
Read(ok) ==
    /\ resumed
    /\ delay' = IF Due THEN 0 ELSE delay + 1
    /\ pollSlot' = IF Due /\ ok THEN NextSlot ELSE pollSlot
    /\ IF ok THEN UNCHANGED left ELSE Due /\ Spend
    /\ IF ring # <<>>
       THEN slots' = Looked(ok) /\ ring' = Tail(ring) /\ UNCHANGED <<view, met>>
       ELSE /\ slots' = [s \in Slots |-> Shown(Looked(ok)[s])]
            /\ view' = [s \in Slots |-> slots'[s].state]
            /\ met' = [s \in Slots |-> IF view'[s] = 3 THEN slots'[s].fig ELSE met[s]]
            /\ UNCHANGED ring
    /\ UNCHANGED <<file, loaded, resumed, activated>>

\* The user copies, cuts short or deletes a file.
Edit(s, f) ==
    /\ Spend /\ f # file[s] /\ file' = [file EXCEPT ![s] = f]
    /\ UNCHANGED <<slots, ring, delay, pollSlot, loaded, resumed, activated, view, met>>

CoreNext ==
    \/ \E kind \in {"reload", "resume", "other"}, ok \in BOOLEAN : Ioctl(kind, ok)
    \/ \E later \in BOOLEAN : Plain(later)
    \/ \E on \in BOOLEAN : Activate(on)
    \/ \E s \in Slots : Query(s) \/ Write(s)
    \/ \E ok \in BOOLEAN : Read(ok)
    \/ \E s \in Slots, f \in Dumps \cup {Missing, Short} : Edit(s, f)

CoreSpec == CoreInit /\ [][CoreNext]_coreVars
-----------------------------------------------------------------------------
Contents == Dumps \cup {Zero, Part, Edited}
Ups == {<<>>, <<1>>, <<2>>, <<3, 1>>, <<2, 3, 1>>}
SlotRec == [fig : Contents, state : 0..3, pend : Ups]
Answers == [kind : {"plain", "absent"}] \cup [kind : {"Q", "W"}, slot : Slots]
CoreTypeOK ==
    /\ file \in [Slots -> Dumps \cup {Missing, Short}]
    /\ slots \in [Slots -> SlotRec]
    /\ ring \in Seq(Answers) /\ Len(ring) <= QueueSize
    /\ delay \in 0 .. PollEvery - 1 /\ pollSlot \in Slots
    /\ {loaded, resumed, activated} \subseteq BOOLEAN
    /\ view \in [Slots -> 0..3] /\ met \in [Slots -> Contents]
    /\ left \in 0..Budget

\* The game that takes a slot for settled reads the figure that was there when
\* the portal last told it of an arrival, with the game's own writes: a dump
\* that was swapped, removed, put back or reloaded in any order, and an A that
\* overwrites the bits to come, never leave it with another one unannounced.
ArrivalSeen == \A s \in Slots :
    slots[s].state = 1 /\ slots[s].pend = <<>> => met[s] = slots[s].fig
CoreInv == CoreTypeOK /\ ArrivalSeen

\* An answer that carries blocks of a figure is read while the last packet
\* the game saw says that the figure is there, though the card is looked at
\* and the slots are loaded anew between the query and the read.
QueriesFit == \A i \in DOMAIN ring : ring[i].kind = "Q" => view[ring[i].slot] = 1

\* What reads alone make of the card: its dump is there, or the game knows
\* that there is none.
Agrees(r, f) ==
    /\ r.pend = <<>>
    /\ f \in Dumps => r.state = 1 /\ r.fig = f
    /\ f = Missing => r.state \in {0, 2}
ShowsTheCard == resumed => \A s \in Slots : Agrees(slots[s], file[s])
=============================================================================
