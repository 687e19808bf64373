---------------------------- MODULE PortalStatus ----------------------------
(***************************************************************************)
(* What the game is told about the figures on the portal: the status       *)
(* packets of plugin/source/hidv4.h and the transition queues of           *)
(* plugin/source/e12_storage.h.                                            *)
(*                                                                         *)
(* Every HIDv4 session has, per slot, a status (0 empty, 1 present,        *)
(* 2 leaving, 3 arriving) and up to four transitions to report, packed in  *)
(* 16 bits as nibbles state + 4, next one lowest.  A status packet is      *)
(* built when the game submits a read (v4_transfer) and its transitions    *)
(* are consumed when a timer tick delivers it (v4_tick), unless the game   *)
(* cancelled the read or some figure moved in between (epoch).             *)
(*                                                                         *)
(* The storage appears here as Remove and Insert, at the moves that module *)
(* FigureMoves allows and Storage makes.  The epochs are abstracted by     *)
(* fresh: read_epoch = epoch.  Reads answered from the command FIFO do not *)
(* touch this state and are in HidV4.                                      *)
(***************************************************************************)
EXTENDS Integers

CONSTANTS
    Fds,        \* HIDv4 file descriptors (16)
    Slots,      \* figure slots (16)
    Figs, NoFig,
    CounterMod  \* range of the packet counter (256)

ASSUME PortalAssumption ==
    /\ NoFig \notin Figs
    /\ CounterMod \in Nat \ {0}

VARIABLES
    fig,      \* the present figure of every slot (e12_slots[i].present)
    trans,    \* v4_sessions[fd].transitions
    status,   \* v4_sessions[fd].status
    counter,  \* v4_sessions[fd].counter
    mode,     \* "closed", or v4_sessions[fd].active: "active" or "inactive"
    read,     \* the status read in flight: read, response, read_epoch
    seen      \* history: the figures of the last status packet the game got since
              \* the portal is active, and the counter of the last one

vars == <<fig, trans, status, counter, mode, read, seen>>
-----------------------------------------------------------------------------
Feed == INSTANCE FigureMoves

States == 0..3
\* Transition queues: the constants of e12_event and what remains of them.
Empty == 0
Gone == 4                        \* 0x4:    empty
Leave == 70                      \* 0x46:   leaving, empty
Shown == 5                       \* 0x5:    present
Arrive == 87                     \* 0x57:   arriving, present
Reinsert == 1396                 \* 0x574:  empty, arriving, present
Replace == 22342                 \* 0x5746: leaving, empty, arriving, present
Queues == {Empty, Gone, Leave, Shown, Arrive, Reinsert, Replace}

\* q & 3 and q >> 4.
NextState(q) == q % 4
RestSame(q) == q                \* fault: not shifted
Rest(q) == q \div 16

Counters == 0..(CounterMod - 1)
Blank == [word |-> [s \in Slots |-> 0], figs |-> [s \in Slots |-> NoFig],
          active |-> TRUE]
NoRead == [on |-> FALSE, fresh |-> FALSE, ctr |-> 0, packet |-> Blank]
NothingSeen == [packet |-> Blank, ctr |-> CounterMod - 1]

Reading(fd) == read[fd].on
Opened(fd) == mode[fd] # "closed"

\* Fault: an insertion forgets the removal that was not reported yet.
InsertForgets(q) == IF q = Gone THEN Reinsert ELSE Arrive

\* The queue of a slot a figure arrives in; a figure that leaves makes it Leave.
AfterInsert(q) == IF q = Gone THEN Reinsert ELSE IF q = Leave THEN Replace ELSE Arrive

\* A packet built now, with the figure of each slot for the properties.
Packet(fd) ==
    [word |-> [s \in Slots |-> IF trans[fd][s] # Empty
                               THEN NextState(trans[fd][s]) ELSE status[fd][s]],
     figs |-> fig, active |-> mode[fd] = "active"]

\* Fault: every slot is announced.
AnnouncedAll == [s \in Slots |-> Arrive]

\* e12_announce: the figures present arrive anew.
Announced == [s \in Slots |-> IF fig[s] # NoFig THEN Arrive ELSE Empty]
AllEmpty == [s \in Slots |-> 0]

\* Any change of the transitions makes the packet in flight stale.
Stale(fd) == [read[fd] EXCEPT !.fresh = FALSE]
-----------------------------------------------------------------------------
\* The sessions are zeroed memory until the first GETVERSION.
Init ==
    /\ fig = [s \in Slots |-> NoFig]
    /\ trans = [fd \in Fds |-> AllEmpty]
    /\ status = [fd \in Fds |-> AllEmpty]
    /\ counter = [fd \in Fds |-> 0]
    /\ mode = [fd \in Fds |-> "closed"]
    /\ read = [fd \in Fds |-> NoRead]
    /\ seen = [fd \in Fds |-> NothingSeen]

\* Every event reaches every session (e12_event), also the closed ones.
AllStale == read' = [fd \in Fds |-> Stale(fd)]

\* e12_begin takes the old figure of a position off the portal.
Remove(s) ==
    /\ Feed!Leaves(s)
    /\ trans' = [fd \in Fds |-> [trans[fd] EXCEPT ![s] = Leave]]
    /\ AllStale
    /\ UNCHANGED <<status, counter, mode, seen>>

\* e09_complete, or e12_restore of the figure that left.
Insert(s, f) ==
    /\ Feed!Enters(s, f)
    /\ trans' = [fd \in Fds |-> [trans[fd] EXCEPT ![s] = AfterInsert(@)]]
    /\ AllStale
    /\ UNCHANGED <<status, counter, mode, seen>>

\* Fault: the transitions are dropped and the status is not.
RescanKeepsStatus ==
    /\ trans' = [fd \in Fds |->
                    [s \in Slots |-> IF fig[s] # NoFig THEN Reinsert ELSE Empty]]
    /\ AllStale
    /\ UNCHANGED <<fig, status, counter, mode, seen>>

\* Operation 6 of the mailbox: the figures present leave and arrive anew.
Rescan ==
    /\ trans' = [fd \in Fds |->
                    [s \in Slots |-> IF fig[s] # NoFig THEN Reinsert ELSE Empty]]
    /\ status' = [fd \in Fds |-> AllEmpty]
    /\ AllStale
    /\ UNCHANGED <<fig, counter, mode, seen>>

\* GETVERSION (ioctl 6) opens or resets a session, with a read cancelled.
GetVersion(fd) ==
    /\ trans' = [trans EXCEPT ![fd] = Announced]
    /\ status' = [status EXCEPT ![fd] = AllEmpty]
    /\ counter' = [counter EXCEPT ![fd] = 0]
    /\ mode' = [mode EXCEPT ![fd] = "active"]
    /\ read' = [read EXCEPT ![fd] = NoRead]
    /\ seen' = [seen EXCEPT ![fd] = NothingSeen]
    /\ UNCHANGED fig

\* SHUTDOWN (ioctl 7) cancels the read and deactivates the portal.
Shutdown(fd) ==
    /\ Opened(fd)
    /\ mode' = [mode EXCEPT ![fd] = "inactive"]
    /\ read' = [read EXCEPT ![fd] = NoRead]
    /\ UNCHANGED <<fig, trans, status, counter, seen>>

\* The A command.  A game that activates the portal again starts with no
\* figure on it, and pays no attention to the figures of packets that say the
\* portal is inactive; the packet counter goes on.
Activate(fd) ==
    /\ Opened(fd)
    /\ mode' = [mode EXCEPT ![fd] = "active"]
    /\ IF mode[fd] = "inactive"
       THEN /\ trans' = [trans EXCEPT ![fd] = Announced]
            /\ status' = [status EXCEPT ![fd] = AllEmpty]
            /\ read' = [read EXCEPT ![fd] = Stale(fd)]
            /\ seen' = [seen EXCEPT ![fd].packet = Blank]
       ELSE UNCHANGED <<trans, status, read, seen>>
    /\ UNCHANGED <<fig, counter>>

Close(fd) ==
    /\ Opened(fd)
    /\ trans' = [trans EXCEPT ![fd] = AllEmpty]
    /\ status' = [status EXCEPT ![fd] = AllEmpty]
    /\ counter' = [counter EXCEPT ![fd] = 0]
    /\ mode' = [mode EXCEPT ![fd] = "closed"]
    /\ read' = [read EXCEPT ![fd] = NoRead]
    /\ seen' = [seen EXCEPT ![fd] = NothingSeen]
    /\ UNCHANGED fig

\* Fault: the counter advances when the packet is built, as v4_status does.
SubmitCounts(fd) ==
    /\ Opened(fd) /\ ~Reading(fd)
    /\ read' = [read EXCEPT ![fd] = [on |-> TRUE, fresh |-> TRUE, ctr |-> counter[fd],
                                     packet |-> Packet(fd)]]
    /\ counter' = [counter EXCEPT ![fd] = (@ + 1) % CounterMod]
    /\ UNCHANGED <<fig, trans, status, mode, seen>>

\* An interrupt read with no reply queued: v4_transfer calls v4_status, which
\* calls e12_status_packet.
SubmitRead(fd) ==
    /\ Opened(fd) /\ ~Reading(fd)
    /\ read' = [read EXCEPT ![fd] = [on |-> TRUE, fresh |-> TRUE, ctr |-> counter[fd],
                                     packet |-> Packet(fd)]]
    /\ UNCHANGED <<fig, trans, status, counter, mode, seen>>

\* CANCELINTERRUPT (ioctl 8) on endpoint 0x81.
Cancel(fd) ==
    /\ Reading(fd)
    /\ read' = [read EXCEPT ![fd] = NoRead]
    /\ UNCHANGED <<fig, trans, status, counter, mode, seen>>

\* Fault: the transitions are consumed although they changed meanwhile.
CommitsStale(fd, s) == Reading(fd) /\ trans[fd][s] # Empty

\* e12_status_commit: the transitions shown by the packet are consumed.
Commits(fd, s) == Reading(fd) /\ read[fd].fresh /\ trans[fd][s] # Empty

\* v4_tick delivers every status packet submitted before it (due in one tick).
Deliver ==
    /\ \E fd \in Fds : Reading(fd)
    /\ status' = [fd \in Fds |-> [s \in Slots |->
                    IF Commits(fd, s) THEN NextState(trans[fd][s]) ELSE status[fd][s]]]
    /\ trans' = [fd \in Fds |-> [s \in Slots |->
                    IF Commits(fd, s) THEN Rest(trans[fd][s]) ELSE trans[fd][s]]]
    /\ counter' = [fd \in Fds |-> IF Reading(fd) THEN (counter[fd] + 1) % CounterMod
                                  ELSE counter[fd]]
    /\ seen' = [fd \in Fds |-> IF Reading(fd)
                               THEN [packet |-> IF read[fd].packet.active
                                                THEN read[fd].packet ELSE seen[fd].packet,
                                     ctr |-> read[fd].ctr]
                               ELSE seen[fd]]
    /\ read' = [fd \in Fds |-> NoRead]
    /\ UNCHANGED <<fig, mode>>

\* All but the rescan, which only the menu asks for.
Moves ==
    \/ \E s \in Slots : Remove(s)
    \/ \E s \in Slots, f \in Figs : Insert(s, f)
    \/ \E fd \in Fds : \/ GetVersion(fd) \/ Shutdown(fd) \/ Activate(fd) \/ Close(fd)
                       \/ SubmitRead(fd) \/ Cancel(fd)
    \/ Deliver

Next == Moves \/ Rescan

Spec == Init /\ [][Next]_vars

\* The timer keeps ticking.
FairSpec == Spec /\ WF_vars(Deliver)
-----------------------------------------------------------------------------
Packets == [word : [Slots -> States], figs : [Slots -> Figs \cup {NoFig}],
            active : BOOLEAN]

TypeOK ==
    /\ fig \in [Slots -> Figs \cup {NoFig}]
    /\ trans \in [Fds -> [Slots -> Queues]]
    /\ status \in [Fds -> [Slots -> States]]
    /\ counter \in [Fds -> Counters]
    /\ mode \in [Fds -> {"closed", "active", "inactive"}]
    /\ read \in [Fds -> [on : BOOLEAN, fresh : BOOLEAN, ctr : Counters, packet : Packets]]
    /\ seen \in [Fds -> [packet : Packets, ctr : Counters]]

\* The figure a packet shows in a slot: it is arriving or present there.
Figure(p, s) == IF p.word[s] \in {1, 3} THEN p.figs[s] ELSE NoFig

\* This step brings the game a packet of the session.
Delivered(fd) == Deliver /\ Reading(fd)
DeliveredActive(fd) == Delivered(fd) /\ read[fd].packet.active

\* The last state a queue leads to is where the slot really is: whatever was
\* queued, consumed, dropped or announced before, the game will end up with
\* the right picture.
Final(q) == IF q \in {Leave, Gone} THEN 0 ELSE 1

EndsRight ==
    \A fd \in Fds, s \in Slots : Opened(fd) =>
        /\ trans[fd][s] = Empty => status[fd][s] = IF fig[s] # NoFig THEN 1 ELSE 0
        /\ trans[fd][s] # Empty => (Final(trans[fd][s]) = 1 <=> fig[s] # NoFig)

\* A packet in flight shows a figure as arriving or present only in a slot that
\* had one when it was built.
PacketTrue ==
    \A fd \in Fds, s \in Slots :
        Reading(fd) /\ read[fd].packet.word[s] \in {1, 3} => read[fd].packet.figs[s] # NoFig

\* The game is told that a figure left a slot before it is shown another one
\* there ("finish remove before reinsert", e12_storage.h:44; test_e12.c:109).
RemovedFirst ==
    \A fd \in Fds, s \in Slots :
        LET old == Figure(seen[fd].packet, s)
            new == Figure(seen'[fd].packet, s)
        IN  old # NoFig /\ new # NoFig => old = new
RemoveReported == [][RemovedFirst]_vars

\* A slot is shown as present only after it was shown as arriving, even if
\* packets are cancelled or figures move while a packet is in flight
\* (test_e12.c:69, "insertion and counter must survive").
ArrivalReported ==
    [][\A fd \in Fds, s \in Slots :
          DeliveredActive(fd) /\ seen'[fd].packet.word[s] = 1
          => seen[fd].packet.word[s] \in {1, 3}]_vars

\* A figure is never shown as gone without having been shown as leaving.
LeftFirst ==
    \A fd \in Fds, s \in Slots :
        DeliveredActive(fd) /\ seen'[fd].packet.word[s] = 0
        => seen[fd].packet.word[s] \in {0, 2}

\* The counters of the packets of a session have no gap and no repetition,
\* although the counter is advanced by e12_status_commit and not when the packet
\* is built, and reads are cancelled in between.
CounterContinuous ==
    [][\A fd \in Fds :
          Delivered(fd) => seen'[fd].ctr = (seen[fd].ctr + 1) % CounterMod]_vars
-----------------------------------------------------------------------------
\* When the figures stay where they are and the game keeps reading and does
\* not cancel its reads, the last packets show each slot as it is.
Calm == \E fd \in Fds : SubmitRead(fd) \/ Deliver
KeepsReading(fd) == []<><<mode[fd] = "active" /\ SubmitRead(fd)>>_vars

GameCatchesUp ==
    <>[][Calm]_vars =>
        \A fd \in Fds : KeepsReading(fd) =>
            <>[](\A s \in Slots :
                    seen[fd].packet.word[s] = IF fig[s] # NoFig THEN 1 ELSE 0)
=============================================================================
