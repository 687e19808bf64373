------------------------------- MODULE HidV4 -------------------------------
(***************************************************************************)
(* The IPC side of the virtual portal: plugin/source/hidv4.h.              *)
(*                                                                         *)
(* The game opens a HIDv4 descriptor and posts ioctls, several of them     *)
(* outstanding at a time.  The HID thread of IOS calls v4_ioctl_dispatch   *)
(* and v4_close_dispatch for each; these forward the messages of a routed  *)
(* descriptor through a message queue to the worker, which runs v4_process *)
(* and v4_tick and owns the sessions.  A message is answered (acked) at    *)
(* once, or it is parked: an interrupt read until its data is due, and a   *)
(* second GETDEVICECHANGE until the session ends.                          *)
(*                                                                         *)
(* A reply to a command is represented by the number of the command; what  *)
(* a status packet says is in PortalStatus.  Opening descriptors and       *)
(* whatever the original driver does with unrouted ones is external.       *)
(***************************************************************************)
EXTENDS Integers, Sequences

CONSTANTS
    Fds,         \* descriptors (16)
    Ids,         \* identities of outstanding messages
    NoMsg,
    Kinds,       \* the kinds of ioctl the game posts
    Fifo,        \* capacity of the reply ring, V4_FIFO (8)
    QueueLen,    \* capacity of the message queue (64)
    ReplyTicks,  \* ticks until a reply is due (11); a status packet takes one
    NumMod,      \* command numbers are modulo NumMod
    MayFail      \* whether v4_start and os_message_queue_send may fail

AllKinds == {"version", "discover", "command", "read", "shutdown", "cancel", "other"}

ASSUME HidAssumption ==
    /\ Kinds \subseteq AllKinds
    /\ Fifo \in Nat \ {0} /\ QueueLen \in Nat \ {0} /\ ReplyTicks \in Nat \ {0}
    /\ NumMod \in Nat /\ NumMod > Fifo + 1
    /\ MayFail \in BOOLEAN

Messages == [fd : Fds, kind : Kinds \cup {"close"}, id : Ids]
ASSUME NoMsgAssumption == NoMsg \notin Messages

VARIABLES
    conn,     \* the game's descriptor: "closed", "open" or "closing"
    out,      \* messages the game has posted and that are not acked
    hid,      \* the HID thread: its message, and whether it was sent
    route,    \* v4_route
    queue,    \* the message queue of the worker, without the timer's messages
    discovered, change,  \* v4_sessions[fd].discovered, .change
    read,     \* v4_sessions[fd].read, .response and .due
    ring, head, count,   \* v4_sessions[fd].fifo, .head, .count
    next,     \* history: the number of the next command accepted
    expect    \* history: the number of the reply the game must get next

sessionVars == <<discovered, change, read, ring, head, count>>
history == <<next, expect>>
vars == <<conn, out, hid, route, queue, discovered, change, read, ring,
          head, count, next, expect>>
-----------------------------------------------------------------------------
Nums == 0..(NumMod - 1)
Status == NumMod       \* a read that gets a status packet instead of a reply
Cells == 0..(Fifo - 1)
Succ(n) == (n + 1) % NumMod

Idle == [msg |-> NoMsg, sent |-> FALSE]
NoRead == [msg |-> NoMsg, reply |-> Status, due |-> 0]
Reading(fd) == read[fd].msg # NoMsg

\* Messages a session holds back.
Parked(fd) == {change[fd], read[fd].msg} \ {NoMsg}
-----------------------------------------------------------------------------
Init ==
    /\ conn = [fd \in Fds |-> "closed"]
    /\ out = {} /\ hid = Idle
    /\ route = [fd \in Fds |-> FALSE]
    /\ queue = << >>
    /\ discovered = [fd \in Fds |-> FALSE] /\ change = [fd \in Fds |-> NoMsg]
    /\ read = [fd \in Fds |-> NoRead]
    /\ ring = [fd \in Fds |-> [c \in Cells |-> 0]]
    /\ head = [fd \in Fds |-> 0] /\ count = [fd \in Fds |-> 0]
    /\ next = [fd \in Fds |-> 0] /\ expect = [fd \in Fds |-> 0]

\* The game (external).
Open(fd) ==
    /\ conn[fd] = "closed"
    /\ conn' = [conn EXCEPT ![fd] = "open"]
    /\ UNCHANGED <<out, hid, route, queue, sessionVars, history>>

Post(m) ==
    /\ conn[m.fd] = "open" /\ hid = Idle
    /\ \A o \in out : o.id # m.id
    /\ out' = out \cup {m}
    /\ hid' = [msg |-> m, sent |-> FALSE]
    /\ conn' = IF m.kind = "close" THEN [conn EXCEPT ![m.fd] = "closing"] ELSE conn
    /\ UNCHANGED <<route, queue, sessionVars, history>>
-----------------------------------------------------------------------------
\* The HID thread.
Dispatching == hid.msg # NoMsg /\ ~hid.sent
Mine(m) == route[m.fd] \/ m.kind = "version"

\* The original driver answers what is not routed (external).
DispatchStock ==
    /\ Dispatching /\ ~Mine(hid.msg)
    /\ out' = out \ {hid.msg}
    /\ conn' = IF hid.msg.kind = "close" THEN [conn EXCEPT ![hid.msg.fd] = "closed"] ELSE conn
    /\ hid' = Idle
    /\ UNCHANGED <<route, queue, sessionVars, history>>

\* v4_start fails and has undone what it did, or the send fails.
DispatchFails ==
    /\ Dispatching /\ Mine(hid.msg) /\ hid.msg.kind # "close"
    /\ MayFail
    /\ out' = out \ {hid.msg}
    /\ hid' = Idle
    /\ UNCHANGED <<conn, route, queue, sessionVars, history>>

\* The send waits for room; the worker may run before the route is set.
DispatchSend ==
    /\ Dispatching /\ Mine(hid.msg)
    /\ Len(queue) < QueueLen
    /\ queue' = Append(queue, hid.msg)
    /\ hid' = IF hid.msg.kind = "close" THEN Idle ELSE [hid EXCEPT !.sent = TRUE]
    /\ UNCHANGED <<conn, out, route, sessionVars, history>>

SetRoute ==
    /\ hid.sent
    /\ route' = [route EXCEPT ![hid.msg.fd] = TRUE]
    /\ hid' = Idle
    /\ UNCHANGED <<conn, out, queue, sessionVars, history>>

Hid == DispatchStock \/ DispatchFails \/ DispatchSend \/ SetRoute
-----------------------------------------------------------------------------
\* The worker takes its next message m and acks the messages done.
Take(m, kinds, done) ==
    /\ m.kind \in kinds
    /\ queue' = Tail(queue)
    /\ out' = out \ done
    /\ UNCHANGED hid

\* v4_cancel, and the zeroing of the session for GETVERSION and close.  The
\* replies in the ring, and one in flight, are given up.
CancelSession(fd) ==
    /\ read' = [read EXCEPT ![fd] = NoRead]
    /\ change' = [change EXCEPT ![fd] = NoMsg]
    /\ head' = [head EXCEPT ![fd] = 0] /\ count' = [count EXCEPT ![fd] = 0]
    /\ discovered' = [discovered EXCEPT ![fd] = FALSE]
    /\ expect' = [expect EXCEPT ![fd] = next[fd]]
    /\ UNCHANGED next

Reset(m) ==
    /\ Take(m, {"version", "shutdown"}, {m} \cup Parked(m.fd))
    /\ CancelSession(m.fd)
    /\ ring' = IF m.kind = "version" THEN [ring EXCEPT ![m.fd] = [c \in Cells |-> 0]] ELSE ring
    /\ UNCHANGED <<conn, route>>

\* Fault: the descriptor stays routed.
CloseKeepsRoute(m) ==
    /\ Take(m, {"close"}, {m} \cup Parked(m.fd))
    /\ CancelSession(m.fd)
    /\ ring' = [ring EXCEPT ![m.fd] = [c \in Cells |-> 0]]
    /\ conn' = [conn EXCEPT ![m.fd] = "closed"]
    /\ UNCHANGED route

Close(m) ==
    /\ Take(m, {"close"}, {m} \cup Parked(m.fd))
    /\ CancelSession(m.fd)
    /\ ring' = [ring EXCEPT ![m.fd] = [c \in Cells |-> 0]]
    /\ route' = [route EXCEPT ![m.fd] = FALSE]
    /\ conn' = [conn EXCEPT ![m.fd] = "closed"]

\* GETDEVICECHANGE: the first is answered, the second is parked, a third fails.
Discover(m) ==
    /\ \/ /\ change[m.fd] = NoMsg /\ discovered[m.fd]
          /\ Take(m, {"discover"}, {})
          /\ change' = [change EXCEPT ![m.fd] = m]
          /\ UNCHANGED discovered
       \/ /\ change[m.fd] # NoMsg \/ ~discovered[m.fd]
          /\ Take(m, {"discover"}, {m})
          /\ discovered' = [discovered EXCEPT ![m.fd] = TRUE]
          /\ UNCHANGED change
    /\ UNCHANGED <<conn, route, read, ring, head, count, history>>

\* Fault: the reply is put at the count, as if the ring began at 0.
CommandIgnoresHead(m) ==
    /\ Take(m, {"command"}, {m})
    /\ IF count[m.fd] = Fifo
       THEN UNCHANGED <<ring, count, next>>
       ELSE /\ ring' = [ring EXCEPT ![m.fd][count[m.fd]] = next[m.fd]]
            /\ count' = [count EXCEPT ![m.fd] = @ + 1]
            /\ next' = [next EXCEPT ![m.fd] = Succ(@)]
    /\ UNCHANGED <<conn, route, discovered, change, read, head, expect>>

\* v4_control with a command that has a reply (v4_push); -8 when the ring is
\* full.
Command(m) ==
    /\ Take(m, {"command"}, {m})
    /\ IF count[m.fd] = Fifo
       THEN UNCHANGED <<ring, count, next>>
       ELSE /\ ring' = [ring EXCEPT ![m.fd][(head[m.fd] + count[m.fd]) % Fifo] = next[m.fd]]
            /\ count' = [count EXCEPT ![m.fd] = @ + 1]
            /\ next' = [next EXCEPT ![m.fd] = Succ(@)]
    /\ UNCHANGED <<conn, route, discovered, change, read, head, expect>>

\* Fault: a second read takes the place of the first.
ReadReplaces(m) ==
    /\ Take(m, {"read"}, {})
    /\ read' = [read EXCEPT ![m.fd] = [msg |-> m, due |-> 1, reply |-> Status]]
    /\ UNCHANGED <<conn, route, discovered, change, ring, head, count, history>>

\* v4_transfer of an interrupt read: the oldest reply is taken from the ring, or
\* a status packet is prepared.  A second read is refused.
Read(m) ==
    /\ \/ /\ ~Reading(m.fd)
          /\ Take(m, {"read"}, {})
          /\ IF count[m.fd] > 0
             THEN /\ read' = [read EXCEPT ![m.fd] = [msg |-> m, due |-> ReplyTicks,
                                                     reply |-> ring[m.fd][head[m.fd]]]]
                  /\ head' = [head EXCEPT ![m.fd] = (@ + 1) % Fifo]
                  /\ count' = [count EXCEPT ![m.fd] = @ - 1]
             ELSE /\ read' = [read EXCEPT ![m.fd] = [msg |-> m, due |-> 1, reply |-> Status]]
                  /\ UNCHANGED <<head, count>>
       \/ /\ Reading(m.fd)
          /\ Take(m, {"read"}, {m})
          /\ UNCHANGED <<read, head, count>>
    /\ UNCHANGED <<conn, route, discovered, change, ring, history>>

\* Fault: the read is acked and stays in the session.
CancelKeepsRead(m) ==
    /\ Take(m, {"cancel"}, {m, read[m.fd].msg})
    /\ UNCHANGED <<conn, route, discovered, change, read, ring, head, count, history>>

\* CANCELINTERRUPT: the read in flight ends, and its reply, if any, is lost.
Cancel(m) ==
    /\ Take(m, {"cancel"}, {m, read[m.fd].msg})
    /\ read' = [read EXCEPT ![m.fd] = NoRead]
    /\ expect' = IF Reading(m.fd) /\ read[m.fd].reply # Status
                 THEN [expect EXCEPT ![m.fd] = Succ(@)] ELSE expect
    /\ UNCHANGED <<conn, route, discovered, change, ring, head, count, next>>

\* SET_SUSPEND, commands without reply, output transfers and rejected requests.
Other(m) ==
    /\ Take(m, {"other"}, {m})
    /\ UNCHANGED <<conn, route, sessionVars, history>>

\* v4_process of the oldest message.
Process ==
    /\ queue # << >>
    /\ LET m == Head(queue) IN
       \/ Reset(m) \/ Close(m) \/ Discover(m) \/ Command(m) \/ Read(m)
       \/ Cancel(m) \/ Other(m)

\* v4_tick: every read that is due gets its data.
Due(fd) == Reading(fd) /\ read[fd].due = 1

Tick ==
    /\ \E fd \in Fds : Reading(fd)
    /\ read' = [fd \in Fds |-> IF Due(fd) THEN NoRead
                               ELSE IF Reading(fd) THEN [read[fd] EXCEPT !.due = @ - 1]
                               ELSE read[fd]]
    /\ out' = out \ {read[fd].msg : fd \in {f \in Fds : Due(f)}}
    /\ expect' = [fd \in Fds |-> IF Due(fd) /\ read[fd].reply # Status
                                 THEN Succ(expect[fd]) ELSE expect[fd]]
    /\ UNCHANGED <<conn, hid, route, queue, discovered, change, ring, head,
                   count, next>>

Next ==
    \/ \E fd \in Fds : Open(fd)
    \/ \E m \in Messages : Post(m)
    \/ Hid \/ Process \/ Tick

Spec == Init /\ [][Next]_vars

\* The HID thread and the worker run, and the timer ticks.
FairSpec == Spec /\ WF_vars(Hid) /\ WF_vars(Process) /\ WF_vars(Tick)
-----------------------------------------------------------------------------
TypeOK ==
    /\ conn \in [Fds -> {"closed", "open", "closing"}]
    /\ out \subseteq Messages
    /\ hid \in [msg : Messages \cup {NoMsg}, sent : BOOLEAN]
    /\ route \in [Fds -> BOOLEAN]
    /\ queue \in Seq(Messages) /\ Len(queue) <= QueueLen
    /\ discovered \in [Fds -> BOOLEAN] /\ change \in [Fds -> Messages \cup {NoMsg}]
    /\ read \in [Fds -> [msg : Messages \cup {NoMsg}, reply : Nums \cup {Status},
                         due : 0..ReplyTicks]]
    /\ ring \in [Fds -> [Cells -> Nums]]
    /\ head \in [Fds -> Cells] /\ count \in [Fds -> 0..Fifo]
    /\ next \in [Fds -> Nums] /\ expect \in [Fds -> Nums]

\* The places where an outstanding message is.
InHid == IF Dispatching THEN {hid.msg} ELSE {}
InQueue == {queue[i] : i \in 1..Len(queue)}
InSessions == UNION {Parked(fd) : fd \in Fds}

\* Every message the game waits for is in exactly one place, and none that was
\* answered is kept: no ioctl is lost, none is acked twice, whatever cancels,
\* resets and closes do to the parked ones.
AckedOnce ==
    /\ out = InHid \cup InQueue \cup InSessions
    /\ InHid \cap InQueue = {} /\ InSessions \cap (InHid \cup InQueue) = {}
    /\ \A i, j \in 1..Len(queue) : queue[i] = queue[j] => i = j
    /\ \A fd \in Fds : \A m \in Parked(fd) : m.fd = fd
    /\ \A fd \in Fds : change[fd] # NoMsg => change[fd] # read[fd].msg

\* The reply in flight and the replies in the ring are those of the commands
\* accepted and not yet answered, oldest first: a reply is never dropped,
\* repeated or overtaken, but for the one a cancelled read had taken.
InFlight(fd) == IF Reading(fd) /\ read[fd].reply # Status THEN 1 ELSE 0

RepliesInOrder ==
    \A fd \in Fds :
        /\ InFlight(fd) = 1 => read[fd].reply = expect[fd]
        /\ \A i \in 0..(count[fd] - 1) :
              ring[fd][(head[fd] + i) % Fifo] = (expect[fd] + InFlight(fd) + i) % NumMod
        /\ (expect[fd] + InFlight(fd) + count[fd]) % NumMod = next[fd]

\* A descriptor that the game has closed leaves nothing behind for the next one
\* that gets its number: no message, no parked read, no reply, no route.
ClosedIsClean ==
    \A fd \in Fds : conn[fd] = "closed" =>
        /\ ~route[fd] /\ ~discovered[fd]
        /\ \A m \in out : m.fd # fd
        /\ Parked(fd) = {} /\ count[fd] = 0

-----------------------------------------------------------------------------
\* Every ioctl but a parked GETDEVICECHANGE is answered.
EveryIoctlEnds ==
    \A m \in Messages : (m \in out /\ m.kind # "discover") ~> (m \notin out)
=============================================================================
