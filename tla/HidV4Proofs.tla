----------------------------- MODULE HidV4Proofs -----------------------------
(***************************************************************************)
(* Proofs about the HIDv4 sessions, for any descriptors and messages and   *)
(* any size of the queue, of the reply ring and of the command numbers.    *)
(***************************************************************************)
EXTENDS HidV4, TLAPS

\* A session that leaves nothing to the next owner of the descriptor.
Holds(fd) == hid.msg # NoMsg /\ hid.msg.fd = fd
Clean(fd) == /\ ~discovered[fd] /\ Parked(fd) = {} /\ count[fd] = 0
             /\ \A i \in 1 .. Len(queue) : queue[i].fd # fd

\* A close is the last message of its descriptor, in the hands of the HID
\* thread or in the queue, and a session is used only while it is routed.
CloseHeld ==
    /\ hid.sent => hid.msg # NoMsg /\ hid.msg.kind # "close"
    /\ hid.msg # NoMsg /\ hid.msg.kind = "close" => conn[hid.msg.fd] = "closing"
UnroutedClean == \A fd \in Fds : ~route[fd] /\ ~(hid.sent /\ Holds(fd)) => Clean(fd)
ClosedGone == \A fd \in Fds : conn[fd] = "closed" => ~route[fd] /\ ~Holds(fd)
CloseLast ==
    \A i \in 1 .. Len(queue) : queue[i].kind = "close" =>
        /\ conn[queue[i].fd] = "closing" /\ ~Holds(queue[i].fd)
        /\ \A j \in 1 .. Len(queue) : i < j => queue[j].fd # queue[i].fd
CloseInv == CloseHeld /\ UnroutedClean /\ ClosedGone /\ CloseLast

\* A read that waits has a tick to wait for.
Waits == \A fd \in Fds : Reading(fd) => read[fd].due > 0

HidInv == TypeOK /\ AckedOnce /\ RepliesInOrder /\ CloseInv /\ Waits
-----------------------------------------------------------------------------
\* A number below twice the modulus wraps by one subtraction.
LEMMA Wraps ==
  ASSUME NEW n \in Nat \ {0}, NEW x \in 0 .. (2 * n - 1)
  PROVE  x % n = IF x < n THEN x ELSE x - n
  OBVIOUS

LEMMA HidTypes == TypeOK =>
    /\ hid.msg \in Messages \cup {NoMsg} /\ hid.sent \in BOOLEAN
    /\ \A i \in 1 .. Len(queue) : queue[i] \in Messages
    /\ Len(queue) \in Nat
    /\ \A fd \in Fds : /\ change[fd] \in Messages \cup {NoMsg}
                        /\ read[fd].msg \in Messages \cup {NoMsg}
                        /\ Parked(fd) \subseteq Messages
  BY DEF TypeOK, Parked

LEMMA MessageFacts ==
  ASSUME NEW m \in Messages
  PROVE  m.fd \in Fds /\ m.kind \in Kinds \cup {"close"} /\ m # NoMsg
  BY NoMsgAssumption DEF Messages

\* The worker takes the oldest message.
LEMMA TakeQueue ==
  ASSUME TypeOK, AckedOnce, queue # << >>, queue' = Tail(queue)
  PROVE  /\ Head(queue) \in Messages /\ Head(queue) \in InQueue
         /\ Len(queue) >= 1 /\ Head(queue) = queue[1]
         /\ queue' \in Seq(Messages) /\ Len(queue') = Len(queue) - 1 /\ Len(queue') <= QueueLen
         /\ \A i \in 1 .. Len(queue') : i + 1 \in 1 .. Len(queue) /\ queue'[i] = queue[i + 1]
         /\ InQueue' = InQueue \ {Head(queue)}
         /\ \A i, j \in 1 .. Len(queue') : queue'[i] = queue'[j] => i = j
  <1>1. queue \in Seq(Messages) /\ Len(queue) <= QueueLen /\ QueueLen \in Nat
    BY HidAssumption DEF TypeOK
  <1>2. /\ Len(queue) \in Nat /\ Len(queue) >= 1 /\ Head(queue) = queue[1]
        /\ queue' \in Seq(Messages) /\ Len(queue') = Len(queue) - 1 /\ Len(queue') <= QueueLen
        /\ \A i \in 1 .. Len(queue') : i + 1 \in 1 .. Len(queue) /\ queue'[i] = queue[i + 1]
    BY <1>1
  <1>3. Head(queue) \in Messages /\ Head(queue) \in InQueue
    BY <1>1, <1>2 DEF InQueue
  <1>4. \A i, j \in 1 .. Len(queue) : queue[i] = queue[j] => i = j
    BY DEF AckedOnce
  <1>5. \A i, j \in 1 .. Len(queue') : queue'[i] = queue'[j] => i = j
    BY <1>2, <1>4
  <1>6. InQueue' \subseteq InQueue \ {Head(queue)}
    <2>1. SUFFICES ASSUME NEW i \in 1 .. Len(queue')
                   PROVE  queue'[i] \in InQueue /\ queue'[i] # Head(queue)
      BY DEF InQueue
    <2>2. i + 1 \in 1 .. Len(queue) /\ queue'[i] = queue[i + 1] /\ i + 1 # 1
      BY <1>2
    <2> QED BY <1>2, <1>4, <2>2 DEF InQueue
  <1>7. InQueue \ {Head(queue)} \subseteq InQueue'
    <2>1. SUFFICES ASSUME NEW i \in 1 .. Len(queue), queue[i] # Head(queue)
                   PROVE  queue[i] \in InQueue'
      BY DEF InQueue
    <2>2. i - 1 \in 1 .. Len(queue') /\ queue'[i - 1] = queue[i]
      BY <1>2, <2>1
    <2> QED BY <2>2 DEF InQueue
  <1> QED BY <1>2, <1>3, <1>5, <1>6, <1>7

\* Messages that wait, seen one by one.
LEMMA WhereIs ==
  ASSUME TypeOK, AckedOnce
  PROVE  /\ \A m \in out : m \in InHid \/ m \in InQueue \/ \E fd \in Fds : m \in Parked(fd)
         /\ \A fd \in Fds : Parked(fd) \subseteq out
         /\ InQueue \subseteq out /\ InHid \subseteq out
         /\ \A fd \in Fds : \A m \in Parked(fd) : m.fd = fd /\ m \notin InHid /\ m \notin InQueue
         /\ \A m \in InQueue : m \notin InHid
  BY DEF AckedOnce, InSessions

\* The form in which AckedOnce is shown of the next state.
LEMMA AckedNext ==
  ASSUME \A m \in out' : m \in InHid' \/ m \in InQueue' \/ \E fd \in Fds : m \in Parked(fd)',
         \A fd \in Fds : Parked(fd)' \subseteq out',
         InQueue' \subseteq out', InHid' \subseteq out',
         \A fd \in Fds : \A m \in Parked(fd)' : m.fd = fd /\ m \notin InHid' /\ m \notin InQueue',
         \A m \in InQueue' : m \notin InHid',
         \A i, j \in 1 .. Len(queue') : queue'[i] = queue'[j] => i = j,
         \A fd \in Fds : change'[fd] # NoMsg => change'[fd] # read'[fd].msg
  PROVE  AckedOnce'
  BY DEF AckedOnce, InSessions

\* Every step of v4_process: the message and what its session parked are acked,
\* except what the session parks now.
LEMMA ProcessAcks ==
  ASSUME TypeOK, AckedOnce, queue # << >>, NEW m \in Messages, m = Head(queue),
         queue' = Tail(queue), UNCHANGED hid,
         \A fd \in Fds \ {m.fd} : change'[fd] = change[fd] /\ read'[fd].msg = read[fd].msg,
         change'[m.fd] \in {NoMsg, change[m.fd], m},
         read'[m.fd].msg \in {NoMsg, read[m.fd].msg, m},
         change'[m.fd] # m \/ read'[m.fd].msg # m,
         out' = (out \ ({m} \cup Parked(m.fd))) \cup Parked(m.fd)'
  PROVE  AckedOnce'
  <1>1. /\ m \in InQueue /\ InQueue' = InQueue \ {m}
        /\ \A i, j \in 1 .. Len(queue') : queue'[i] = queue'[j] => i = j
    BY TakeQueue
  <1>2. InHid' = InHid
    BY DEF InHid, Dispatching
  <1>3. m.fd \in Fds /\ m # NoMsg
    BY MessageFacts
  <1>4. \A fd \in Fds \ {m.fd} : Parked(fd)' = Parked(fd)
    BY DEF Parked
  <1>5. Parked(m.fd)' \subseteq Parked(m.fd) \cup {m}
    BY <1>3 DEF Parked
  <1>6. /\ \A x \in out : x \in InHid \/ x \in InQueue \/ \E fd \in Fds : x \in Parked(fd)
        /\ \A fd \in Fds : Parked(fd) \subseteq out
        /\ InQueue \subseteq out /\ InHid \subseteq out
        /\ \A fd \in Fds : \A x \in Parked(fd) : x.fd = fd /\ x \notin InHid /\ x \notin InQueue
        /\ \A x \in InQueue : x \notin InHid
    BY WhereIs
  <1>7. \A fd \in Fds : \A x \in Parked(fd)' : x.fd = fd /\ x \notin InHid' /\ x \notin InQueue'
    BY <1>1, <1>2, <1>3, <1>4, <1>5, <1>6
  <1>8. ASSUME NEW x \in out'
        PROVE  x \in InHid' \/ x \in InQueue' \/ \E fd \in Fds : x \in Parked(fd)'
    <2>1. CASE x \in Parked(m.fd)'
      BY <1>3, <2>1
    <2>2. CASE x \notin Parked(m.fd)'
      BY <1>1, <1>2, <1>4, <1>6, <1>8, <2>2
    <2> QED BY <2>1, <2>2
  <1>9. \A fd \in Fds : Parked(fd)' \subseteq out'
    BY <1>3, <1>4, <1>6
  <1>10. InQueue' \subseteq out' /\ InHid' \subseteq out'
    BY <1>1, <1>2, <1>3, <1>6
  <1>11. \A fd \in Fds : change'[fd] # NoMsg => change'[fd] # read'[fd].msg
    <2>1. \A fd \in Fds : change[fd] # NoMsg => change[fd] # read[fd].msg
      BY DEF AckedOnce
    <2>2. m \notin Parked(m.fd)
      BY <1>1, <1>3, <1>6
    <2>3. m # change[m.fd] /\ m # read[m.fd].msg
      BY <1>3, <2>2 DEF Parked
    <2> QED BY <1>3, <2>1, <2>3
  <1>12. \A x \in InQueue' : x \notin InHid'
    BY <1>1, <1>2, <1>6
  <1> QED BY <1>1, <1>7, <1>8, <1>9, <1>10, <1>11, <1>12, AckedNext

LEMMA AppendFacts ==
  ASSUME TypeOK, Len(queue) < QueueLen, NEW m \in Messages, queue' = Append(queue, m)
  PROVE  /\ queue' \in Seq(Messages) /\ Len(queue') = Len(queue) + 1 /\ Len(queue') <= QueueLen
         /\ Len(queue) \in Nat
         /\ \A i \in 1 .. Len(queue) : queue'[i] = queue[i]
         /\ queue'[Len(queue) + 1] = m
         /\ InQueue' = InQueue \cup {m}
  <1>1. queue \in Seq(Messages) /\ Len(queue) \in Nat /\ QueueLen \in Nat
    BY HidAssumption DEF TypeOK
  <1>2. /\ queue' \in Seq(Messages) /\ Len(queue') = Len(queue) + 1 /\ Len(queue') <= QueueLen
        /\ \A i \in 1 .. Len(queue) : queue'[i] = queue[i]
        /\ queue'[Len(queue) + 1] = m
    BY <1>1
  <1>3. InQueue' = InQueue \cup {m}
    <2>1. InQueue' \subseteq InQueue \cup {m}
      <3>1. \A i \in 1 .. Len(queue') : i \in 1 .. Len(queue) \/ i = Len(queue) + 1
        BY <1>1, <1>2
      <3> QED BY <1>2, <3>1 DEF InQueue
    <2>2. InQueue \subseteq InQueue'
      <3>1. \A i \in 1 .. Len(queue) : i \in 1 .. Len(queue')
        BY <1>1, <1>2
      <3> QED BY <1>2, <3>1 DEF InQueue
    <2>3. m \in InQueue'
      <3>1. Len(queue) + 1 \in 1 .. Len(queue')
        BY <1>1, <1>2
      <3> QED BY <1>2, <3>1 DEF InQueue
    <2> QED BY <2>1, <2>2, <2>3
  <1> QED BY <1>1, <1>2, <1>3

\* What a step of v4_process changes of the session of its message alone.
OwnOnly(m) ==
    /\ \A fd \in Fds \ {m.fd} :
          /\ change'[fd] = change[fd] /\ read'[fd] = read[fd] /\ discovered'[fd] = discovered[fd]
          /\ ring'[fd] = ring[fd] /\ head'[fd] = head[fd] /\ count'[fd] = count[fd]
          /\ next'[fd] = next[fd] /\ expect'[fd] = expect[fd]
    /\ change'[m.fd] \in {NoMsg, change[m.fd], m}
    /\ read'[m.fd].msg \in {NoMsg, read[m.fd].msg, m}
    /\ change'[m.fd] # m \/ read'[m.fd].msg # m

\* The steps of v4_process, one by one: the queue, what is acked and parked.
LEMMA SessionStep ==
  ASSUME HidInv, NEW m \in Messages, m = Head(queue), queue # << >>,
         Reset(m) \/ Close(m) \/ Discover(m) \/ Command(m) \/ Read(m) \/ Cancel(m) \/ Other(m)
  PROVE  /\ queue' = Tail(queue) /\ UNCHANGED hid /\ OwnOnly(m)
         /\ out' = (out \ ({m} \cup Parked(m.fd))) \cup Parked(m.fd)'
  <1>1. queue' = Tail(queue) /\ UNCHANGED hid
    BY DEF Reset, Close, Discover, Command, Read, Cancel, Other, Take
  <1>2. m.fd \in Fds /\ m # NoMsg /\ m \in InQueue
    BY <1>1, MessageFacts, TakeQueue DEF HidInv
  <1>3. /\ change \in [Fds -> Messages \cup {NoMsg}]
        /\ read \in [Fds -> [msg : Messages \cup {NoMsg}, reply : Nums \cup {Status},
                             due : 0..ReplyTicks]]
        /\ discovered \in [Fds -> BOOLEAN] /\ ring \in [Fds -> [Cells -> Nums]]
        /\ head \in [Fds -> Cells] /\ count \in [Fds -> 0..Fifo]
        /\ next \in [Fds -> Nums] /\ expect \in [Fds -> Nums]
    BY DEF HidInv, TypeOK
  <1>4. Parked(m.fd) \subseteq out /\ m \in out /\ m \notin Parked(m.fd)
    BY <1>2, WhereIs DEF HidInv
  <1>5. m # change[m.fd] /\ m # read[m.fd].msg
    BY <1>2, <1>4 DEF Parked
  <1>6. CASE Reset(m) \/ Close(m)
    <2>1. CancelSession(m.fd) /\ out' = out \ ({m} \cup Parked(m.fd))
      BY <1>6 DEF Reset, Close, Take
    <2>2. \A fd \in Fds \ {m.fd} : ring'[fd] = ring[fd]
      BY <1>3, <1>6 DEF Reset, Close
    <2>3. change'[m.fd] = NoMsg /\ read'[m.fd].msg = NoMsg
      BY <1>2, <1>3, <2>1 DEF CancelSession, NoRead
    <2>4. Parked(m.fd)' = {}
      BY <2>3 DEF Parked
    <2>5. OwnOnly(m)
      BY <1>2, <1>3, <2>1, <2>2, <2>3 DEF CancelSession, OwnOnly
    <2> QED BY <1>1, <2>1, <2>4, <2>5
  <1>7. CASE Discover(m)
    <2>1. UNCHANGED <<read, ring, head, count, history>>
      BY <1>7 DEF Discover
    <2>2. CASE /\ change[m.fd] = NoMsg /\ Take(m, {"discover"}, {})
               /\ change' = [change EXCEPT ![m.fd] = m] /\ UNCHANGED discovered
      <3>1. out' = out /\ change'[m.fd] = m
        BY <1>2, <1>3, <2>2 DEF Take
      <3>2. Parked(m.fd)' = Parked(m.fd) \cup {m}
        BY <1>2, <2>1, <2>2, <3>1 DEF Parked
      <3>3. OwnOnly(m)
        BY <1>3, <1>5, <2>1, <2>2, <3>1 DEF OwnOnly, history
      <3> QED BY <1>1, <1>4, <3>1, <3>2, <3>3
    <2>3. CASE /\ Take(m, {"discover"}, {m}) /\ UNCHANGED change
               /\ discovered' = [discovered EXCEPT ![m.fd] = TRUE]
      <3>1. out' = out \ {m}
        BY <2>3 DEF Take
      <3>2. Parked(m.fd)' = Parked(m.fd)
        BY <2>1, <2>3 DEF Parked
      <3>3. OwnOnly(m)
        BY <1>3, <1>5, <2>1, <2>3 DEF OwnOnly, history
      <3> QED BY <1>1, <1>4, <3>1, <3>2, <3>3
    <2> QED BY <1>7, <2>2, <2>3 DEF Discover
  <1>8. CASE Command(m) \/ Other(m)
    <2>1. UNCHANGED <<change, read, discovered, head, expect>> /\ out' = out \ {m}
      BY <1>8 DEF Command, Other, Take, sessionVars, history
    <2>2. \A fd \in Fds \ {m.fd} : ring'[fd] = ring[fd] /\ count'[fd] = count[fd] /\ next'[fd] = next[fd]
      BY <1>3, <1>8 DEF Command, Other, sessionVars, history
    <2>3. Parked(m.fd)' = Parked(m.fd)
      BY <2>1 DEF Parked
    <2>4. OwnOnly(m)
      BY <1>5, <2>1, <2>2 DEF OwnOnly
    <2> QED BY <1>1, <1>4, <2>1, <2>3, <2>4
  <1>9. CASE Read(m)
    <2>1. UNCHANGED <<change, discovered, ring, history>>
      BY <1>9 DEF Read
    <2>2. CASE Reading(m.fd) /\ Take(m, {"read"}, {m}) /\ UNCHANGED <<read, head, count>>
      <3>1. out' = out \ {m}
        BY <2>2 DEF Take
      <3>2. Parked(m.fd)' = Parked(m.fd)
        BY <2>1, <2>2 DEF Parked
      <3>3. OwnOnly(m)
        BY <1>3, <1>5, <2>1, <2>2 DEF OwnOnly, history
      <3> QED BY <1>1, <1>4, <3>1, <3>2, <3>3
    <2>3. CASE ~Reading(m.fd)
      <3>1. /\ out' = out /\ read'[m.fd].msg = m
            /\ \A fd \in Fds \ {m.fd} : read'[fd] = read[fd]
        BY <1>2, <1>3, <1>9, <2>3 DEF Read, Take
      <3>2. \A fd \in Fds \ {m.fd} : head'[fd] = head[fd] /\ count'[fd] = count[fd]
        BY <1>3, <1>9, <2>3 DEF Read
      <3>3. Parked(m.fd)' = Parked(m.fd) \cup {m}
        BY <1>2, <2>1, <2>3, <3>1 DEF Parked, Reading
      <3>4. OwnOnly(m)
        BY <1>3, <1>5, <2>1, <3>1, <3>2 DEF OwnOnly, history
      <3> QED BY <1>1, <1>4, <3>1, <3>3, <3>4
    <2> QED BY <1>9, <2>2, <2>3 DEF Read
  <1>10. CASE Cancel(m)
    <2>1. /\ UNCHANGED <<change, discovered, ring, head, count, next>>
          /\ out' = out \ {m, read[m.fd].msg} /\ read' = [read EXCEPT ![m.fd] = NoRead]
          /\ \A fd \in Fds \ {m.fd} : expect'[fd] = expect[fd]
      BY <1>3, <1>10 DEF Cancel, Take
    <2>2. read'[m.fd].msg = NoMsg /\ \A fd \in Fds \ {m.fd} : read'[fd] = read[fd]
      BY <1>2, <1>3, <2>1 DEF NoRead
    <2>3. Parked(m.fd)' = Parked(m.fd) \ {read[m.fd].msg}
      <3>1. change[m.fd] # NoMsg => change[m.fd] # read[m.fd].msg
        BY <1>2 DEF HidInv, AckedOnce
      <3> QED BY <2>1, <2>2, <3>1 DEF Parked
    <2>4. OwnOnly(m)
      BY <1>5, <2>1, <2>2 DEF OwnOnly
    <2>5. out' = (out \ ({m} \cup Parked(m.fd))) \cup Parked(m.fd)'
      <3>1. NoMsg \notin out
        BY NoMsgAssumption DEF HidInv, TypeOK
      <3>2. read[m.fd].msg = NoMsg \/ read[m.fd].msg \in Parked(m.fd)
        BY DEF Parked
      <3> QED BY <1>4, <2>1, <2>3, <3>1, <3>2
    <2> QED BY <1>1, <2>4, <2>5
  <1> QED BY <1>6, <1>7, <1>8, <1>9, <1>10
-----------------------------------------------------------------------------
\* The steps that leave the sessions alone, and the ticks.
LEMMA AckStep ==
  ASSUME HidInv, Next
  PROVE  AckedOnce'
  <1>1. TypeOK /\ AckedOnce
    BY DEF HidInv
  <1>2. /\ \A x \in out : x \in InHid \/ x \in InQueue \/ \E fd \in Fds : x \in Parked(fd)
        /\ \A fd \in Fds : Parked(fd) \subseteq out
        /\ InQueue \subseteq out /\ InHid \subseteq out
        /\ \A fd \in Fds : \A x \in Parked(fd) : x.fd = fd /\ x \notin InHid /\ x \notin InQueue
        /\ \A x \in InQueue : x \notin InHid
    BY <1>1, WhereIs
  <1>3. /\ \A i, j \in 1 .. Len(queue) : queue[i] = queue[j] => i = j
        /\ \A fd \in Fds : change[fd] # NoMsg => change[fd] # read[fd].msg
    BY <1>1 DEF AckedOnce
  <1>4. ASSUME NEW fd \in Fds, Open(fd)
        PROVE  AckedOnce'
    <2>1. UNCHANGED <<out, hid, queue, change, read>>
      BY <1>4 DEF Open, sessionVars
    <2>2. UNCHANGED <<InHid, InQueue>> /\ \A g \in Fds : Parked(g)' = Parked(g)
      BY <2>1 DEF InHid, InQueue, Dispatching, Parked
    <2> QED BY <1>2, <1>3, <2>1, <2>2, AckedNext
  <1>5. ASSUME NEW m \in Messages, Post(m)
        PROVE  AckedOnce'
    <2>1. out' = out \cup {m} /\ m \notin out /\ UNCHANGED <<queue, sessionVars>>
      BY <1>5 DEF Post
    <2>2. InHid = {} /\ InHid' = {m}
      BY <1>5, MessageFacts DEF Post, InHid, Dispatching, Idle
    <2>3. InQueue' = InQueue /\ \A fd \in Fds : Parked(fd)' = Parked(fd)
      BY <2>1 DEF InQueue, Parked, sessionVars
    <2>4. change' = change /\ read' = read
      BY <2>1 DEF sessionVars
    <2>5. \A x \in out' : x \in InHid' \/ x \in InQueue' \/ \E fd \in Fds : x \in Parked(fd)'
      BY <1>2, <2>1, <2>2, <2>3
    <2>6. /\ \A fd \in Fds : Parked(fd)' \subseteq out'
          /\ InQueue' \subseteq out' /\ InHid' \subseteq out'
          /\ \A fd \in Fds : \A x \in Parked(fd)' : x.fd = fd /\ x \notin InHid' /\ x \notin InQueue'
          /\ \A x \in InQueue' : x \notin InHid'
      BY <1>2, <2>1, <2>2, <2>3
    <2> QED BY <1>3, <2>1, <2>4, <2>5, <2>6, AckedNext
  <1>6. CASE DispatchStock \/ DispatchFails
    <2>1. out' = out \ {hid.msg} /\ hid' = Idle /\ Dispatching /\ UNCHANGED <<queue, sessionVars>>
      BY <1>6 DEF DispatchStock, DispatchFails
    <2>2. InHid = {hid.msg} /\ InHid' = {}
      BY <2>1 DEF InHid, Dispatching, Idle
    <2>3. InQueue' = InQueue /\ \A fd \in Fds : Parked(fd)' = Parked(fd)
      BY <2>1 DEF InQueue, Parked, sessionVars
    <2>4. change' = change /\ read' = read
      BY <2>1 DEF sessionVars
    <2>5. \A x \in out' : x \in InHid' \/ x \in InQueue' \/ \E fd \in Fds : x \in Parked(fd)'
      BY <1>2, <2>1, <2>2, <2>3
    <2>6. /\ \A fd \in Fds : Parked(fd)' \subseteq out'
          /\ InQueue' \subseteq out' /\ InHid' \subseteq out'
          /\ \A fd \in Fds : \A x \in Parked(fd)' : x.fd = fd /\ x \notin InHid' /\ x \notin InQueue'
          /\ \A x \in InQueue' : x \notin InHid'
      BY <1>2, <2>1, <2>2, <2>3
    <2> QED BY <1>3, <2>1, <2>4, <2>5, <2>6, AckedNext
  <1>7. CASE DispatchSend
    <2>1. PICK m \in Messages : m = hid.msg
      BY <1>1, <1>7, HidTypes DEF DispatchSend, Dispatching
    <2>2. /\ Len(queue) < QueueLen /\ queue' = Append(queue, m)
          /\ UNCHANGED <<out, sessionVars>> /\ Dispatching
      BY <1>7, <2>1 DEF DispatchSend
    <2>3. /\ InQueue' = InQueue \cup {m} /\ Len(queue') = Len(queue) + 1 /\ Len(queue) \in Nat
          /\ \A i \in 1 .. Len(queue) : queue'[i] = queue[i]
          /\ queue'[Len(queue) + 1] = m
      BY <1>1, <2>2, AppendFacts
    <2>4. InHid = {m} /\ InHid' = {}
      BY <1>1, <1>7, <2>1, <2>2 DEF DispatchSend, InHid, Dispatching, Idle, TypeOK
    <2>5. (\A fd \in Fds : Parked(fd)' = Parked(fd)) /\ change' = change /\ read' = read
      BY <2>2 DEF Parked, sessionVars
    <2>6. \A i, j \in 1 .. Len(queue') : queue'[i] = queue'[j] => i = j
      <3>1. \A i \in 1 .. Len(queue) : queue[i] # m
        BY <1>2, <2>4 DEF InQueue
      <3>2. \A i \in 1 .. Len(queue') : i \in 1 .. Len(queue) \/ i = Len(queue) + 1
        BY <2>3
      <3> QED BY <1>3, <2>3, <3>1, <3>2
    <2>7. \A x \in out' : x \in InHid' \/ x \in InQueue' \/ \E fd \in Fds : x \in Parked(fd)'
      BY <1>2, <2>2, <2>3, <2>4, <2>5
    <2>8. /\ \A fd \in Fds : Parked(fd)' \subseteq out'
          /\ InQueue' \subseteq out' /\ InHid' \subseteq out'
          /\ \A fd \in Fds : \A x \in Parked(fd)' : x.fd = fd /\ x \notin InHid' /\ x \notin InQueue'
          /\ \A x \in InQueue' : x \notin InHid'
      BY <1>2, <2>2, <2>3, <2>4, <2>5
    <2> QED BY <1>3, <2>5, <2>6, <2>7, <2>8, AckedNext
  <1>8. CASE SetRoute
    <2>1. InHid' = {} /\ InHid = {}
      BY <1>8 DEF SetRoute, InHid, Dispatching, Idle
    <2>2. UNCHANGED <<out, queue, change, read>>
      BY <1>8 DEF SetRoute, sessionVars
    <2>3. InQueue' = InQueue /\ \A fd \in Fds : Parked(fd)' = Parked(fd)
      BY <2>2 DEF InQueue, Parked
    <2> QED BY <1>2, <1>3, <2>1, <2>2, <2>3, AckedNext
  <1>9. CASE Process
    <2>1. PICK m \in Messages :
             /\ m = Head(queue) /\ queue # << >>
             /\ \/ Reset(m) \/ Close(m) \/ Discover(m) \/ Command(m) \/ Read(m) \/ Cancel(m)
                \/ Other(m)
      <3>1. queue # << >> => Head(queue) \in Messages
        BY <1>1 DEF TypeOK
      <3> QED BY <1>9, <3>1 DEF Process
    <2>2. /\ queue' = Tail(queue) /\ UNCHANGED hid /\ OwnOnly(m)
          /\ out' = (out \ ({m} \cup Parked(m.fd))) \cup Parked(m.fd)'
      BY <2>1, SessionStep
    <2> QED BY <1>1, <2>1, <2>2, ProcessAcks DEF OwnOnly
  <1>10. CASE Tick
    <2>1. /\ UNCHANGED <<hid, queue, change>>
          /\ out' = out \ {read[fd].msg : fd \in {f \in Fds : Due(f)}}
      BY <1>10 DEF Tick
    <2>2. ASSUME NEW fd \in Fds
          PROVE  /\ Due(fd) => read[fd].msg # NoMsg /\ read'[fd].msg = NoMsg
                 /\ ~Due(fd) => read'[fd].msg = read[fd].msg
      BY <1>1, <1>10 DEF Tick, Due, Reading, NoRead, TypeOK
    <2>3. InHid' = InHid /\ InQueue' = InQueue
      BY <2>1 DEF InHid, InQueue, Dispatching
    <2>4. ASSUME NEW fd \in Fds
          PROVE  Parked(fd)' = IF Due(fd) THEN Parked(fd) \ {read[fd].msg} ELSE Parked(fd)
      BY <1>3, <2>1, <2>2 DEF Parked
    <2>5. \A fd \in Fds : Due(fd) => read[fd].msg \in Parked(fd)
      BY <2>2 DEF Parked
    <2>6. ASSUME NEW x \in out'
          PROVE  x \in InHid' \/ x \in InQueue' \/ \E fd \in Fds : x \in Parked(fd)'
      <3>1. x \in out /\ \A fd \in Fds : Due(fd) => x # read[fd].msg
        BY <2>1, <2>6
      <3> QED BY <1>2, <2>3, <2>4, <3>1
    <2>7. \A fd \in Fds : Parked(fd)' \subseteq out'
      <3>1. SUFFICES ASSUME NEW fd \in Fds, NEW x \in Parked(fd)'
                     PROVE  x \in out /\ \A g \in Fds : Due(g) => x # read[g].msg
        BY <2>1
      <3>2. x \in Parked(fd) /\ x.fd = fd
        BY <1>2, <2>4
      <3>3. ASSUME NEW g \in Fds, Due(g) PROVE x # read[g].msg
        <4>1. CASE g = fd
          BY <2>4, <3>3, <4>1
        <4>2. CASE g # fd
          BY <1>2, <2>5, <3>2, <3>3, <4>2
        <4> QED BY <4>1, <4>2
      <3> QED BY <1>2, <3>2, <3>3
    <2>8. InQueue' \subseteq out' /\ InHid' \subseteq out'
      <3>1. \A fd \in Fds : Due(fd) => read[fd].msg \notin InQueue /\ read[fd].msg \notin InHid
        BY <1>2, <2>5
      <3> QED BY <1>2, <2>1, <2>3, <3>1
    <2>9. \A fd \in Fds : \A x \in Parked(fd)' : x.fd = fd /\ x \notin InHid' /\ x \notin InQueue'
      BY <1>2, <2>3, <2>4
    <2>10. \A fd \in Fds : change'[fd] # NoMsg => change'[fd] # read'[fd].msg
      BY <1>3, <2>1, <2>2
    <2>11. /\ \A x \in InQueue' : x \notin InHid'
           /\ \A i, j \in 1 .. Len(queue') : queue'[i] = queue'[j] => i = j
      BY <1>2, <1>3, <2>1, <2>3
    <2> QED BY <2>6, <2>7, <2>8, <2>9, <2>10, <2>11, AckedNext
  <1> QED BY <1>4, <1>5, <1>6, <1>7, <1>8, <1>9, <1>10 DEF Next, Hid
-----------------------------------------------------------------------------
\* A read of a session.
Reads == [msg : Messages \cup {NoMsg}, reply : Nums \cup {Status}, due : 0..ReplyTicks]

LEMMA Arithmetic ==
    /\ NumMod \in Nat \ {0} /\ Fifo \in Nat \ {0} /\ NumMod > Fifo + 1
    /\ ReplyTicks \in Nat \ {0} /\ QueueLen \in Nat
    /\ \A n \in Nums : Succ(n) \in Nums
    /\ \A h \in Cells, c \in 0..Fifo : (h + c) % Fifo \in Cells
    /\ 0 \in Nums /\ 0 \in Cells /\ 0 \in 0..Fifo
    /\ NoRead \in Reads
    /\ \A m \in Messages, n \in Nums : [msg |-> m, due |-> ReplyTicks, reply |-> n] \in Reads
    /\ \A m \in Messages : [msg |-> m, due |-> 1, reply |-> Status] \in Reads
  <1>1. /\ NumMod \in Nat \ {0} /\ Fifo \in Nat \ {0} /\ NumMod > Fifo + 1
        /\ ReplyTicks \in Nat \ {0} /\ QueueLen \in Nat
    BY HidAssumption
  <1>2. \A n \in Nums : Succ(n) \in Nums
    BY <1>1 DEF Nums, Succ
  <1>3. \A h \in Cells, c \in 0..Fifo : (h + c) % Fifo \in Cells
    BY <1>1 DEF Cells
  <1>4. 0 \in Nums /\ 0 \in Cells /\ 0 \in 0..Fifo
    BY <1>1 DEF Nums, Cells
  <1>5. NoRead \in Reads
    BY <1>1 DEF NoRead, Reads
  <1>6. \A m \in Messages, n \in Nums : [msg |-> m, due |-> ReplyTicks, reply |-> n] \in Reads
    BY <1>1 DEF Reads
  <1>7. \A m \in Messages : [msg |-> m, due |-> 1, reply |-> Status] \in Reads
    BY <1>1 DEF Reads
  <1> QED BY <1>1, <1>2, <1>3, <1>4, <1>5, <1>6, <1>7

\* The oldest message of the queue, and the way v4_process takes.
ProcessOne(m) ==
    /\ m = Head(queue) /\ queue # << >>
    /\ Reset(m) \/ Close(m) \/ Discover(m) \/ Command(m) \/ Read(m) \/ Cancel(m) \/ Other(m)

LEMMA OneMessage ==
  ASSUME TypeOK, Process
  PROVE  \E m \in Messages : ProcessOne(m)
  <1>1. queue # << >> => Head(queue) \in Messages
    BY DEF TypeOK
  <1> QED BY <1>1 DEF Process, ProcessOne

\* The type invariant, of the sessions and of the rest.
SessionTypeOK ==
    /\ discovered \in [Fds -> BOOLEAN] /\ change \in [Fds -> Messages \cup {NoMsg}]
    /\ read \in [Fds -> Reads]
    /\ ring \in [Fds -> [Cells -> Nums]]
    /\ head \in [Fds -> Cells] /\ count \in [Fds -> 0..Fifo]
    /\ next \in [Fds -> Nums] /\ expect \in [Fds -> Nums]

QueueTypeOK ==
    /\ conn \in [Fds -> {"closed", "open", "closing"}]
    /\ out \subseteq Messages
    /\ hid \in [msg : Messages \cup {NoMsg}, sent : BOOLEAN]
    /\ route \in [Fds -> BOOLEAN]
    /\ queue \in Seq(Messages) /\ Len(queue) <= QueueLen

LEMMA TypeParts == (TypeOK <=> QueueTypeOK /\ SessionTypeOK) /\ (TypeOK' <=> QueueTypeOK' /\ SessionTypeOK')
  BY DEF TypeOK, QueueTypeOK, SessionTypeOK, Reads

LEMMA Updated ==
  ASSUME NEW S, NEW f \in [Fds -> S], NEW fd \in Fds, NEW v \in S
  PROVE  [f EXCEPT ![fd] = v] \in [Fds -> S]
  OBVIOUS

\* A step of v4_process leaves a session of the right type.
LEMMA SessionTypes ==
  ASSUME SessionTypeOK, NEW m \in Messages, ProcessOne(m)
  PROVE  SessionTypeOK'
  <1>1. m.fd \in Fds
    BY MessageFacts
  <1>2. /\ discovered \in [Fds -> BOOLEAN] /\ change \in [Fds -> Messages \cup {NoMsg}]
        /\ read \in [Fds -> Reads] /\ ring \in [Fds -> [Cells -> Nums]]
        /\ head \in [Fds -> Cells] /\ count \in [Fds -> 0..Fifo]
        /\ next \in [Fds -> Nums] /\ expect \in [Fds -> Nums]
    BY DEF SessionTypeOK
  <1>3. CASE Reset(m) \/ Close(m)
    <2>1. /\ read' = [read EXCEPT ![m.fd] = NoRead] /\ change' = [change EXCEPT ![m.fd] = NoMsg]
          /\ head' = [head EXCEPT ![m.fd] = 0] /\ count' = [count EXCEPT ![m.fd] = 0]
          /\ discovered' = [discovered EXCEPT ![m.fd] = FALSE]
          /\ expect' = [expect EXCEPT ![m.fd] = next[m.fd]] /\ next' = next
      BY <1>3 DEF Reset, Close, CancelSession
    <2>2. ring' \in [Fds -> [Cells -> Nums]]
      <3>1. [c \in Cells |-> 0] \in [Cells -> Nums]
        BY Arithmetic
      <3>2. ring' = [ring EXCEPT ![m.fd] = [c \in Cells |-> 0]] \/ ring' = ring
        BY <1>3 DEF Reset, Close
      <3> QED BY <1>1, <1>2, <3>1, <3>2
    <2>3. read' \in [Fds -> Reads]
      BY <1>1, <1>2, <2>1, Arithmetic
    <2>4. head' \in [Fds -> Cells] /\ count' \in [Fds -> 0..Fifo]
      BY <1>1, <1>2, <2>1, Arithmetic
    <2>5. change' \in [Fds -> Messages \cup {NoMsg}] /\ discovered' \in [Fds -> BOOLEAN]
      BY <1>1, <1>2, <2>1
    <2>6. next' \in [Fds -> Nums] /\ expect' \in [Fds -> Nums]
      <3>1. next[m.fd] \in Nums
        BY <1>1, <1>2
      <3> QED BY <1>1, <1>2, <2>1, <3>1, Updated
    <2> QED BY <2>2, <2>3, <2>4, <2>5, <2>6 DEF SessionTypeOK
  <1>4. CASE Discover(m)
    <2>1. read' = read /\ ring' = ring /\ head' = head /\ count' = count /\ next' = next /\ expect' = expect
      BY <1>4 DEF Discover, history
    <2>2. change' = change \/ change' = [change EXCEPT ![m.fd] = m]
      BY <1>4 DEF Discover
    <2>3. discovered' = discovered \/ discovered' = [discovered EXCEPT ![m.fd] = TRUE]
      BY <1>4 DEF Discover
    <2>4. change' \in [Fds -> Messages \cup {NoMsg}] /\ discovered' \in [Fds -> BOOLEAN]
      BY <1>1, <1>2, <2>2, <2>3
    <2> QED BY <1>2, <2>1, <2>4 DEF SessionTypeOK
  <1>5. CASE Command(m)
    <2>1. /\ discovered' = discovered /\ change' = change /\ read' = read
          /\ head' = head /\ expect' = expect
      BY <1>5 DEF Command
    <2>2. CASE count[m.fd] = Fifo
      <3>1. ring' = ring /\ count' = count /\ next' = next
        BY <1>5, <2>2 DEF Command
      <3> QED BY <1>2, <2>1, <3>1 DEF SessionTypeOK
    <2>3. CASE count[m.fd] # Fifo
      <3> DEFINE c == (head[m.fd] + count[m.fd]) % Fifo
      <3>1. /\ ring' = [ring EXCEPT ![m.fd] = [ring[m.fd] EXCEPT ![c] = next[m.fd]]]
            /\ count' = [count EXCEPT ![m.fd] = count[m.fd] + 1]
            /\ next' = [next EXCEPT ![m.fd] = Succ(next[m.fd])]
        BY <1>1, <1>2, <1>5, <2>3 DEF Command
      <3>2. count[m.fd] + 1 \in 0..Fifo
        <4>1. count[m.fd] \in 0..Fifo /\ Fifo \in Nat
          BY <1>1, <1>2, HidAssumption
        <4> QED BY <2>3, <4>1
      <3>3. Succ(next[m.fd]) \in Nums /\ next[m.fd] \in Nums
        BY <1>1, <1>2, Arithmetic
      <3>4. [ring[m.fd] EXCEPT ![c] = next[m.fd]] \in [Cells -> Nums]
        <4>1. ring[m.fd] \in [Cells -> Nums]
          BY <1>1, <1>2
        <4> HIDE DEF c
        <4> QED BY <3>3, <4>1
      <3>5. count' \in [Fds -> 0..Fifo]
        BY <1>1, <1>2, <3>1, <3>2, Updated
      <3>6. next' \in [Fds -> Nums]
        BY <1>1, <1>2, <3>1, <3>3, Updated
      <3>7. ring' \in [Fds -> [Cells -> Nums]]
        BY <1>1, <1>2, <3>1, <3>4, Updated
      <3> QED BY <1>2, <2>1, <3>5, <3>6, <3>7 DEF SessionTypeOK
    <2> QED BY <2>2, <2>3
  <1>6. CASE Read(m)
    <2>1. /\ discovered' = discovered /\ change' = change /\ ring' = ring
          /\ next' = next /\ expect' = expect
      BY <1>6 DEF Read, history
    <2>2. CASE read' = read /\ head' = head /\ count' = count
      BY <1>2, <2>1, <2>2 DEF SessionTypeOK
    <2>3. CASE /\ count[m.fd] > 0
               /\ read' = [read EXCEPT ![m.fd] = [msg |-> m, due |-> ReplyTicks,
                                                  reply |-> ring[m.fd][head[m.fd]]]]
               /\ head' = [head EXCEPT ![m.fd] = (@ + 1) % Fifo]
               /\ count' = [count EXCEPT ![m.fd] = @ - 1]
      <3>1. head[m.fd] \in Cells /\ count[m.fd] \in 0..Fifo /\ ring[m.fd] \in [Cells -> Nums]
        BY <1>1, <1>2
      <3>2. ring[m.fd][head[m.fd]] \in Nums
        BY <3>1
      <3>3. (head[m.fd] + 1) % Fifo \in Cells /\ count[m.fd] - 1 \in 0..Fifo
        <4>1. Fifo \in Nat \ {0}
          BY HidAssumption
        <4>2. count[m.fd] - 1 \in 0..Fifo
          BY <2>3, <3>1, <4>1
        <4>3. 1 \in 0..Fifo
          BY <4>1
        <4> QED BY <3>1, <4>2, <4>3, Arithmetic
      <3>4. read' \in [Fds -> Reads]
        BY <1>1, <1>2, <2>3, <3>2, Arithmetic, Updated
      <3>5. head' \in [Fds -> Cells]
        BY <1>1, <1>2, <2>3, <3>3, Updated
      <3>6. count' \in [Fds -> 0..Fifo]
        BY <1>1, <1>2, <2>3, <3>3, Updated
      <3> QED BY <1>2, <2>1, <3>4, <3>5, <3>6 DEF SessionTypeOK
    <2>4. CASE /\ read' = [read EXCEPT ![m.fd] = [msg |-> m, due |-> 1, reply |-> Status]]
               /\ head' = head /\ count' = count
      <3>1. read' \in [Fds -> Reads]
        BY <1>1, <1>2, <2>4, Arithmetic, Updated
      <3> QED BY <1>2, <2>1, <2>4, <3>1 DEF SessionTypeOK
    <2> QED BY <1>6, <2>2, <2>3, <2>4 DEF Read
  <1>7. CASE Cancel(m)
    <2>1. /\ discovered' = discovered /\ change' = change /\ ring' = ring /\ head' = head
          /\ count' = count /\ next' = next
          /\ read' = [read EXCEPT ![m.fd] = NoRead]
      BY <1>7 DEF Cancel
    <2>2. expect' = expect \/ expect' = [expect EXCEPT ![m.fd] = Succ(expect[m.fd])]
      BY <1>1, <1>2, <1>7 DEF Cancel
    <2>3. expect' \in [Fds -> Nums]
      <3>1. Succ(expect[m.fd]) \in Nums
        BY <1>1, <1>2, Arithmetic
      <3> QED BY <1>1, <1>2, <2>2, <3>1, Updated
    <2>4. read' \in [Fds -> Reads]
      BY <1>1, <1>2, <2>1, Arithmetic, Updated
    <2> QED BY <1>2, <2>1, <2>3, <2>4 DEF SessionTypeOK
  <1>8. CASE Other(m)
    BY <1>8 DEF Other, sessionVars, history, SessionTypeOK
  <1> QED BY <1>3, <1>4, <1>5, <1>6, <1>7, <1>8 DEF ProcessOne

LEMMA TypeStep ==
  ASSUME HidInv, Next
  PROVE  TypeOK'
  <1>1. TypeOK /\ AckedOnce /\ QueueTypeOK /\ SessionTypeOK
    BY TypeParts DEF HidInv
  <1>2. SUFFICES QueueTypeOK' /\ SessionTypeOK'
    BY TypeParts
  <1>3. ASSUME UNCHANGED <<sessionVars, history>> PROVE SessionTypeOK'
    BY <1>1, <1>3 DEF sessionVars, history, SessionTypeOK
  <1>4. ASSUME NEW fd \in Fds, Open(fd)
        PROVE  QueueTypeOK' /\ SessionTypeOK'
    BY <1>1, <1>3, <1>4 DEF Open, QueueTypeOK
  <1>5. ASSUME NEW m \in Messages, Post(m)
        PROVE  QueueTypeOK' /\ SessionTypeOK'
    <2>1. conn' \in [Fds -> {"closed", "open", "closing"}]
      BY <1>1, <1>5 DEF Post, QueueTypeOK
    <2> QED BY <1>1, <1>3, <1>5, <2>1 DEF Post, QueueTypeOK
  <1>6. CASE DispatchStock \/ DispatchFails
    <2>1. conn' \in [Fds -> {"closed", "open", "closing"}]
      BY <1>1, <1>6 DEF DispatchStock, DispatchFails, QueueTypeOK
    <2>2. /\ out' = out \ {hid.msg} /\ hid' = Idle
          /\ UNCHANGED <<route, queue, sessionVars, history>>
      BY <1>6 DEF DispatchStock, DispatchFails
    <2> QED BY <1>1, <1>3, <2>1, <2>2 DEF Idle, QueueTypeOK
  <1>7. CASE DispatchSend
    <2>1. PICK m \in Messages : m = hid.msg
      BY <1>1, <1>7, HidTypes DEF DispatchSend, Dispatching
    <2>2. Len(queue) < QueueLen /\ queue' = Append(queue, m)
      BY <1>7, <2>1 DEF DispatchSend
    <2>3. queue' \in Seq(Messages) /\ Len(queue') <= QueueLen
      BY <1>1, <2>2, AppendFacts
    <2>4. UNCHANGED <<conn, out, route, sessionVars, history>>
      BY <1>7 DEF DispatchSend
    <2>5. hid' \in [msg : Messages \cup {NoMsg}, sent : BOOLEAN]
      BY <1>1, <1>7 DEF DispatchSend, Idle, QueueTypeOK
    <2> QED BY <1>1, <1>3, <2>3, <2>4, <2>5 DEF QueueTypeOK
  <1>8. CASE SetRoute
    BY <1>1, <1>3, <1>8 DEF SetRoute, Idle, QueueTypeOK
  <1>9. CASE Process
    <2>1. PICK m \in Messages : ProcessOne(m)
      BY <1>1, <1>9, OneMessage
    <2>2. /\ queue' = Tail(queue) /\ UNCHANGED hid
          /\ out' = (out \ ({m} \cup Parked(m.fd))) \cup Parked(m.fd)'
      BY <2>1, SessionStep DEF ProcessOne
    <2>3. queue' \in Seq(Messages) /\ Len(queue') <= QueueLen
      BY <1>1, <2>1, <2>2, TakeQueue DEF ProcessOne
    <2>4. m.fd \in Fds
      BY MessageFacts
    <2>5. SessionTypeOK'
      BY <1>1, <2>1, SessionTypes
    <2>6. Parked(m.fd)' \subseteq Messages
      BY <2>4, <2>5 DEF Parked, SessionTypeOK, Reads
    <2>7. out' \subseteq Messages
      BY <1>1, <2>2, <2>6 DEF QueueTypeOK
    <2>8. conn' = conn \/ conn' = [conn EXCEPT ![m.fd] = "closed"]
      BY <2>1 DEF ProcessOne, Reset, Close, Discover, Command, Read, Cancel, Other
    <2>9. route' = route \/ route' = [route EXCEPT ![m.fd] = FALSE]
      BY <2>1 DEF ProcessOne, Reset, Close, Discover, Command, Read, Cancel, Other
    <2>10. conn' \in [Fds -> {"closed", "open", "closing"}] /\ route' \in [Fds -> BOOLEAN]
      BY <1>1, <2>4, <2>8, <2>9 DEF QueueTypeOK
    <2> QED BY <1>1, <2>2, <2>3, <2>5, <2>7, <2>10 DEF QueueTypeOK
  <1>10. CASE Tick
    <2>1. /\ UNCHANGED <<conn, hid, route, queue, discovered, change, ring, head, count, next>>
          /\ out' \subseteq out
      BY <1>10 DEF Tick
    <2>2. read' \in [Fds -> Reads]
      <3>1. ASSUME NEW fd \in Fds, Reading(fd)
            PROVE  [read[fd] EXCEPT !.due = @ - 1] \in Reads
        <4>1. read[fd] \in Reads /\ read[fd].due > 0
          BY <1>1, <3>1 DEF HidInv, Waits, SessionTypeOK
        <4>2. read[fd].due \in 0..ReplyTicks
          BY <4>1 DEF Reads
        <4>3. ReplyTicks \in Nat
          BY HidAssumption
        <4>4. read[fd].due - 1 \in 0..ReplyTicks
          BY <4>1, <4>2, <4>3
        <4> QED BY <4>1, <4>4 DEF Reads
      <3>2. \A fd \in Fds : read[fd] \in Reads
        BY <1>1 DEF SessionTypeOK
      <3> QED BY <1>10, <3>1, <3>2, Arithmetic DEF Tick
    <2>3. expect' \in [Fds -> Nums]
      <3>1. \A fd \in Fds : expect[fd] \in Nums /\ Succ(expect[fd]) \in Nums
        BY <1>1, Arithmetic DEF SessionTypeOK
      <3> QED BY <1>10, <3>1 DEF Tick
    <2> QED BY <1>1, <2>1, <2>2, <2>3 DEF QueueTypeOK, SessionTypeOK
  <1> QED BY <1>4, <1>5, <1>6, <1>7, <1>8, <1>9, <1>10 DEF Next, Hid
-----------------------------------------------------------------------------
\* A session whose variables, and whose messages in the queue, do not change
\* stays clean.
LEMMA StaysClean ==
  ASSUME NEW fd \in Fds, Clean(fd), discovered'[fd] = discovered[fd],
         Parked(fd)' \subseteq Parked(fd), count'[fd] = count[fd],
         \A i \in 1 .. Len(queue') : queue'[i].fd = fd =>
             \E j \in 1 .. Len(queue) : queue[j].fd = fd
  PROVE  Clean(fd)'
  BY DEF Clean

LEMMA CloseStep ==
  ASSUME HidInv, Next
  PROVE  CloseInv'
  <1>1. TypeOK /\ AckedOnce /\ CloseHeld /\ UnroutedClean /\ ClosedGone /\ CloseLast
    BY DEF HidInv, CloseInv
  <1>2. /\ conn \in [Fds -> {"closed", "open", "closing"}] /\ route \in [Fds -> BOOLEAN]
        /\ hid \in [msg : Messages \cup {NoMsg}, sent : BOOLEAN]
        /\ \A i \in 1 .. Len(queue) : queue[i] \in Messages /\ queue[i].fd \in Fds
        /\ Len(queue) \in Nat
    BY <1>1, HidTypes, MessageFacts DEF TypeOK
  <1>3. ASSUME NEW fd \in Fds, Open(fd)
        PROVE  CloseInv'
    <2>1. /\ conn[fd] = "closed" /\ conn' = [conn EXCEPT ![fd] = "open"]
          /\ UNCHANGED <<hid, route, queue, discovered, change, read, count>>
      BY <1>3 DEF Open, sessionVars
    <2>2. \A d \in Fds : Holds(d)' = Holds(d) /\ Clean(d)' = Clean(d)
      BY <2>1 DEF Holds, Clean, Parked
    <2>3. CloseHeld'
      <3>1. hid.msg # NoMsg => hid.msg.fd \in Fds
        BY <1>2, MessageFacts
      <3> QED BY <1>1, <1>2, <2>1, <3>1 DEF CloseHeld
    <2>4. UnroutedClean' /\ ClosedGone'
      BY <1>1, <1>2, <2>1, <2>2 DEF UnroutedClean, ClosedGone
    <2>5. CloseLast'
      BY <1>1, <1>2, <2>1, <2>2 DEF CloseLast
    <2> QED BY <2>3, <2>4, <2>5 DEF CloseInv
  <1>4. ASSUME NEW m \in Messages, Post(m)
        PROVE  CloseInv'
    <2>1. /\ conn[m.fd] = "open" /\ hid = Idle /\ hid' = [msg |-> m, sent |-> FALSE]
          /\ conn' = IF m.kind = "close" THEN [conn EXCEPT ![m.fd] = "closing"] ELSE conn
          /\ UNCHANGED <<route, queue, discovered, change, read, count>>
      BY <1>4 DEF Post, sessionVars
    <2>2. m.fd \in Fds /\ m # NoMsg
      BY MessageFacts
    <2>3. /\ \A d \in Fds : Clean(d)' = Clean(d) /\ ~Holds(d)
          /\ \A d \in Fds : Holds(d)' => d = m.fd
      BY <2>1 DEF Holds, Clean, Parked, Idle
    <2>4. hid'.msg = m /\ hid'.sent = FALSE
      BY <2>1
    <2>5. CloseHeld'
      BY <1>2, <2>1, <2>2, <2>4 DEF CloseHeld
    <2>6. UnroutedClean'
      BY <1>1, <2>1, <2>3 DEF UnroutedClean
    <2>7. ClosedGone'
      BY <1>1, <1>2, <2>1, <2>2, <2>3 DEF ClosedGone
    <2>8. CloseLast'
      BY <1>1, <1>2, <2>1, <2>2, <2>3 DEF CloseLast
    <2> QED BY <2>5, <2>6, <2>7, <2>8 DEF CloseInv
  <1>5. CASE DispatchStock \/ DispatchFails
    <2>1. /\ Dispatching /\ hid' = Idle
          /\ UNCHANGED <<route, queue, discovered, change, read, count>>
      BY <1>5 DEF DispatchStock, DispatchFails, sessionVars
    <2>2. /\ \A d \in Fds : Clean(d)' = Clean(d) /\ ~Holds(d)'
          /\ hid.msg # NoMsg /\ ~hid.sent /\ hid'.sent = FALSE /\ hid'.msg = NoMsg
      BY <2>1 DEF Holds, Clean, Parked, Idle, Dispatching
    <2>3. \/ conn' = conn
          \/ /\ hid.msg.kind = "close" /\ ~route[hid.msg.fd]
             /\ conn' = [conn EXCEPT ![hid.msg.fd] = "closed"]
      BY <1>5 DEF DispatchStock, DispatchFails, Mine
    <2>4. hid.msg.fd \in Fds
      BY <1>2, <2>2, MessageFacts
    <2>5. CloseHeld'
      BY <2>2 DEF CloseHeld
    <2>6. UnroutedClean'
      BY <1>1, <2>1, <2>2 DEF UnroutedClean
    <2>7. ClosedGone'
      BY <1>1, <1>2, <2>1, <2>2, <2>3, <2>4 DEF ClosedGone
    <2>8. CloseLast'
      <3>1. \A i \in 1 .. Len(queue) : queue[i].kind = "close" => queue[i].fd # hid.msg.fd
        BY <1>1, <2>2 DEF CloseLast, Holds
      <3> QED BY <1>1, <1>2, <2>1, <2>2, <2>3, <2>4, <3>1 DEF CloseLast
    <2> QED BY <2>5, <2>6, <2>7, <2>8 DEF CloseInv
  <1>6. CASE DispatchSend
    <2>1. PICK m \in Messages : m = hid.msg
      BY <1>1, <1>6, HidTypes DEF DispatchSend, Dispatching
    <2>2. /\ Len(queue) < QueueLen /\ queue' = Append(queue, m) /\ Mine(m)
          /\ UNCHANGED <<conn, route, discovered, change, read, count>> /\ Dispatching
      BY <1>6, <2>1 DEF DispatchSend, sessionVars
    <2>3. /\ m.fd \in Fds /\ m # NoMsg /\ Holds(m.fd) /\ ~hid.sent
          /\ \A d \in Fds : Holds(d) => d = m.fd
      BY <2>1, <2>2, MessageFacts DEF Holds, Dispatching
    <2>4. /\ Len(queue') = Len(queue) + 1 /\ queue'[Len(queue) + 1] = m
          /\ \A i \in 1 .. Len(queue) : queue'[i] = queue[i]
      BY <1>1, <2>2, AppendFacts
    <2>5. \A i \in 1 .. Len(queue') : i \in 1 .. Len(queue) \/ i = Len(queue) + 1
      BY <1>2, <2>4
    <2>6. \/ m.kind = "close" /\ hid'.sent = FALSE /\ hid'.msg = NoMsg
          \/ m.kind # "close" /\ hid'.sent = TRUE /\ hid'.msg = m
      BY <1>2, <1>6, <2>1 DEF DispatchSend, Idle
    <2>7. CloseHeld'
      BY <2>3, <2>6 DEF CloseHeld
    <2>8. UnroutedClean'
      <3>1. SUFFICES ASSUME NEW d \in Fds, ~route[d], ~(hid'.sent /\ Holds(d)')
                     PROVE  Clean(d)'
        BY <2>2 DEF UnroutedClean
      <3>2. d # m.fd
        BY <2>2, <2>3, <2>6, <3>1 DEF Mine, Holds
      <3>3. Clean(d)
        BY <1>1, <2>3, <3>1 DEF UnroutedClean
      <3>4. Parked(d)' = Parked(d)
        BY <2>2 DEF Parked
      <3> QED BY <2>2, <2>4, <2>5, <3>2, <3>3, <3>4, StaysClean
    <2>9. ClosedGone'
      <3>1. \A d \in Fds : Holds(d)' => Holds(d)
        BY <2>1, <2>6 DEF Holds
      <3> QED BY <1>1, <2>2, <3>1 DEF ClosedGone
    <2>10. CloseLast'
      <3>1. \A i \in 1 .. Len(queue) : queue[i].kind = "close" => queue[i].fd # m.fd
        BY <1>1, <2>3 DEF CloseLast
      <3>2. m.kind = "close" => conn[m.fd] = "closing" /\ ~Holds(m.fd)'
        BY <1>1, <2>1, <2>3, <2>6 DEF CloseHeld, Holds
      <3>4. SUFFICES ASSUME NEW i \in 1 .. Len(queue'), queue'[i].kind = "close"
                     PROVE  /\ conn[queue'[i].fd] = "closing"
                            /\ hid'.msg # NoMsg => hid'.msg.fd # queue'[i].fd
                            /\ \A j \in 1 .. Len(queue') : i < j => queue'[j].fd # queue'[i].fd
        BY <2>2 DEF CloseLast, Holds
      <3>5. CASE i = Len(queue) + 1
        <4>1. queue'[i] = m /\ m.kind = "close"
          BY <2>4, <3>4, <3>5
        <4>2. \A j \in 1 .. Len(queue') : ~(i < j)
          BY <1>2, <2>4, <3>5
        <4> QED BY <3>2, <4>1, <4>2 DEF Holds
      <3>6. CASE i \in 1 .. Len(queue)
        <4>1. queue'[i] = queue[i] /\ queue[i].kind = "close" /\ queue[i].fd # m.fd /\ queue[i].fd \in Fds
          BY <1>2, <2>4, <3>1, <3>4, <3>6
        <4>2. conn[queue[i].fd] = "closing" /\ (hid'.msg # NoMsg => hid'.msg.fd # queue[i].fd)
          BY <1>1, <2>6, <3>6, <4>1 DEF CloseLast
        <4>3. \A j \in 1 .. Len(queue') : i < j => queue'[j].fd # queue[i].fd
          BY <1>1, <2>4, <2>5, <3>6, <4>1 DEF CloseLast
        <4> QED BY <4>1, <4>2, <4>3
      <3> QED BY <2>5, <3>5, <3>6
    <2> QED BY <2>7, <2>8, <2>9, <2>10 DEF CloseInv
  <1>7. CASE SetRoute
    <2>1. /\ hid.sent /\ hid' = Idle /\ route' = [route EXCEPT ![hid.msg.fd] = TRUE]
          /\ UNCHANGED <<conn, queue, discovered, change, read, count>>
      BY <1>7 DEF SetRoute, sessionVars
    <2>2. hid.msg # NoMsg /\ hid.msg.fd \in Fds /\ Holds(hid.msg.fd)
      BY <1>1, <1>2, <2>1, MessageFacts DEF CloseHeld, Holds
    <2>3. \A d \in Fds : Clean(d)' = Clean(d) /\ ~Holds(d)'
      BY <2>1 DEF Holds, Clean, Parked, Idle
    <2>4. CloseHeld'
      BY <2>1 DEF CloseHeld, Idle
    <2>5. UnroutedClean'
      <3>1. \A d \in Fds : ~route'[d] => ~route[d] /\ ~Holds(d)
        BY <1>2, <2>1, <2>2 DEF Holds
      <3> QED BY <1>1, <2>3, <3>1 DEF UnroutedClean
    <2>6. ClosedGone'
      BY <1>1, <1>2, <2>1, <2>2, <2>3 DEF ClosedGone
    <2>7. CloseLast'
      BY <1>1, <1>2, <2>1, <2>3 DEF CloseLast
    <2> QED BY <2>4, <2>5, <2>6, <2>7 DEF CloseInv
  <1>8. CASE Process
    <2>1. PICK m \in Messages : ProcessOne(m)
      BY <1>1, <1>8, OneMessage
    <2>2. queue' = Tail(queue) /\ UNCHANGED hid /\ OwnOnly(m) /\ m = Head(queue) /\ queue # << >>
      BY <2>1, SessionStep DEF ProcessOne
    <2>3. /\ m = queue[1] /\ 1 \in 1 .. Len(queue) /\ Len(queue') = Len(queue) - 1
          /\ \A i \in 1 .. Len(queue') : i + 1 \in 1 .. Len(queue) /\ queue'[i] = queue[i + 1]
      BY <1>1, <1>2, <2>2, TakeQueue
    <2>4. m.fd \in Fds /\ \A d \in Fds : Holds(d)' = Holds(d)
      BY <2>2, MessageFacts DEF Holds
    <2>5. CASE conn' = conn /\ route' = route
      <3>1. CloseHeld' /\ ClosedGone'
        BY <1>1, <2>2, <2>4, <2>5 DEF CloseHeld, ClosedGone
      <3>2. UnroutedClean'
        <4>1. SUFFICES ASSUME NEW d \in Fds, ~route[d], ~(hid.sent /\ Holds(d))
                       PROVE  Clean(d)'
          BY <2>2, <2>4, <2>5 DEF UnroutedClean
        <4>2. Clean(d)
          BY <1>1, <4>1 DEF UnroutedClean
        <4>3. d # m.fd
          BY <2>3, <4>2 DEF Clean
        <4>4. discovered'[d] = discovered[d] /\ Parked(d)' = Parked(d) /\ count'[d] = count[d]
          BY <2>2, <4>3 DEF OwnOnly, Parked
        <4> QED BY <2>3, <4>2, <4>4, StaysClean
      <3>3. CloseLast'
        <4>1. SUFFICES ASSUME NEW i \in 1 .. Len(queue'), queue'[i].kind = "close"
                       PROVE  /\ conn[queue'[i].fd] = "closing" /\ ~Holds(queue'[i].fd)
                              /\ \A j \in 1 .. Len(queue') : i < j => queue'[j].fd # queue'[i].fd
          BY <2>2, <2>5 DEF CloseLast, Holds
        <4>2. i + 1 \in 1 .. Len(queue) /\ queue'[i] = queue[i + 1]
          BY <2>3
        <4>3. ASSUME NEW j \in 1 .. Len(queue'), i < j
              PROVE  queue'[j].fd # queue'[i].fd
          <5>1. j + 1 \in 1 .. Len(queue) /\ queue'[j] = queue[j + 1] /\ i + 1 < j + 1
            BY <2>3, <4>3
          <5> QED BY <1>1, <4>1, <4>2, <5>1 DEF CloseLast
        <4> QED BY <1>1, <4>1, <4>2, <4>3 DEF CloseLast
      <3> QED BY <3>1, <3>2, <3>3 DEF CloseInv
    <2>6. CASE Close(m)
      <3>1. /\ m.kind = "close" /\ conn' = [conn EXCEPT ![m.fd] = "closed"]
            /\ route' = [route EXCEPT ![m.fd] = FALSE] /\ CancelSession(m.fd)
        BY <2>6 DEF Close, Take
      <3>2. /\ conn[m.fd] = "closing" /\ ~Holds(m.fd)
            /\ \A j \in 1 .. Len(queue) : 1 < j => queue[j].fd # m.fd
        BY <1>1, <2>3, <3>1 DEF CloseLast
      <3>3. \A i \in 1 .. Len(queue') : queue'[i].fd # m.fd
        BY <2>3, <3>2
      <3>4. CloseHeld'
        <4>1. hid.msg # NoMsg => hid.msg.fd # m.fd
          BY <3>2 DEF Holds
        <4> QED BY <1>1, <1>2, <2>2, <3>1, <4>1 DEF CloseHeld
      <3>5. ClosedGone'
        BY <1>1, <1>2, <2>4, <3>1, <3>2 DEF ClosedGone
      <3>6. Clean(m.fd)'
        <4>1. discovered'[m.fd] = FALSE /\ change'[m.fd] = NoMsg /\ count'[m.fd] = 0 /\ read'[m.fd] = NoRead
          BY <1>1, <2>4, <3>1 DEF CancelSession, TypeOK
        <4>2. Parked(m.fd)' = {}
          BY <4>1 DEF Parked, NoRead
        <4> QED BY <3>3, <4>1, <4>2 DEF Clean
      <3>7. UnroutedClean'
        <4>1. SUFFICES ASSUME NEW d \in Fds, d # m.fd, ~route[d], ~(hid.sent /\ Holds(d))
                       PROVE  Clean(d)'
          BY <1>2, <2>2, <2>4, <3>1, <3>6 DEF UnroutedClean
        <4>2. Clean(d)
          BY <1>1, <4>1 DEF UnroutedClean
        <4>3. discovered'[d] = discovered[d] /\ Parked(d)' = Parked(d) /\ count'[d] = count[d]
          BY <2>2, <4>1 DEF OwnOnly, Parked
        <4> QED BY <2>3, <4>2, <4>3, StaysClean
      <3>8. CloseLast'
        <4>1. SUFFICES ASSUME NEW i \in 1 .. Len(queue'), queue'[i].kind = "close"
                       PROVE  /\ conn'[queue'[i].fd] = "closing" /\ ~Holds(queue'[i].fd)
                              /\ \A j \in 1 .. Len(queue') : i < j => queue'[j].fd # queue'[i].fd
          BY <2>2 DEF CloseLast, Holds
        <4>2. i + 1 \in 1 .. Len(queue) /\ queue'[i] = queue[i + 1] /\ queue[i + 1].fd # m.fd
          BY <2>3, <3>3
        <4>3. ASSUME NEW j \in 1 .. Len(queue'), i < j
              PROVE  queue'[j].fd # queue'[i].fd
          <5>1. j + 1 \in 1 .. Len(queue) /\ queue'[j] = queue[j + 1] /\ i + 1 < j + 1
            BY <2>3, <4>3
          <5> QED BY <1>1, <4>1, <4>2, <5>1 DEF CloseLast
        <4>4. conn[queue[i + 1].fd] = "closing" /\ ~Holds(queue[i + 1].fd)
          BY <1>1, <4>1, <4>2 DEF CloseLast
        <4> QED BY <1>2, <3>1, <4>2, <4>3, <4>4
      <3> QED BY <3>4, <3>5, <3>7, <3>8 DEF CloseInv
    <2>7. Close(m) \/ (conn' = conn /\ route' = route)
      BY <2>1 DEF ProcessOne, Reset, Discover, Command, Read, Cancel, Other
    <2> QED BY <2>5, <2>6, <2>7
  <1>9. CASE Tick
    <2>1. UNCHANGED <<conn, hid, route, queue, discovered, change, count>>
      BY <1>9 DEF Tick
    <2>2. ASSUME NEW d \in Fds, Clean(d) PROVE Clean(d)'
      <3>1. ~Reading(d) /\ ~Due(d)
        BY <2>2 DEF Clean, Parked, Reading, Due
      <3>2. read'[d] = read[d]
        BY <1>9, <3>1 DEF Tick
      <3> QED BY <2>1, <2>2, <3>2 DEF Clean, Parked
    <2>3. \A d \in Fds : Holds(d)' = Holds(d)
      BY <2>1 DEF Holds
    <2>4. CloseHeld' /\ ClosedGone' /\ UnroutedClean'
      BY <1>1, <2>1, <2>2, <2>3 DEF CloseHeld, ClosedGone, UnroutedClean
    <2>5. CloseLast'
      BY <1>1, <1>2, <2>1, <2>3 DEF CloseLast
    <2> QED BY <2>4, <2>5 DEF CloseInv
  <1> QED BY <1>3, <1>4, <1>5, <1>6, <1>7, <1>8, <1>9 DEF Next, Hid
-----------------------------------------------------------------------------
\* Numbers and cells go round.
LEMMA StepThenMore ==
  ASSUME NEW n \in Nat \ {0}, NEW a \in 0 .. (n - 1), NEW k \in 0 .. (n - 1)
  PROVE  (((a + 1) % n) + k) % n = (a + 1 + k) % n
  <1>1. a + 1 \in 0 .. (2 * n - 1)
    OBVIOUS
  <1>2. (a + 1) % n = IF a + 1 < n THEN a + 1 ELSE a + 1 - n
    BY <1>1
  <1>3. CASE a + 1 < n
    BY <1>2, <1>3
  <1>4. CASE ~(a + 1 < n)
    <2>1. a + 1 = n
      BY <1>4
    <2>2. ((a + 1) % n) + k = k
      BY <1>2, <1>4, <2>1
    <2>3. k \in 0 .. (2 * n - 1) /\ k < n
      OBVIOUS
    <2>4. k % n = k
      BY <2>3, Wraps
    <2>5. a + 1 + k \in 0 .. (2 * n - 1) /\ ~(a + 1 + k < n) /\ a + 1 + k - n = k
      BY <2>1
    <2>6. (a + 1 + k) % n = k
      BY <2>5, Wraps
    <2> QED BY <2>2, <2>4, <2>6
  <1> QED BY <1>3, <1>4

LEMMA MoreThenStep ==
  ASSUME NEW n \in Nat \ {0}, NEW x \in 0 .. (2 * n - 2)
  PROVE  ((x % n) + 1) % n = (x + 1) % n
  <1>1. x \in 0 .. (2 * n - 1)
    OBVIOUS
  <1>2. x % n = IF x < n THEN x ELSE x - n
    BY <1>1, Wraps
  <1>3. CASE x < n
    BY <1>2, <1>3
  <1>4. CASE ~(x < n)
    <2>1. (x % n) + 1 = x - n + 1
      BY <1>2, <1>4
    <2>2. x - n + 1 \in 0 .. (2 * n - 1) /\ x - n + 1 < n
      BY <1>4
    <2>3. (x - n + 1) % n = x - n + 1
      BY <2>2, Wraps
    <2>4. x + 1 \in 0 .. (2 * n - 1) /\ ~(x + 1 < n) /\ x + 1 - n = x - n + 1
      BY <1>4
    <2>5. (x + 1) % n = x - n + 1
      BY <2>4
    <2> QED BY <2>1, <2>3, <2>5
  <1> QED BY <1>3, <1>4

LEMMA OtherCell ==
  ASSUME NEW n \in Nat \ {0}, NEW h \in 0 .. (n - 1), NEW c \in 0 .. (n - 1),
         NEW i \in 0 .. (c - 1)
  PROVE  (h + i) % n # (h + c) % n
  <1>1. h + i \in 0 .. (2 * n - 1) /\ h + c \in 0 .. (2 * n - 1)
    OBVIOUS
  <1>2. (h + i) % n = IF h + i < n THEN h + i ELSE h + i - n
    BY <1>1
  <1>3. (h + c) % n = IF h + c < n THEN h + c ELSE h + c - n
    BY <1>1
  <1> QED BY <1>2, <1>3

\* The c replies in a ring r, from h on, are those that follow e and the f
\* replies in flight, and x is the number after them.
Follow(r, h, c, e, f, x) ==
    /\ \A i \in 0 .. (c - 1) : r[(h + i) % Fifo] = (e + f + i) % NumMod
    /\ (e + f + c) % NumMod = x

OrderedAt(fd) ==
    /\ InFlight(fd) = 1 => read[fd].reply = expect[fd]
    /\ Follow(ring[fd], head[fd], count[fd], expect[fd], InFlight(fd), next[fd])

LEMMA OrderedAll ==
  /\ RepliesInOrder <=> \A fd \in Fds : OrderedAt(fd)
  /\ RepliesInOrder' <=> \A fd \in Fds : OrderedAt(fd)'
  BY DEF RepliesInOrder, OrderedAt, Follow

\* A reply is put behind the others.
LEMMA Pushed ==
  ASSUME NEW r \in [Cells -> Nums], NEW h \in Cells, NEW c \in 0..Fifo, c # Fifo,
         NEW e \in Nums, NEW f \in {0, 1}, NEW x \in Nums, Follow(r, h, c, e, f, x)
  PROVE  Follow([r EXCEPT ![(h + c) % Fifo] = x], h, c + 1, e, f, Succ(x))
  <1>1. Fifo \in Nat \ {0} /\ NumMod \in Nat \ {0} /\ NumMod > Fifo + 1
    BY HidAssumption
  <1>2. h \in 0 .. (Fifo - 1) /\ c \in 0 .. (Fifo - 1)
    BY <1>1 DEF Cells
  <1>3. e \in 0 .. (NumMod - 1) /\ e + f + c \in 0 .. (2 * NumMod - 2)
    BY <1>1, <1>2 DEF Nums
  <1>4. (e + f + (c + 1)) % NumMod = Succ(x)
    <2>1. x = (e + f + c) % NumMod
      BY DEF Follow
    <2>2. (((e + f + c) % NumMod) + 1) % NumMod = (e + f + c + 1) % NumMod
      BY <1>1, <1>3, MoreThenStep
    <2>3. e + f + c + 1 = e + f + (c + 1)
      BY <1>2, <1>3
    <2> QED BY <2>1, <2>2, <2>3 DEF Succ
  <1> DEFINE k == (h + c) % Fifo
             s == [r EXCEPT ![k] = x]
  <1>5. k \in Cells
    BY <1>2, Arithmetic
  <1>6. ASSUME NEW i \in 0 .. c
        PROVE  s[(h + i) % Fifo] = (e + f + i) % NumMod
    <2>1. i \in 0 .. Fifo
      BY <1>1, <1>2
    <2>2. (h + i) % Fifo \in Cells
      BY <2>1, Arithmetic
    <2>3. CASE i = c
      <3>1. s[k] = x
        BY <1>5
      <3>2. x = (e + f + c) % NumMod
        BY DEF Follow
      <3> QED BY <2>3, <3>1, <3>2
    <2>4. CASE i # c
      <3>1. i \in 0 .. (c - 1)
        BY <1>2, <2>4
      <3>2. (h + i) % Fifo # k
        BY <1>1, <1>2, <3>1, OtherCell
      <3>3. s[(h + i) % Fifo] = r[(h + i) % Fifo]
        <4> HIDE DEF k
        <4> QED BY <2>2, <3>2
      <3> QED BY <3>1, <3>3 DEF Follow
    <2> QED BY <2>3, <2>4
  <1>7. (c + 1) - 1 = c
    BY <1>2
  <1> QED BY <1>4, <1>6, <1>7 DEF Follow

\* The oldest reply is taken out, for a read.
LEMMA Popped ==
  ASSUME NEW r \in [Cells -> Nums], NEW h \in Cells, NEW c \in 0..Fifo, c > 0,
         NEW e \in Nums, NEW x \in Nums, Follow(r, h, c, e, 0, x)
  PROVE  r[h] = e /\ Follow(r, (h + 1) % Fifo, c - 1, e, 1, x)
  <1>1. Fifo \in Nat \ {0} /\ NumMod \in Nat \ {0} /\ NumMod > Fifo + 1
    BY HidAssumption
  <1>2. h \in 0 .. (Fifo - 1) /\ c \in 1 .. Fifo /\ e \in 0 .. (NumMod - 1)
    BY <1>1 DEF Cells, Nums
  <1>3. r[h] = e
    <2>1. h % Fifo = h /\ e % NumMod = e
      BY <1>1, <1>2
    <2>2. 0 \in 0 .. (c - 1) /\ h + 0 = h /\ e + 0 + 0 = e
      BY <1>2
    <2> QED BY <2>1, <2>2 DEF Follow
  <1>4. (e + 1 + (c - 1)) % NumMod = x
    <2>1. e + 1 + (c - 1) = e + 0 + c
      BY <1>2
    <2> QED BY <2>1 DEF Follow
  <1>5. ASSUME NEW i \in 0 .. (c - 2)
        PROVE  r[(((h + 1) % Fifo) + i) % Fifo] = (e + 1 + i) % NumMod
    <2>1. i + 1 \in 0 .. (c - 1) /\ i \in 0 .. (Fifo - 1)
      BY <1>1, <1>2
    <2>2. (((h + 1) % Fifo) + i) % Fifo = (h + 1 + i) % Fifo
      BY <1>1, <1>2, <2>1, StepThenMore
    <2>3. h + 1 + i = h + (i + 1) /\ e + 1 + i = e + 0 + (i + 1)
      BY <1>2, <2>1
    <2>4. r[(h + (i + 1)) % Fifo] = (e + 0 + (i + 1)) % NumMod
      BY <2>1 DEF Follow
    <2> QED BY <2>2, <2>3, <2>4
  <1>6. (c - 1) - 1 = c - 2
    BY <1>2
  <1> QED BY <1>3, <1>4, <1>5, <1>6 DEF Follow

\* The reply in flight arrives, or is given up.
LEMMA Landed ==
  ASSUME NEW r, NEW h \in Cells, NEW c \in 0..Fifo, NEW e \in Nums, NEW x \in Nums,
         Follow(r, h, c, e, 1, x)
  PROVE  Follow(r, h, c, Succ(e), 0, x)
  <1>1. Fifo \in Nat \ {0} /\ NumMod \in Nat \ {0} /\ NumMod > Fifo + 1
    BY HidAssumption
  <1>2. c \in 0 .. (NumMod - 1) /\ e \in 0 .. (NumMod - 1) /\ Succ(e) \in Nat
    BY <1>1, Arithmetic DEF Nums
  <1>3. ASSUME NEW i \in 0 .. c
        PROVE  (Succ(e) + 0 + i) % NumMod = (e + 1 + i) % NumMod
    <2>1. i \in 0 .. (NumMod - 1) /\ Succ(e) + 0 + i = Succ(e) + i
      BY <1>1, <1>2
    <2>2. (((e + 1) % NumMod) + i) % NumMod = (e + 1 + i) % NumMod
      BY <1>1, <1>2, <2>1, StepThenMore
    <2> QED BY <2>1, <2>2 DEF Succ
  <1>4. c \in 0 .. c /\ \A i \in 0 .. (c - 1) : i \in 0 .. c
    BY <1>2
  <1> QED BY <1>3, <1>4 DEF Follow

\* A session without replies.
LEMMA Emptied ==
  ASSUME NEW r, NEW h, NEW x \in Nums
  PROVE  Follow(r, h, 0, x, 0, x)
  <1>1. NumMod \in Nat \ {0} /\ x \in 0 .. (NumMod - 1)
    BY HidAssumption DEF Nums
  <1>2. x + 0 + 0 = x /\ x % NumMod = x /\ 0 .. (0 - 1) = {}
    BY <1>1, Wraps
  <1> QED BY <1>2 DEF Follow
-----------------------------------------------------------------------------
\* A session that a step leaves alone stays in order, and its read waits.
LEMMA SameSession ==
  ASSUME NEW fd \in Fds, OrderedAt(fd), Reading(fd) => read[fd].due > 0,
         read'[fd] = read[fd], ring'[fd] = ring[fd], head'[fd] = head[fd],
         count'[fd] = count[fd], next'[fd] = next[fd], expect'[fd] = expect[fd]
  PROVE  OrderedAt(fd)' /\ (Reading(fd)' => read'[fd].due > 0)
  BY DEF OrderedAt, InFlight, Reading

\* The session whose message v4_process handles.
LEMMA OwnSession ==
  ASSUME SessionTypeOK, NEW m \in Messages, ProcessOne(m), OrderedAt(m.fd),
         Reading(m.fd) => read[m.fd].due > 0
  PROVE  OrderedAt(m.fd)' /\ (Reading(m.fd)' => read'[m.fd].due > 0)
  <1> DEFINE d == m.fd
  <1>1. d \in Fds /\ m # NoMsg
    BY MessageFacts
  <1>2. /\ read \in [Fds -> Reads] /\ ring \in [Fds -> [Cells -> Nums]]
        /\ head \in [Fds -> Cells] /\ count \in [Fds -> 0..Fifo]
        /\ next \in [Fds -> Nums] /\ expect \in [Fds -> Nums]
    BY DEF SessionTypeOK
  <1>3. /\ ring[d] \in [Cells -> Nums] /\ head[d] \in Cells /\ count[d] \in 0..Fifo
        /\ next[d] \in Nums /\ expect[d] \in Nums /\ InFlight(d) \in {0, 1}
    BY <1>1, <1>2 DEF InFlight
  <1>4. Follow(ring[d], head[d], count[d], expect[d], InFlight(d), next[d])
    BY DEF OrderedAt
  <1>5. Status \notin Nums /\ ReplyTicks > 0
    BY HidAssumption DEF Status, Nums
  <1>6. CASE Reset(m) \/ Close(m)
    <2>1. CancelSession(d)
      BY <1>6 DEF Reset, Close
    <2>2. read'[d] = NoRead /\ count'[d] = 0 /\ expect'[d] = next[d] /\ next'[d] = next[d]
      BY <1>1, <1>2, <2>1 DEF CancelSession
    <2>3. InFlight(d)' = 0 /\ ~Reading(d)'
      BY <2>2 DEF InFlight, Reading, NoRead
    <2>4. Follow(ring'[d], head'[d], 0, next[d], 0, next[d])
      BY <1>3, Emptied
    <2> QED BY <2>2, <2>3, <2>4 DEF OrderedAt
  <1>7. CASE Discover(m) \/ Other(m)
    BY <1>1, <1>7, SameSession DEF Discover, Other, sessionVars, history
  <1>8. CASE Command(m)
    <2>1. read' = read /\ head' = head /\ expect' = expect
      BY <1>8 DEF Command
    <2>2. CASE count[d] = Fifo
      <3>1. ring' = ring /\ count' = count /\ next' = next
        BY <1>8, <2>2 DEF Command
      <3> QED BY <1>1, <2>1, <3>1, SameSession
    <2>3. CASE count[d] # Fifo
      <3>1. /\ ring'[d] = [ring[d] EXCEPT ![(head[d] + count[d]) % Fifo] = next[d]]
            /\ count'[d] = count[d] + 1 /\ next'[d] = Succ(next[d])
        BY <1>1, <1>2, <1>8, <2>3 DEF Command
      <3>2. Follow([ring[d] EXCEPT ![(head[d] + count[d]) % Fifo] = next[d]], head[d],
                   count[d] + 1, expect[d], InFlight(d), Succ(next[d]))
        BY <1>3, <1>4, <2>3, Pushed
      <3>3. InFlight(d)' = InFlight(d) /\ (Reading(d)' <=> Reading(d))
        BY <2>1 DEF InFlight, Reading
      <3> QED BY <2>1, <3>1, <3>2, <3>3 DEF OrderedAt
    <2> QED BY <2>2, <2>3
  <1>9. CASE Read(m)
    <2>1. ring' = ring /\ next' = next /\ expect' = expect
      BY <1>9 DEF Read, history
    <2>2. CASE read' = read /\ head' = head /\ count' = count
      BY <1>1, <2>1, <2>2, SameSession
    <2>3. CASE /\ ~Reading(d) /\ count[d] > 0
               /\ read' = [read EXCEPT ![d] = [msg |-> m, due |-> ReplyTicks,
                                               reply |-> ring[d][head[d]]]]
               /\ head' = [head EXCEPT ![d] = (@ + 1) % Fifo]
               /\ count' = [count EXCEPT ![d] = @ - 1]
      <3>1. InFlight(d) = 0
        BY <2>3 DEF InFlight
      <3>2. /\ ring[d][head[d]] = expect[d]
            /\ Follow(ring[d], (head[d] + 1) % Fifo, count[d] - 1, expect[d], 1, next[d])
        BY <1>3, <1>4, <2>3, <3>1, Popped
      <3>3. /\ read'[d] = [msg |-> m, due |-> ReplyTicks, reply |-> ring[d][head[d]]]
            /\ head'[d] = (head[d] + 1) % Fifo /\ count'[d] = count[d] - 1
        BY <1>1, <1>2, <2>3
      <3>4. read'[d].reply = expect[d] /\ read'[d].msg = m /\ read'[d].due = ReplyTicks
        BY <3>2, <3>3
      <3>5. InFlight(d)' = 1
        BY <1>1, <1>3, <1>5, <3>4 DEF InFlight, Reading
      <3> QED BY <1>5, <2>1, <3>2, <3>3, <3>4, <3>5 DEF OrderedAt
    <2>4. CASE /\ ~Reading(d)
               /\ read' = [read EXCEPT ![d] = [msg |-> m, due |-> 1, reply |-> Status]]
               /\ head' = head /\ count' = count
      <3>1. read'[d].reply = Status /\ read'[d].due = 1
        BY <1>1, <1>2, <2>4
      <3>2. InFlight(d) = 0 /\ InFlight(d)' = 0
        BY <2>4, <3>1 DEF InFlight
      <3> QED BY <1>4, <2>1, <2>4, <3>1, <3>2 DEF OrderedAt
    <2> QED BY <1>9, <2>2, <2>3, <2>4 DEF Read
  <1>10. CASE Cancel(m)
    <2>1. /\ ring' = ring /\ head' = head /\ count' = count /\ next' = next
          /\ read' = [read EXCEPT ![d] = NoRead]
      BY <1>10 DEF Cancel
    <2>2. InFlight(d)' = 0 /\ ~Reading(d)'
      BY <1>1, <1>2, <2>1 DEF InFlight, Reading, NoRead
    <2>3. CASE InFlight(d) = 1
      <3>1. expect'[d] = Succ(expect[d])
        BY <1>1, <1>2, <1>10, <2>3 DEF Cancel, InFlight
      <3>2. Follow(ring[d], head[d], count[d], Succ(expect[d]), 0, next[d])
        BY <1>3, <1>4, <2>3, Landed
      <3> QED BY <2>1, <2>2, <3>1, <3>2 DEF OrderedAt
    <2>4. CASE InFlight(d) = 0
      <3>1. expect' = expect
        BY <1>10, <2>4 DEF Cancel, InFlight
      <3> QED BY <1>4, <2>1, <2>2, <2>4, <3>1 DEF OrderedAt
    <2> QED BY <1>3, <2>3, <2>4
  <1> QED BY <1>6, <1>7, <1>8, <1>9, <1>10 DEF ProcessOne

LEMMA ReplyStep ==
  ASSUME HidInv, Next
  PROVE  RepliesInOrder' /\ Waits'
  <1>1. /\ TypeOK /\ AckedOnce /\ SessionTypeOK
        /\ \A fd \in Fds : OrderedAt(fd) /\ (Reading(fd) => read[fd].due > 0)
    BY TypeParts, OrderedAll DEF HidInv, Waits
  <1>2. SUFFICES ASSUME NEW fd \in Fds
                 PROVE  OrderedAt(fd)' /\ (Reading(fd)' => read'[fd].due > 0)
    BY OrderedAll DEF Waits, Reading
  <1>3. CASE UNCHANGED <<sessionVars, history>>
    BY <1>1, <1>3, SameSession DEF sessionVars, history
  <1>4. CASE Process
    <2>1. PICK m \in Messages : ProcessOne(m)
      BY <1>1, <1>4, OneMessage
    <2>2. CASE fd = m.fd
      BY <1>1, <2>1, <2>2, OwnSession
    <2>3. CASE fd # m.fd
      <3>1. OwnOnly(m)
        BY <2>1, SessionStep DEF ProcessOne
      <3> QED BY <1>1, <2>3, <3>1, SameSession DEF OwnOnly
    <2> QED BY <2>2, <2>3
  <1>5. CASE Tick
    <2>1. ring' = ring /\ head' = head /\ count' = count /\ next' = next
      BY <1>5 DEF Tick
    <2>2. /\ read'[fd] = IF Due(fd) THEN NoRead
                         ELSE IF Reading(fd) THEN [read[fd] EXCEPT !.due = @ - 1] ELSE read[fd]
          /\ expect'[fd] = IF Due(fd) /\ read[fd].reply # Status
                           THEN Succ(expect[fd]) ELSE expect[fd]
      BY <1>5 DEF Tick
    <2>3. read[fd] \in Reads
      BY <1>1 DEF SessionTypeOK
    <2>4. CASE Due(fd)
      <3>1. InFlight(fd)' = 0 /\ ~Reading(fd)' /\ Reading(fd)
        BY <2>2, <2>4 DEF InFlight, Reading, NoRead, Due
      <3>2. CASE read[fd].reply = Status
        <4>1. expect'[fd] = expect[fd] /\ InFlight(fd) = 0
          BY <2>2, <3>2 DEF InFlight
        <4> QED BY <1>1, <2>1, <3>1, <4>1 DEF OrderedAt
      <3>3. CASE read[fd].reply # Status
        <4>1. expect'[fd] = Succ(expect[fd]) /\ InFlight(fd) = 1
          BY <2>2, <2>4, <3>1, <3>3 DEF InFlight
        <4>2. Follow(ring[fd], head[fd], count[fd], Succ(expect[fd]), 0, next[fd])
          <5>1. head[fd] \in Cells /\ count[fd] \in 0..Fifo /\ expect[fd] \in Nums /\ next[fd] \in Nums
            BY <1>1 DEF SessionTypeOK
          <5> QED BY <1>1, <4>1, <5>1, Landed DEF OrderedAt
        <4> QED BY <2>1, <3>1, <4>1, <4>2 DEF OrderedAt
      <3> QED BY <3>2, <3>3
    <2>5. CASE ~Due(fd) /\ Reading(fd)
      <3>1. read[fd].due \in 0..ReplyTicks /\ read[fd].due > 0 /\ read[fd].due # 1 /\ ReplyTicks \in Nat
        BY <1>1, <2>3, <2>5, HidAssumption DEF Due, Reads
      <3>2. /\ read'[fd].msg = read[fd].msg /\ read'[fd].reply = read[fd].reply
            /\ read'[fd].due = read[fd].due - 1
        BY <2>2, <2>3, <2>5 DEF Reads
      <3>3. read'[fd].due > 0
        BY <3>1, <3>2
      <3>4. expect'[fd] = expect[fd] /\ InFlight(fd)' = InFlight(fd)
        BY <2>2, <2>5, <3>2 DEF InFlight, Reading
      <3> QED BY <1>1, <2>1, <3>2, <3>3, <3>4 DEF OrderedAt
    <2>6. CASE ~Due(fd) /\ ~Reading(fd)
      BY <1>1, <2>1, <2>2, <2>6, SameSession
    <2> QED BY <2>4, <2>5, <2>6
  <1> QED BY <1>3, <1>4, <1>5 DEF Next, Hid, Open, Post, DispatchStock, DispatchFails,
                                 DispatchSend, SetRoute
-----------------------------------------------------------------------------
LEMMA HidStarts == Init => HidInv
  <1>1. SUFFICES ASSUME Init PROVE HidInv
    OBVIOUS
  <1>2. hid.msg = NoMsg /\ hid.sent = FALSE /\ out = {} /\ queue = << >> /\ Len(queue) = 0
    BY <1>1 DEF Init, Idle
  <1>3. \A fd \in Fds : /\ Parked(fd) = {} /\ ~Reading(fd) /\ ~discovered[fd] /\ ~route[fd]
                         /\ count[fd] = 0 /\ next[fd] = 0 /\ expect[fd] = 0 /\ change[fd] = NoMsg
    BY <1>1 DEF Init, Parked, Reading, NoRead
  <1>4. TypeOK
    <2>1. [c \in Cells |-> 0] \in [Cells -> Nums]
      BY Arithmetic
    <2>2. SessionTypeOK
      BY <1>1, <2>1, Arithmetic DEF Init, SessionTypeOK
    <2>3. queue \in Seq(Messages) /\ Len(queue) <= QueueLen
      BY <1>2, HidAssumption
    <2>4. QueueTypeOK
      BY <1>1, <2>3 DEF Init, Idle, QueueTypeOK
    <2> QED BY <2>2, <2>4, TypeParts
  <1>5. AckedOnce
    BY <1>2, <1>3 DEF AckedOnce, InHid, InQueue, InSessions, Dispatching
  <1>6. RepliesInOrder
    <2>1. ASSUME NEW fd \in Fds PROVE OrderedAt(fd)
      <3>1. InFlight(fd) = 0
        BY <1>3 DEF InFlight
      <3>2. Follow(ring[fd], head[fd], 0, 0, 0, 0)
        BY Emptied, Arithmetic
      <3> QED BY <1>3, <3>1, <3>2 DEF OrderedAt
    <2> QED BY <2>1, OrderedAll
  <1>7. CloseInv
    BY <1>2, <1>3 DEF CloseInv, CloseHeld, UnroutedClean, ClosedGone, CloseLast, Holds, Clean
  <1>8. Waits
    BY <1>3 DEF Waits
  <1> QED BY <1>4, <1>5, <1>6, <1>7, <1>8 DEF HidInv

LEMMA HidStutters == HidInv /\ UNCHANGED vars => HidInv'
  <1>1. SUFFICES ASSUME HidInv, UNCHANGED vars PROVE HidInv'
    OBVIOUS
  <1>2. /\ conn' = conn /\ out' = out /\ hid' = hid /\ route' = route /\ queue' = queue
        /\ discovered' = discovered /\ change' = change /\ read' = read /\ ring' = ring
        /\ head' = head /\ count' = count /\ next' = next /\ expect' = expect
    BY <1>1 DEF vars
  <1>3. TypeOK'
    BY <1>1, <1>2 DEF HidInv, TypeOK
  <1>4. AckedOnce'
    BY <1>1, <1>2 DEF HidInv, AckedOnce, InHid, InQueue, InSessions, Parked, Dispatching
  <1>5. RepliesInOrder'
    BY <1>1, <1>2 DEF HidInv, RepliesInOrder, InFlight, Reading
  <1>6. CloseInv' /\ Waits'
    BY <1>1, <1>2 DEF HidInv, CloseInv, CloseHeld, UnroutedClean, ClosedGone, CloseLast, Holds,
                      Clean, Parked, Waits, Reading
  <1> QED BY <1>3, <1>4, <1>5, <1>6 DEF HidInv

\* The inductive invariant of hidv4.h: types, places of the messages, order of
\* the replies, and a close as the last message of its descriptor.
THEOREM HidHolds == Spec => []HidInv
  <1>1. HidInv /\ Next => HidInv'
    BY TypeStep, AckStep, CloseStep, ReplyStep DEF HidInv
  <1> QED BY <1>1, HidStarts, HidStutters, PTL DEF Spec

\* Every variable of the sessions and of the dispatchers keeps its type.
THEOREM HidTyped == Spec => []TypeOK
  <1>1. HidInv => TypeOK
    BY DEF HidInv
  <1> QED BY <1>1, HidHolds, PTL

\* No ioctl is lost and none is acked twice (v4_process, v4_tick, v4_cancel).
THEOREM EveryMessageOnce == Spec => []AckedOnce
  <1>1. HidInv => AckedOnce
    BY DEF HidInv
  <1> QED BY <1>1, HidHolds, PTL

\* The replies of v4_push reach the reads of v4_transfer in order, none is
\* dropped or repeated, whatever the size of the ring.
THEOREM RepliesOrdered == Spec => []RepliesInOrder
  <1>1. HidInv => RepliesInOrder
    BY DEF HidInv
  <1> QED BY <1>1, HidHolds, PTL

\* The next owner of a closed descriptor finds nothing of the last one.
THEOREM ClosedLeavesNothing == Spec => []ClosedIsClean
  <1>1. HidInv => ClosedIsClean
    <2>1. SUFFICES ASSUME HidInv, NEW fd \in Fds, conn[fd] = "closed"
                   PROVE  /\ ~route[fd] /\ ~discovered[fd] /\ Parked(fd) = {} /\ count[fd] = 0
                          /\ \A m \in out : m.fd # fd
      BY DEF ClosedIsClean
    <2>2. ~route[fd] /\ ~Holds(fd)
      BY <2>1 DEF HidInv, CloseInv, ClosedGone
    <2>3. Clean(fd)
      BY <2>1, <2>2 DEF HidInv, CloseInv, UnroutedClean
    <2>4. ASSUME NEW m \in out PROVE m.fd # fd
      <3>1. m \in InHid \/ m \in InQueue \/ \E d \in Fds : m \in Parked(d)
        BY <2>1, WhereIs DEF HidInv
      <3>2. CASE m \in InHid
        BY <2>2, <3>2 DEF InHid, Holds, Dispatching
      <3>3. CASE m \in InQueue
        BY <2>3, <3>3 DEF InQueue, Clean
      <3>4. ASSUME NEW d \in Fds, m \in Parked(d) PROVE m.fd # fd
        BY <2>1, <2>3, <3>4, WhereIs DEF HidInv, Clean
      <3> QED BY <3>1, <3>2, <3>3, <3>4
    <2> QED BY <2>2, <2>3, <2>4 DEF Clean
  <1> QED BY <1>1, HidHolds, PTL
-----------------------------------------------------------------------------
\* The message at position i of the queue keeps it, moves up by one when the
\* worker takes a message, or is itself taken and answered or parked.
MovesUp(i) ==
    \/ ~Process /\ i <= Len(queue') /\ queue'[i] = queue[i]
    \/ Process /\ i > 1 /\ queue'[i - 1] = queue[i]
    \/ Process /\ i = 1 /\ (queue[1] \notin out' \/ \E fd \in Fds : queue[1] \in Parked(fd)')

\* A read that is parked is answered, or waits for fewer ticks with every tick
\* and never for more.
Expires(fd) ==
    Reading(fd) => \/ read[fd].msg \notin out'
                   \/ /\ read'[fd].msg = read[fd].msg
                      /\ read'[fd].due <= read[fd].due
                      /\ Tick => read'[fd].due < read[fd].due

LEMMA ProcessTakes == Process => queue # << >> /\ queue' = Tail(queue)
  BY DEF Process, Reset, Close, Discover, Command, Read, Cancel, Other, Take

LEMMA QueueAdvances ==
  ASSUME HidInv, [Next]_vars, NEW i \in 1 .. Len(queue)
  PROVE  MovesUp(i)
  <1>1. queue \in Seq(Messages) /\ TypeOK /\ AckedOnce
    BY DEF HidInv, TypeOK
  <1>2. CASE Process
    <2> DEFINE m == Head(queue)
    <2>1. queue # << >> /\ queue' = Tail(queue)
      BY <1>2, ProcessTakes
    <2>2. m = queue[1] /\ m \in Messages
      BY <1>1, <2>1
    <2>3. i > 1 => queue'[i - 1] = queue[i]
      BY <1>1, <2>1
    <2>4. m \notin out' \/ \E fd \in Fds : m \in Parked(fd)'
      <3>1. m # NoMsg /\ m.fd \in Fds /\ TypeOK
        BY <1>1, <2>2, MessageFacts
      <3>2. PICK n : n = m /\ \/ Reset(n) \/ Close(n) \/ Discover(n) \/ Command(n) \/ Read(n)
                              \/ Cancel(n) \/ Other(n)
        BY <1>2 DEF Process
      <3>3. change \in [Fds -> Messages \cup {NoMsg}] /\ DOMAIN read = Fds
        BY <1>1 DEF TypeOK
      <3> HIDE DEF m
      <3>4. CASE Reset(n) \/ Close(n) \/ Command(n) \/ Cancel(n) \/ Other(n)
        BY <3>2, <3>4 DEF Reset, Close, Command, Cancel, Other, Take
      <3>5. CASE Discover(n)
        BY <3>1, <3>2, <3>3, <3>5 DEF Discover, Take, Parked
      <3>6. CASE Read(n)
        <4>1. CASE Reading(n.fd)
          BY <3>2, <3>6, <4>1 DEF Read, Take
        <4>2. CASE ~Reading(n.fd)
          <5>1. read'[n.fd].msg = n
            BY <3>1, <3>2, <3>3, <3>6, <4>2 DEF Read
          <5> QED BY <3>1, <3>2, <5>1 DEF Parked
        <4> QED BY <4>1, <4>2
      <3> QED BY <3>2, <3>4, <3>5, <3>6
    <2> QED BY <1>2, <2>2, <2>3, <2>4 DEF MovesUp
  <1>3. CASE ~Process
    <2>1. queue' = queue \/ queue' = Append(queue, hid.msg)
      BY <1>3 DEF Next, Open, Post, Hid, DispatchStock, DispatchFails, DispatchSend, SetRoute,
                  Tick, vars
    <2>2. i <= Len(queue') /\ queue'[i] = queue[i]
      BY <1>1, <2>1
    <2> QED BY <1>3, <2>2 DEF MovesUp
  <1> QED BY <1>2, <1>3

LEMMA ReadsAdvance ==
  ASSUME HidInv, [Next]_vars, NEW fd \in Fds
  PROVE  Expires(fd)
  <1> SUFFICES ASSUME Reading(fd) PROVE Expires(fd)
    BY DEF Expires
  <1>1. /\ read \in [Fds -> Reads] /\ read[fd].due \in Nat /\ read[fd].due > 0
        /\ read[fd].msg # NoMsg
    BY DEF HidInv, TypeOK, Reads, Waits, Reading
  <1>2. CASE Tick
    <2>1. CASE Due(fd)
      BY <1>2, <2>1 DEF Tick, Expires
    <2>2. CASE ~Due(fd)
      <3>1. read'[fd] = [read[fd] EXCEPT !.due = @ - 1]
        BY <1>1, <1>2, <2>2 DEF Tick
      <3>2. read'[fd].msg = read[fd].msg /\ read'[fd].due = read[fd].due - 1
        BY <1>1, <3>1 DEF Reads
      <3> QED BY <1>1, <3>2 DEF Expires
    <2> QED BY <2>1, <2>2
  <1>3. CASE ~Tick /\ Process
    <2>1. PICK m : \/ Reset(m) \/ Close(m) \/ Discover(m) \/ Command(m) \/ Read(m)
                   \/ Cancel(m) \/ Other(m)
      BY <1>3 DEF Process
    <2>2. CASE fd # m.fd
      <3>1. read'[fd] = read[fd]
        BY <1>1, <2>1, <2>2 DEF Reset, Close, Discover, Command, Read, Cancel, Other,
                                CancelSession, sessionVars
      <3> QED BY <1>1, <1>3, <3>1 DEF Expires
    <2>3. CASE fd = m.fd
      <3>1. read[fd].msg \in Parked(m.fd)
        BY <1>1, <2>3 DEF Parked
      <3>2. read[fd].msg \notin out' \/ read' = read
        BY <2>1, <2>3, <3>1 DEF Reset, Close, Discover, Command, Read, Cancel, Other, Take,
                                sessionVars
      <3> QED BY <1>1, <1>3, <3>2 DEF Expires
    <2> QED BY <2>2, <2>3
  <1>4. CASE ~Tick /\ ~Process
    <2>1. read' = read
      BY <1>4 DEF Next, Open, Post, Hid, DispatchStock, DispatchFails, DispatchSend, SetRoute,
                  sessionVars, vars
    <2> QED BY <1>1, <1>4, <2>1 DEF Expires
  <1> QED BY <1>2, <1>3, <1>4

\* Every step brings the answer of an ioctl nearer and none puts it off: nothing
\* overtakes in the queue, and no step but its end lengthens the wait of a parked
\* read, whatever else the session does.  This is what EveryIoctlEnds rests on.
THEOREM IoctlsAdvance ==
    Spec => [][/\ \A i \in 1 .. Len(queue) : MovesUp(i)
               /\ \A fd \in Fds : Expires(fd)]_vars
  <1> DEFINE A == /\ \A i \in 1 .. Len(queue) : MovesUp(i)
                  /\ \A fd \in Fds : Expires(fd)
  <1>1. HidInv /\ [Next]_vars => [A]_vars
    BY QueueAdvances, ReadsAdvance
  <1> QED BY <1>1, HidHolds, PTL DEF Spec
=============================================================================
