------------------------- MODULE PortalStatusProofs -------------------------
(***************************************************************************)
(* Proofs about the status packets, for any number of sessions, slots and  *)
(* figures, with and without rescans.                                      *)
(***************************************************************************)
EXTENDS PortalRescan, TLAPS

PortalInv == TypeOK /\ EndsRight /\ PacketTrue

\* What the transition queues of e12_event lead to, one nibble at a time.
LEMMA QueueFacts ==
    /\ \A q \in Queues : Rest(q) \in Queues /\ NextState(q) \in States
    /\ \A q \in Queues \ {Empty} :
          /\ Rest(q) = Empty => NextState(q) = Final(q)
          /\ Rest(q) # Empty => Final(Rest(q)) = Final(q)
          /\ NextState(q) \in {1, 3} => Final(q) = 1
    /\ Final(Arrive) = 1 /\ Final(Reinsert) = 1
    /\ Arrive # Empty /\ Reinsert # Empty
    /\ Arrive \in Queues /\ Reinsert \in Queues /\ Empty \in Queues /\ Empty = 0
  BY DEF Queues, States, Empty, Gone, Leave, Shown, Arrive, Reinsert, Replace, Rest,
         NextState, Final

LEMMA EventFacts ==
    /\ \A q \in Queues : /\ AfterInsert(q) \in Queues /\ AfterInsert(q) # Empty
                         /\ Final(AfterInsert(q)) = 1
    /\ Leave \in Queues /\ Leave # Empty /\ Final(Leave) = 0
  BY DEF AfterInsert, Queues, Empty, Gone, Leave, Shown, Arrive, Reinsert, Replace, Final

LEMMA BlankFacts ==
    /\ Blank \in Packets /\ 0 \in Counters /\ CounterMod - 1 \in Counters
    /\ NoRead \in [on : BOOLEAN, fresh : BOOLEAN, ctr : Counters, packet : Packets]
    /\ NothingSeen \in [packet : Packets, ctr : Counters]
    /\ \A c \in Counters : (c + 1) % CounterMod \in Counters
    /\ NoRead.on = FALSE
    /\ AllEmpty \in [Slots -> Queues] /\ AllEmpty \in [Slots -> States]
  <1>1. Blank \in Packets
    BY DEF Blank, Packets, States
  <1>2. 0 \in Counters /\ CounterMod - 1 \in Counters
    BY PortalAssumption DEF Counters
  <1>3. \A c \in Counters : (c + 1) % CounterMod \in Counters
    BY PortalAssumption DEF Counters
  <1>4. AllEmpty \in [Slots -> Queues] /\ AllEmpty \in [Slots -> States]
    BY QueueFacts DEF AllEmpty, States
  <1> QED BY <1>1, <1>2, <1>3, <1>4 DEF NoRead, NothingSeen

LEMMA PortalInit == Init => PortalInv
  <1> SUFFICES ASSUME Init PROVE PortalInv OBVIOUS
  <1>1. TypeOK
    BY BlankFacts DEF Init, TypeOK
  <1>2. EndsRight
    BY DEF Init, EndsRight, Opened
  <1>3. PacketTrue
    BY BlankFacts DEF Init, PacketTrue, Reading
  <1> QED BY <1>1, <1>2, <1>3 DEF PortalInv

\* A packet is built from the queues: it is well formed and shows figures only
\* where there are some.
LEMMA PacketBuilt ==
    ASSUME TypeOK, EndsRight, NEW fd \in Fds, Opened(fd)
    PROVE  /\ Packet(fd) \in Packets
           /\ \A s \in Slots : Packet(fd).word[s] \in {1, 3} => Packet(fd).figs[s] # NoFig
  <1>1. ASSUME NEW s \in Slots
        PROVE  /\ Packet(fd).word[s] \in States
               /\ Packet(fd).word[s] \in {1, 3} => fig[s] # NoFig
    <2>1. Packet(fd).word[s] = IF trans[fd][s] # Empty THEN NextState(trans[fd][s])
                               ELSE status[fd][s]
      BY DEF Packet
    <2>2. trans[fd][s] \in Queues /\ status[fd][s] \in States
      BY DEF TypeOK
    <2>3. CASE trans[fd][s] # Empty
      BY <2>1, <2>2, <2>3, QueueFacts DEF EndsRight
    <2>4. CASE trans[fd][s] = Empty
      BY <2>1, <2>2, <2>4 DEF EndsRight
    <2> QED BY <2>3, <2>4
  <1>3. Packet(fd).word \in [Slots -> States]
    <2>1. Packet(fd).word = [s \in Slots |-> Packet(fd).word[s]]
      BY DEF Packet
    <2> QED BY <1>1, <2>1
  <1>4. Packet(fd) = [word |-> Packet(fd).word, figs |-> fig, active |-> Packet(fd).active]
        /\ Packet(fd).active \in BOOLEAN
    BY DEF Packet
  <1>5. Packet(fd) \in Packets
    BY <1>3, <1>4 DEF Packets, TypeOK
  <1> QED BY <1>1, <1>4, <1>5

\* A packet in flight that becomes stale stays what it is.
LEMMA StaleRead ==
    ASSUME TypeOK, NEW fd \in Fds
    PROVE  /\ Stale(fd) \in [on : BOOLEAN, fresh : BOOLEAN, ctr : Counters, packet : Packets]
           /\ Stale(fd).packet = read[fd].packet
           /\ Stale(fd).on = read[fd].on
  BY DEF TypeOK, Stale

\* A step of the figures or of a rescan leaves every queue with the right end.
LEMMA EventStep ==
    ASSUME PortalInv, AllStale, fig' \in [Slots -> Figs \cup {NoFig}],
           trans' \in [Fds -> [Slots -> Queues]], status' \in [Fds -> [Slots -> States]],
           UNCHANGED <<counter, mode, seen>>,
           EndsRight'
    PROVE  PortalInv'
  <1>1. \A fd \in Fds : read'[fd] = Stale(fd)
    BY DEF AllStale
  <1>2. read' \in [Fds -> [on : BOOLEAN, fresh : BOOLEAN, ctr : Counters,
                           packet : Packets]]
    BY StaleRead DEF AllStale, PortalInv
  <1>3. TypeOK'
    BY <1>2 DEF PortalInv, TypeOK
  <1>4. PacketTrue'
    <2> SUFFICES ASSUME NEW fd \in Fds, NEW s \in Slots, Reading(fd)',
                        read'[fd].packet.word[s] \in {1, 3}
                 PROVE  read'[fd].packet.figs[s] # NoFig
      BY DEF PacketTrue
    <2>1. read'[fd].packet = read[fd].packet /\ Reading(fd)
      BY <1>1, StaleRead DEF PortalInv, Reading
    <2> QED BY <2>1 DEF PortalInv, PacketTrue
  <1> QED BY <1>3, <1>4 DEF PortalInv

LEMMA RemoveStep ==
    ASSUME PortalInv, NEW s \in Slots, Remove(s)
    PROVE  PortalInv'
  <1>1. \A fd \in Fds, t \in Slots :
           trans'[fd][t] = IF t = s THEN Leave ELSE trans[fd][t]
    BY DEF Remove, Feed!Leaves, PortalInv, TypeOK
  <1>2. /\ fig' \in [Slots -> Figs \cup {NoFig}] /\ trans' \in [Fds -> [Slots -> Queues]]
        /\ status' \in [Fds -> [Slots -> States]]
    BY EventFacts DEF Remove, Feed!Leaves, PortalInv, TypeOK
  <1>3. \A t \in Slots : fig'[t] = IF t = s THEN NoFig ELSE fig[t]
    BY DEF Remove, Feed!Leaves, PortalInv, TypeOK
  <1>4. EndsRight'
    BY <1>1, <1>3, EventFacts DEF Remove, Feed!Leaves, PortalInv, EndsRight, Opened
  <1> QED BY <1>2, <1>4, EventStep DEF Remove, Feed!Leaves

LEMMA InsertStep ==
    ASSUME PortalInv, NEW s \in Slots, NEW f \in Figs, Insert(s, f)
    PROVE  PortalInv'
  <1>1. \A fd \in Fds, t \in Slots :
           /\ trans[fd][t] \in Queues
           /\ trans'[fd][t] = IF t = s THEN AfterInsert(trans[fd][t]) ELSE trans[fd][t]
    BY DEF Insert, Feed!Enters, PortalInv, TypeOK
  <1>2. trans' \in [Fds -> [Slots -> Queues]]
    <2>1. \A fd \in Fds : trans[fd] \in [Slots -> Queues]
                          /\ AfterInsert(trans[fd][s]) \in Queues
      BY <1>1, EventFacts DEF PortalInv, TypeOK
    <2>2. \A fd \in Fds : [trans[fd] EXCEPT ![s] = AfterInsert(@)] \in [Slots -> Queues]
      BY <2>1
    <2> QED BY <2>2 DEF Insert, Feed!Enters
  <1>3. /\ fig' \in [Slots -> Figs \cup {NoFig}] /\ status' \in [Fds -> [Slots -> States]]
    BY DEF Insert, Feed!Enters, PortalInv, TypeOK
  <1>4. /\ \A t \in Slots : fig'[t] = IF t = s THEN f ELSE fig[t]
        /\ f # NoFig
    BY PortalAssumption DEF Insert, Feed!Enters, PortalInv, TypeOK
  <1>5. EndsRight'
    BY <1>1, <1>4, EventFacts DEF Insert, Feed!Enters, PortalInv, EndsRight, Opened
  <1> QED BY <1>2, <1>3, <1>5, EventStep DEF Insert, Feed!Enters

LEMMA RescanStep ==
    ASSUME PortalInv, Rescan
    PROVE  PortalInv'
  <1>1. \A fd \in Fds, t \in Slots :
           /\ trans'[fd][t] = IF fig[t] # NoFig THEN Reinsert ELSE Empty
           /\ status'[fd][t] = 0
    BY DEF Rescan, AllEmpty
  <1>2. trans' \in [Fds -> [Slots -> Queues]] /\ status' \in [Fds -> [Slots -> States]]
    BY QueueFacts, BlankFacts DEF Rescan
  <1>3. EndsRight'
    BY <1>1, QueueFacts DEF Rescan, EndsRight, Opened
  <1> QED BY <1>2, <1>3, EventStep DEF Rescan, PortalInv, TypeOK
-----------------------------------------------------------------------------
\* A step of one session, the others unchanged.
LEMMA SessionStep ==
    ASSUME PortalInv, NEW fd \in Fds, UNCHANGED fig,
           NEW q \in [Slots -> Queues], NEW st \in [Slots -> States], NEW c \in Counters,
           NEW m \in {"closed", "active", "inactive"},
           NEW r \in [on : BOOLEAN, fresh : BOOLEAN, ctr : Counters, packet : Packets],
           NEW n \in [packet : Packets, ctr : Counters],
           trans' = [trans EXCEPT ![fd] = q], status' = [status EXCEPT ![fd] = st],
           counter' = [counter EXCEPT ![fd] = c], mode' = [mode EXCEPT ![fd] = m],
           read' = [read EXCEPT ![fd] = r], seen' = [seen EXCEPT ![fd] = n],
           \/ m = "closed"
           \/ Opened(fd) /\ q = trans[fd] /\ st = status[fd]
           \/ q = Announced /\ st = AllEmpty,
           ~r.on \/ (\A s \in Slots : r.packet.word[s] \in {1, 3} => r.packet.figs[s] # NoFig)
    PROVE  PortalInv'
  <1>1. TypeOK'
    BY DEF PortalInv, TypeOK
  <1>2. \A e \in Fds : /\ trans'[e] = IF e = fd THEN q ELSE trans[e]
                       /\ status'[e] = IF e = fd THEN st ELSE status[e]
                       /\ mode'[e] = IF e = fd THEN m ELSE mode[e]
                       /\ read'[e] = IF e = fd THEN r ELSE read[e]
    BY DEF PortalInv, TypeOK
  <1>3. EndsRight'
    <2> SUFFICES ASSUME NEW e \in Fds, NEW s \in Slots, Opened(e)'
                 PROVE  /\ trans'[e][s] = Empty
                              => status'[e][s] = IF fig'[s] # NoFig THEN 1 ELSE 0
                        /\ trans'[e][s] # Empty
                              => (Final(trans'[e][s]) = 1 <=> fig'[s] # NoFig)
      BY DEF EndsRight
    <2>1. CASE e # fd
      BY <1>2, <2>1 DEF PortalInv, EndsRight, Opened
    <2>2. CASE e = fd /\ Opened(fd) /\ q = trans[fd] /\ st = status[fd]
      BY <1>2, <2>2 DEF PortalInv, EndsRight
    <2>3. CASE e = fd /\ q = Announced /\ st = AllEmpty
      BY <1>2, <2>3, QueueFacts DEF Announced, AllEmpty
    <2>4. e = fd => m # "closed"
      BY <1>2 DEF Opened
    <2> QED BY <2>1, <2>2, <2>3, <2>4
  <1>4. PacketTrue'
    BY <1>2 DEF PortalInv, PacketTrue, Reading
  <1> QED BY <1>1, <1>3, <1>4 DEF PortalInv
LEMMA AnnouncedType == TypeOK => Announced \in [Slots -> Queues]
  BY QueueFacts DEF Announced, TypeOK

LEMMA SessionActions ==
    ASSUME PortalInv, NEW fd \in Fds,
           \/ GetVersion(fd) \/ Shutdown(fd) \/ Activate(fd) \/ Close(fd)
           \/ SubmitRead(fd) \/ Cancel(fd)
    PROVE  PortalInv'
  <1> DEFINE R == [on : BOOLEAN, fresh : BOOLEAN, ctr : Counters, packet : Packets]
             P == [packet : Packets, ctr : Counters]
  <1>1. /\ trans \in [Fds -> [Slots -> Queues]] /\ status \in [Fds -> [Slots -> States]]
        /\ counter \in [Fds -> Counters] /\ mode \in [Fds -> {"closed", "active", "inactive"}]
        /\ read \in [Fds -> R] /\ seen \in [Fds -> P]
        /\ Announced \in [Slots -> Queues]
    BY AnnouncedType DEF PortalInv, TypeOK
  <1>2. /\ trans = [trans EXCEPT ![fd] = trans[fd]]
        /\ status = [status EXCEPT ![fd] = status[fd]]
        /\ counter = [counter EXCEPT ![fd] = counter[fd]]
        /\ mode = [mode EXCEPT ![fd] = mode[fd]]
        /\ read = [read EXCEPT ![fd] = read[fd]]
        /\ seen = [seen EXCEPT ![fd] = seen[fd]]
    BY <1>1
  <1>3. /\ trans[fd] \in [Slots -> Queues] /\ status[fd] \in [Slots -> States]
        /\ counter[fd] \in Counters /\ mode[fd] \in {"closed", "active", "inactive"}
        /\ read[fd] \in R /\ seen[fd] \in P
    BY <1>1
  <1>4. CASE GetVersion(fd)
    <2>1. UNCHANGED fig /\ "active" \in {"closed", "active", "inactive"}
      BY <1>4 DEF GetVersion
    <2>2. /\ trans' = [trans EXCEPT ![fd] = Announced]
          /\ status' = [status EXCEPT ![fd] = AllEmpty]
          /\ counter' = [counter EXCEPT ![fd] = 0]
          /\ mode' = [mode EXCEPT ![fd] = "active"]
          /\ read' = [read EXCEPT ![fd] = NoRead]
          /\ seen' = [seen EXCEPT ![fd] = NothingSeen]
      BY <1>4 DEF GetVersion
    <2> QED BY <1>1, <2>1, <2>2, BlankFacts, SessionStep
  <1>5. CASE Shutdown(fd)
    <2>1. UNCHANGED fig /\ "inactive" \in {"closed", "active", "inactive"} /\ Opened(fd)
      BY <1>5 DEF Shutdown
    <2>2. /\ trans' = [trans EXCEPT ![fd] = trans[fd]]
          /\ status' = [status EXCEPT ![fd] = status[fd]]
          /\ counter' = [counter EXCEPT ![fd] = counter[fd]]
          /\ mode' = [mode EXCEPT ![fd] = "inactive"]
          /\ read' = [read EXCEPT ![fd] = NoRead]
          /\ seen' = [seen EXCEPT ![fd] = seen[fd]]
      BY <1>2, <1>5 DEF Shutdown
    <2> QED BY <1>3, <2>1, <2>2, BlankFacts, SessionStep
  <1>6. CASE Activate(fd) /\ mode[fd] = "inactive"
    <2> DEFINE n == [packet |-> Blank, ctr |-> seen[fd].ctr]
    <2>1. UNCHANGED fig /\ "active" \in {"closed", "active", "inactive"}
      BY <1>6 DEF Activate
    <2>2. n \in P /\ Stale(fd) \in R
      BY <1>3, BlankFacts, StaleRead DEF PortalInv
    <2>3. /\ trans' = [trans EXCEPT ![fd] = Announced]
          /\ status' = [status EXCEPT ![fd] = AllEmpty]
          /\ counter' = [counter EXCEPT ![fd] = counter[fd]]
          /\ mode' = [mode EXCEPT ![fd] = "active"]
          /\ read' = [read EXCEPT ![fd] = Stale(fd)]
      BY <1>2, <1>6 DEF Activate
    <2>4. seen' = [seen EXCEPT ![fd] = n]
      BY <1>1, <1>6 DEF Activate
    <2>5. ~Stale(fd).on \/ (\A s \in Slots : Stale(fd).packet.word[s] \in {1, 3}
                                          => Stale(fd).packet.figs[s] # NoFig)
      BY StaleRead DEF PortalInv, PacketTrue, Reading
    <2> HIDE DEF n
    <2> QED BY <1>1, <1>3, <2>1, <2>2, <2>3, <2>4, <2>5, BlankFacts, SessionStep
  <1>7. CASE Activate(fd) /\ mode[fd] # "inactive"
    <2>1. UNCHANGED fig /\ "active" \in {"closed", "active", "inactive"} /\ Opened(fd)
      BY <1>7 DEF Activate
    <2>2. /\ trans' = [trans EXCEPT ![fd] = trans[fd]]
          /\ status' = [status EXCEPT ![fd] = status[fd]]
          /\ counter' = [counter EXCEPT ![fd] = counter[fd]]
          /\ mode' = [mode EXCEPT ![fd] = "active"]
          /\ read' = [read EXCEPT ![fd] = read[fd]]
          /\ seen' = [seen EXCEPT ![fd] = seen[fd]]
      BY <1>2, <1>7 DEF Activate
    <2>3. ~read[fd].on \/ (\A s \in Slots : read[fd].packet.word[s] \in {1, 3}
                                         => read[fd].packet.figs[s] # NoFig)
      BY DEF PortalInv, PacketTrue, Reading
    <2> QED BY <1>3, <2>1, <2>2, <2>3, SessionStep
  <1>8. CASE Close(fd)
    <2>1. UNCHANGED fig /\ "closed" \in {"closed", "active", "inactive"}
      BY <1>8 DEF Close
    <2>2. /\ trans' = [trans EXCEPT ![fd] = AllEmpty]
          /\ status' = [status EXCEPT ![fd] = AllEmpty]
          /\ counter' = [counter EXCEPT ![fd] = 0]
          /\ mode' = [mode EXCEPT ![fd] = "closed"]
          /\ read' = [read EXCEPT ![fd] = NoRead]
          /\ seen' = [seen EXCEPT ![fd] = NothingSeen]
      BY <1>8 DEF Close
    <2> QED BY <2>1, <2>2, BlankFacts, SessionStep
  <1>9. CASE SubmitRead(fd)
    <2> DEFINE r == [on |-> TRUE, fresh |-> TRUE, ctr |-> counter[fd], packet |-> Packet(fd)]
    <2>1. UNCHANGED fig /\ Opened(fd)
      BY <1>9 DEF SubmitRead
    <2>2. /\ Packet(fd) \in Packets
          /\ \A s \in Slots : Packet(fd).word[s] \in {1, 3} => Packet(fd).figs[s] # NoFig
      BY <2>1, PacketBuilt DEF PortalInv
    <2>3. /\ r \in R
          /\ \A s \in Slots : r.packet.word[s] \in {1, 3} => r.packet.figs[s] # NoFig
      <3>1. r.packet = Packet(fd)
        OBVIOUS
      <3>2. r \in R
        BY <1>3, <2>2
      <3> QED BY <2>2, <3>1, <3>2
    <2>4. /\ trans' = [trans EXCEPT ![fd] = trans[fd]]
          /\ status' = [status EXCEPT ![fd] = status[fd]]
          /\ counter' = [counter EXCEPT ![fd] = counter[fd]]
          /\ mode' = [mode EXCEPT ![fd] = mode[fd]]
          /\ read' = [read EXCEPT ![fd] = r]
          /\ seen' = [seen EXCEPT ![fd] = seen[fd]]
      BY <1>2, <1>9 DEF SubmitRead
    <2> HIDE DEF r
    <2> QED BY <1>3, <2>1, <2>3, <2>4, SessionStep
  <1>10. CASE Cancel(fd)
    <2>1. UNCHANGED <<fig, trans, status, counter, mode, seen>>
          /\ read' = [read EXCEPT ![fd] = NoRead]
      BY <1>10 DEF Cancel
    <2>2. TypeOK'
      BY <2>1, BlankFacts DEF PortalInv, TypeOK
    <2>3. EndsRight'
      BY <2>1 DEF PortalInv, EndsRight, Opened
    <2>4. PacketTrue'
      BY <1>1, <2>1, BlankFacts DEF PortalInv, PacketTrue, Reading
    <2> QED BY <2>2, <2>3, <2>4 DEF PortalInv
  <1> QED BY <1>4, <1>5, <1>6, <1>7, <1>8, <1>9, <1>10
-----------------------------------------------------------------------------
\* A delivery consumes one transition of every slot, or none.
LEMMA DeliverStep ==
    ASSUME PortalInv, Deliver
    PROVE  PortalInv'
  <1>1. ASSUME NEW fd \in Fds, NEW s \in Slots
        PROVE  /\ trans'[fd][s] = IF Commits(fd, s) THEN Rest(trans[fd][s])
                                  ELSE trans[fd][s]
               /\ status'[fd][s] = IF Commits(fd, s) THEN NextState(trans[fd][s])
                                   ELSE status[fd][s]
               /\ trans[fd][s] \in Queues /\ status[fd][s] \in States
               /\ Commits(fd, s) => trans[fd][s] # Empty
    BY DEF Deliver, PortalInv, TypeOK, Commits
  <1>2. ASSUME NEW fd \in Fds, NEW s \in Slots
        PROVE  trans'[fd][s] \in Queues /\ status'[fd][s] \in States
    BY <1>1, QueueFacts
  <1>3. trans' \in [Fds -> [Slots -> Queues]] /\ status' \in [Fds -> [Slots -> States]]
    <2>1. /\ trans' = [fd \in Fds |-> [s \in Slots |-> trans'[fd][s]]]
          /\ status' = [fd \in Fds |-> [s \in Slots |-> status'[fd][s]]]
      BY DEF Deliver
    <2> QED BY <1>2, <2>1
  <1>4. counter' \in [Fds -> Counters]
    BY BlankFacts DEF Deliver, PortalInv, TypeOK
  <1>5. seen' \in [Fds -> [packet : Packets, ctr : Counters]]
    BY DEF Deliver, PortalInv, TypeOK
  <1>6. read' = [fd \in Fds |-> NoRead] /\ UNCHANGED <<fig, mode>>
    BY DEF Deliver
  <1>7. TypeOK'
    BY <1>3, <1>4, <1>5, <1>6, BlankFacts DEF PortalInv, TypeOK
  <1>8. EndsRight'
    <2> SUFFICES ASSUME NEW fd \in Fds, NEW s \in Slots, Opened(fd)
                 PROVE  /\ trans'[fd][s] = Empty
                              => status'[fd][s] = IF fig[s] # NoFig THEN 1 ELSE 0
                        /\ trans'[fd][s] # Empty
                              => (Final(trans'[fd][s]) = 1 <=> fig[s] # NoFig)
      BY <1>6 DEF EndsRight, Opened
    <2>1. /\ trans[fd][s] = Empty => status[fd][s] = IF fig[s] # NoFig THEN 1 ELSE 0
          /\ trans[fd][s] # Empty => (Final(trans[fd][s]) = 1 <=> fig[s] # NoFig)
      BY DEF PortalInv, EndsRight
    <2>2. CASE Commits(fd, s)
      <3> DEFINE q == trans[fd][s]
      <3>1. q \in Queues \ {Empty}
        BY <1>1, <2>2
      <3>2. /\ Final(q) \in {0, 1} /\ (Final(q) = 1 <=> fig[s] # NoFig)
            /\ trans'[fd][s] = Rest(q) /\ status'[fd][s] = NextState(q)
        BY <1>1, <2>1, <2>2, <3>1 DEF Final
      <3>3. /\ Rest(q) = Empty => NextState(q) = Final(q)
            /\ Rest(q) # Empty => Final(Rest(q)) = Final(q)
        BY <3>1, QueueFacts
      <3> HIDE DEF q
      <3>4. CASE Rest(q) = Empty
        BY <3>2, <3>3, <3>4
      <3>5. CASE Rest(q) # Empty
        BY <3>2, <3>3, <3>5
      <3> QED BY <3>4, <3>5
    <2>3. CASE ~Commits(fd, s)
      BY <1>1, <2>1, <2>3
    <2> QED BY <2>2, <2>3
  <1>9. PacketTrue'
    BY <1>6, BlankFacts DEF PacketTrue, Reading
  <1> QED BY <1>7, <1>8, <1>9 DEF PortalInv

\* Types, the right end of every queue and the truth of packets in flight are
\* kept by every step, whatever the interleaving of reads, cancels, removals,
\* insertions, rescans and sessions.
THEOREM PortalInvariant == Spec => []PortalInv
  <1>1. Init => PortalInv
    BY PortalInit
  <1>2. PortalInv /\ [Next]_vars => PortalInv'
    <2> SUFFICES ASSUME PortalInv, [Next]_vars PROVE PortalInv' OBVIOUS
    <2>1. CASE UNCHANGED vars
      BY <2>1 DEF vars, PortalInv, TypeOK, EndsRight, PacketTrue, Reading, Opened
    <2>2. CASE Next
      BY <2>2, RemoveStep, InsertStep, RescanStep, SessionActions, DeliverStep DEF Next, Moves
    <2> QED BY <2>1, <2>2
  <1> QED BY <1>1, <1>2, PTL DEF Spec

\* However the events and the reads interleave, what a session has queued for a
\* slot ends where the slot is (e12_event, e12_announce, e12_status_commit).
THEOREM QueuesEndRight == Spec => []EndsRight
  <1>1. PortalInv => EndsRight
    BY DEF PortalInv
  <1> QED BY <1>1, PortalInvariant, PTL

\* e12_status_packet shows a figure only where there is one.
THEOREM PacketsAreTrue == Spec => []PacketTrue
  <1>1. PortalInv => PacketTrue
    BY DEF PortalInv
  <1> QED BY <1>1, PortalInvariant, PTL
-----------------------------------------------------------------------------
\* The story the packets tell of one slot to one session.

\* What a packet built now says of a slot.
Word(fd, s) == IF trans[fd][s] # Empty THEN NextState(trans[fd][s]) ELSE status[fd][s]

Occupied(w) == w \in {1, 3}

\* The figure of the slot was reported, or is about to be shown as present.
Settled(fd, s) == trans[fd][s] = Shown \/ (trans[fd][s] = Empty /\ status[fd][s] = 1)

\* The departure of the figure was reported, or there was none.
Vacated(fd, s) == trans[fd][s] \in {Gone, Reinsert}
                  \/ (trans[fd][s] = Empty /\ status[fd][s] = 0)

\* A packet in flight that the game will pay attention to.
Flying(fd) == Reading(fd) /\ read[fd].packet.active

\* A packet that is not stale is the one that would be built now.
FreshPacket(fd, s) ==
    Reading(fd) =>
        /\ read[fd].packet.active => mode[fd] = "active"
        /\ read[fd].fresh => /\ read[fd].packet.active <=> mode[fd] = "active"
                             /\ read[fd].packet.word[s] = Word(fd, s)

\* The figure of a settled slot was shown in the last packet and is shown in the
\* one in flight; no packet shows a figure as present first.
ArrivalTold(fd, s) ==
    mode[fd] = "active" =>
        /\ Settled(fd, s) => Occupied(seen[fd].packet.word[s])
        /\ Flying(fd) => /\ Settled(fd, s) => Occupied(read[fd].packet.word[s])
                         /\ read[fd].packet.word[s] = 1 => Occupied(seen[fd].packet.word[s])

ArrivalInv == \A fd \in Fds, s \in Slots : FreshPacket(fd, s) /\ ArrivalTold(fd, s)

\* What a packet p of the game can say of a slot, by where its queue stands.
Knows(fd, s, p) ==
    /\ Vacated(fd, s) => p.word[s] \in {0, 2}
    /\ trans[fd][s] = Arrive => p.word[s] \in {0, 2} \/ p.figs[s] = fig[s]
    /\ Settled(fd, s) => Occupied(p.word[s]) /\ p.figs[s] = fig[s]

\* Packet n may come after packet p.
Follows(p, n, s) ==
    /\ Occupied(p.word[s]) /\ Occupied(n.word[s]) => p.figs[s] = n.figs[s]
    /\ n.word[s] = 0 => p.word[s] \in {0, 2}

DepartureTold(fd, s) ==
    mode[fd] = "active" =>
        /\ Knows(fd, s, seen[fd].packet)
        /\ Flying(fd) => /\ Knows(fd, s, read[fd].packet)
                         /\ Follows(seen[fd].packet, read[fd].packet, s)

DepartureInv == ~rescans => \A fd \in Fds, s \in Slots : DepartureTold(fd, s)

\* The packet counter goes on from the last packet the game got.
CounterOf(fd) ==
    /\ counter[fd] = (seen[fd].ctr + 1) % CounterMod
    /\ Reading(fd) => read[fd].ctr = counter[fd]
CounterInv == \A fd \in Fds : CounterOf(fd)
-----------------------------------------------------------------------------
\* What a step can do to a slot in a session, whoever takes it.
Kept(fd, s) ==
    /\ trans'[fd][s] = trans[fd][s] /\ status'[fd][s] = status[fd][s]
    /\ fig'[s] = fig[s] /\ mode'[fd] = mode[fd]

Waits(fd, s) ==
    /\ Kept(fd, s) /\ seen'[fd] = seen[fd]
    /\ read'[fd] = read[fd] \/ read'[fd] = Stale(fd) \/ ~read'[fd].on

Built(fd, s) ==
    /\ Kept(fd, s) /\ seen'[fd] = seen[fd]
    /\ read'[fd].fresh /\ read'[fd].packet = Packet(fd)

Disturbed(fd) == mode'[fd] = mode[fd] /\ seen'[fd] = seen[fd] /\ read'[fd] = Stale(fd)

Left(fd, s) ==
    /\ Disturbed(fd) /\ status'[fd][s] = status[fd][s]
    /\ fig[s] # NoFig /\ fig'[s] = NoFig /\ trans'[fd][s] = Leave

Entered(fd, s) ==
    /\ Disturbed(fd) /\ status'[fd][s] = status[fd][s]
    /\ fig[s] = NoFig /\ fig'[s] # NoFig /\ trans'[fd][s] = AfterInsert(trans[fd][s])

Rescanned(fd, s) ==
    /\ Disturbed(fd) /\ fig'[s] = fig[s] /\ status'[fd][s] = 0
    /\ trans'[fd][s] = IF fig[s] # NoFig THEN Reinsert ELSE Empty

Restarted(fd, s) ==
    /\ fig'[s] = fig[s] /\ status'[fd][s] = 0
    /\ trans'[fd][s] = IF fig[s] # NoFig THEN Arrive ELSE Empty
    /\ mode'[fd] = "active" /\ seen'[fd].packet = Blank
    /\ \/ ~read'[fd].on
       \/ mode[fd] = "inactive" /\ read'[fd] = Stale(fd)

Ended(fd) ==
    /\ mode'[fd] # "active" /\ ~read'[fd].on
    /\ seen'[fd].packet \in {seen[fd].packet, Blank}

Told(fd, s) ==
    /\ fig'[s] = fig[s] /\ mode'[fd] = mode[fd] /\ ~read'[fd].on
    /\ IF Commits(fd, s)
       THEN /\ trans'[fd][s] = Rest(trans[fd][s])
            /\ status'[fd][s] = NextState(trans[fd][s])
       ELSE Kept(fd, s)
    /\ seen'[fd].packet = IF Flying(fd) THEN read[fd].packet ELSE seen[fd].packet

SlotStep(fd, s) ==
    \/ Waits(fd, s) \/ Built(fd, s) \/ Left(fd, s) \/ Entered(fd, s)
    \/ Restarted(fd, s) \/ Ended(fd) \/ Told(fd, s)

\* Every step but a rescan is, for every slot of every session, one of these.
LEMMA MoveOfSlot ==
    ASSUME PortalInv, Moves, NEW fd \in Fds, NEW s \in Slots
    PROVE  SlotStep(fd, s)
  <1>1. /\ fig \in [Slots -> Figs \cup {NoFig}]
        /\ trans \in [Fds -> [Slots -> Queues]] /\ status \in [Fds -> [Slots -> States]]
        /\ mode \in [Fds -> {"closed", "active", "inactive"}]
        /\ read \in [Fds -> [on : BOOLEAN, fresh : BOOLEAN, ctr : Counters, packet : Packets]]
        /\ seen \in [Fds -> [packet : Packets, ctr : Counters]]
    BY DEF PortalInv, TypeOK
  <1>2. ASSUME NEW t \in Slots, Remove(t)
        PROVE  Waits(fd, s) \/ Left(fd, s)
    <2>1. CASE t = s
      BY <1>1, <1>2, <2>1 DEF Remove, Feed!Leaves, AllStale, Left, Disturbed
    <2>2. CASE t # s
      BY <1>1, <1>2, <2>2 DEF Remove, Feed!Leaves, AllStale, Waits, Kept
    <2> QED BY <2>1, <2>2
  <1>3. ASSUME NEW t \in Slots, NEW f \in Figs, Insert(t, f)
        PROVE  Waits(fd, s) \/ Entered(fd, s)
    <2>1. CASE t = s
      BY <1>1, <1>3, <2>1, PortalAssumption
         DEF Insert, Feed!Enters, AllStale, Entered, Disturbed
    <2>2. CASE t # s
      BY <1>1, <1>3, <2>2 DEF Insert, Feed!Enters, AllStale, Waits, Kept
    <2> QED BY <2>1, <2>2
  <1>4. ASSUME NEW e \in Fds, e # fd,
               \/ GetVersion(e) \/ Shutdown(e) \/ Activate(e) \/ Close(e)
               \/ SubmitRead(e) \/ Cancel(e)
        PROVE  Waits(fd, s)
    BY <1>1, <1>4
       DEF GetVersion, Shutdown, Activate, Close, SubmitRead, Cancel, Waits, Kept
  <1>5. CASE GetVersion(fd)
    BY <1>1, <1>5, BlankFacts DEF SlotStep, GetVersion, Restarted, Announced, AllEmpty, NothingSeen
  <1>6. CASE Shutdown(fd) \/ Close(fd)
    BY <1>1, <1>6, BlankFacts DEF SlotStep, Shutdown, Close, Ended, NothingSeen
  <1>7. CASE Activate(fd)
    <2>1. CASE mode[fd] = "inactive"
      BY <1>1, <1>7, <2>1 DEF SlotStep, Activate, Restarted, Announced, AllEmpty
    <2>2. CASE mode[fd] # "inactive"
      BY <1>1, <1>7, <2>2 DEF SlotStep, Activate, Waits, Kept, Opened
    <2> QED BY <2>1, <2>2
  <1>8. CASE SubmitRead(fd)
    BY <1>1, <1>8 DEF SlotStep, SubmitRead, Built, Kept
  <1>9. CASE Cancel(fd)
    BY <1>1, <1>9, BlankFacts DEF SlotStep, Cancel, Waits, Kept
  <1>10. CASE Deliver
    BY <1>1, <1>10, BlankFacts DEF SlotStep, Deliver, Told, Kept, Commits, Flying, Reading
  <1> QED BY <1>2, <1>3, <1>4, <1>5, <1>6, <1>7, <1>8, <1>9, <1>10 DEF Moves, SlotStep

LEMMA RescanOfSlot ==
    ASSUME PortalInv, Rescan, NEW fd \in Fds, NEW s \in Slots
    PROVE  Rescanned(fd, s)
  BY DEF Rescan, Rescanned, Disturbed, AllStale, AllEmpty, PortalInv, TypeOK

\* The queues one by one.
LEMMA QueueCourse ==
    /\ NextState(Gone) = 0 /\ Rest(Gone) = Empty
    /\ NextState(Leave) = 2 /\ Rest(Leave) = Gone
    /\ NextState(Shown) = 1 /\ Rest(Shown) = Empty
    /\ NextState(Arrive) = 3 /\ Rest(Arrive) = Shown
    /\ NextState(Reinsert) = 0 /\ Rest(Reinsert) = Arrive
    /\ NextState(Replace) = 2 /\ Rest(Replace) = Reinsert
    /\ \A q \in Queues : AfterInsert(q) \in {Reinsert, Replace, Arrive}
  BY DEF Empty, Gone, Leave, Shown, Arrive, Reinsert, Replace, Rest, NextState, AfterInsert

LEMMA QueuesDiffer ==
    /\ Empty # Gone /\ Empty # Leave /\ Empty # Shown /\ Empty # Arrive /\ Empty # Reinsert
    /\ Empty # Replace /\ Gone # Leave /\ Gone # Shown /\ Gone # Arrive /\ Gone # Reinsert
    /\ Gone # Replace /\ Leave # Shown /\ Leave # Arrive /\ Leave # Reinsert
    /\ Leave # Replace /\ Shown # Arrive /\ Shown # Reinsert /\ Shown # Replace
    /\ Arrive # Reinsert /\ Arrive # Replace /\ Reinsert # Replace
  BY DEF Empty, Gone, Leave, Shown, Arrive, Reinsert, Replace

\* What is known of a slot in a session before a step.
SlotTruth(fd, s) ==
    /\ trans[fd][s] \in Queues /\ status[fd][s] \in States
    /\ mode[fd] = "active" =>
          /\ trans[fd][s] = Empty => status[fd][s] = IF fig[s] # NoFig THEN 1 ELSE 0
          /\ trans[fd][s] \in {Leave, Gone} => fig[s] = NoFig
          /\ trans[fd][s] \in {Shown, Arrive, Reinsert, Replace} => fig[s] # NoFig
    /\ Stale(fd).on = read[fd].on /\ Stale(fd).packet = read[fd].packet
    /\ Stale(fd).fresh = FALSE
    /\ Packet(fd).word[s] = Word(fd, s) /\ Packet(fd).figs = fig
    /\ Packet(fd).active <=> mode[fd] = "active"
    /\ Blank.word[s] = 0

LEMMA SlotFacts ==
    ASSUME PortalInv, NEW fd \in Fds, NEW s \in Slots
    PROVE  SlotTruth(fd, s)
  <1>1. trans[fd][s] \in Queues /\ status[fd][s] \in States
    BY DEF PortalInv, TypeOK
  <1>2. mode[fd] = "active" =>
           /\ trans[fd][s] = Empty => status[fd][s] = IF fig[s] # NoFig THEN 1 ELSE 0
           /\ trans[fd][s] # Empty => (Final(trans[fd][s]) = 1 <=> fig[s] # NoFig)
    BY DEF PortalInv, EndsRight, Opened
  <1>3. mode[fd] = "active" =>
           /\ trans[fd][s] \in {Leave, Gone} => fig[s] = NoFig
           /\ trans[fd][s] \in {Shown, Arrive, Reinsert, Replace} => fig[s] # NoFig
    BY <1>2, QueuesDiffer DEF Final
  <1>4. /\ Stale(fd).on = read[fd].on /\ Stale(fd).packet = read[fd].packet
        /\ Stale(fd).fresh = FALSE
    BY DEF PortalInv, TypeOK, Stale
  <1>5. /\ Packet(fd).word[s] = Word(fd, s) /\ Packet(fd).figs = fig
        /\ Packet(fd).active <=> mode[fd] = "active"
    BY DEF Packet, Word
  <1>6. Blank.word[s] = 0
    BY DEF Blank
  <1> QED BY <1>1, <1>2, <1>3, <1>4, <1>5, <1>6 DEF SlotTruth

\* A step, or a rescan, keeps the story of the arrival of a slot.
LEMMA SlotArrival ==
    ASSUME PortalInv, NEW fd \in Fds, NEW s \in Slots, SlotStep(fd, s) \/ Rescanned(fd, s),
           FreshPacket(fd, s), ArrivalTold(fd, s)
    PROVE  FreshPacket(fd, s)' /\ ArrivalTold(fd, s)'
  <1>0. SlotTruth(fd, s)
    BY SlotFacts
  <1> USE <1>0 DEF SlotTruth, FreshPacket, ArrivalTold, Settled, Occupied, Flying, Reading, Word
  <1>1. CASE Waits(fd, s)
    BY <1>1 DEF Waits, Kept
  <1>2. CASE Built(fd, s)
    BY <1>2, QueueCourse DEF Built, Kept, Queues
  <1>3. CASE Left(fd, s)
    BY <1>3, QueuesDiffer DEF Left, Disturbed
  <1>4. CASE Entered(fd, s)
    BY <1>4, QueueCourse, QueuesDiffer DEF Entered, Disturbed
  <1>5. CASE Rescanned(fd, s)
    BY <1>5, QueuesDiffer DEF Rescanned, Disturbed
  <1>6. CASE Restarted(fd, s)
    BY <1>6, QueuesDiffer DEF Restarted
  <1>7. CASE Ended(fd)
    BY <1>7 DEF Ended
  <1>8. CASE Told(fd, s)
    <2>1. CASE Commits(fd, s)
      BY <1>8, <2>1, QueueCourse, QueuesDiffer DEF Told, Commits, Queues
    <2>2. CASE ~Commits(fd, s)
      BY <1>8, <2>2 DEF Told, Kept, Commits
    <2> QED BY <2>1, <2>2
  <1> QED BY <1>1, <1>2, <1>3, <1>4, <1>5, <1>6, <1>7, <1>8 DEF SlotStep

LEMMA ArrivalStep == PortalInv /\ ArrivalInv /\ [Next]_vars => ArrivalInv'
  <1> SUFFICES ASSUME PortalInv, ArrivalInv, [Next]_vars, NEW fd \in Fds, NEW s \in Slots
               PROVE  FreshPacket(fd, s)' /\ ArrivalTold(fd, s)'
    BY DEF ArrivalInv
  <1>1. FreshPacket(fd, s) /\ ArrivalTold(fd, s)
    BY DEF ArrivalInv
  <1>2. CASE Next
    BY <1>1, <1>2, MoveOfSlot, RescanOfSlot, SlotArrival DEF Next
  <1>3. CASE UNCHANGED vars
    BY <1>1, <1>3
       DEF vars, FreshPacket, ArrivalTold, Settled, Occupied, Flying, Reading, Word
  <1> QED BY <1>2, <1>3

LEMMA ArrivalInit == Init => ArrivalInv
  BY BlankFacts DEF Init, ArrivalInv, FreshPacket, ArrivalTold, Reading

\* Where the queue of a slot stands says what its packets have shown.
THEOREM ArrivalInvariant == Spec => []ArrivalInv
  BY ArrivalInit, ArrivalStep, PortalInvariant, PTL DEF Spec

\* No packet shows a figure as present before one showed it as arriving, whatever
\* is cancelled, rescanned or moved between the packets (e12_status_commit).
THEOREM ArrivalsAreReported == Spec => ArrivalReported
  <1>1. ASSUME PortalInv, ArrivalInv, [Next]_vars, NEW fd \in Fds, NEW s \in Slots,
               DeliveredActive(fd), seen'[fd].packet.word[s] = 1
        PROVE  seen[fd].packet.word[s] \in {1, 3}
    <2>1. Reading(fd) /\ read[fd].packet.active /\ seen'[fd].packet = read[fd].packet
      BY <1>1 DEF DeliveredActive, Delivered, Deliver
    <2> QED BY <1>1, <2>1 DEF ArrivalInv, FreshPacket, ArrivalTold, Flying, Occupied
  <1>2. PortalInv /\ ArrivalInv /\ [Next]_vars =>
           [\A fd \in Fds, s \in Slots :
              DeliveredActive(fd) /\ seen'[fd].packet.word[s] = 1
              => seen[fd].packet.word[s] \in {1, 3}]_vars
    BY <1>1
  <1> QED BY <1>2, PortalInvariant, ArrivalInvariant, PTL DEF Spec, ArrivalReported
-----------------------------------------------------------------------------
\* A step that is not a rescan keeps the story of the departure of a slot.
LEMMA SlotDeparture ==
    ASSUME PortalInv, NEW fd \in Fds, NEW s \in Slots, SlotStep(fd, s),
           FreshPacket(fd, s), DepartureTold(fd, s)
    PROVE  DepartureTold(fd, s)'
  <1>0. SlotTruth(fd, s)
    BY SlotFacts
  <1> USE <1>0 DEF SlotTruth, FreshPacket, DepartureTold, Knows, Follows, Settled, Vacated,
                   Occupied, Flying, Reading, Word
  <1>1. CASE Waits(fd, s)
    BY <1>1 DEF Waits, Kept
  <1>2. CASE Built(fd, s)
    BY <1>2, QueueCourse, QueuesDiffer DEF Built, Kept, Queues
  <1>3. CASE Left(fd, s)
    BY <1>3, QueuesDiffer DEF Left, Disturbed
  <1>4. CASE Entered(fd, s)
    BY <1>4, QueueCourse, QueuesDiffer DEF Entered, Disturbed, AfterInsert, Queues
  <1>6. CASE Restarted(fd, s)
    BY <1>6, QueuesDiffer DEF Restarted
  <1>7. CASE Ended(fd)
    BY <1>7 DEF Ended
  <1>8. CASE Told(fd, s)
    <2>1. CASE Commits(fd, s)
      BY <1>8, <2>1, QueueCourse, QueuesDiffer DEF Told, Commits, Queues
    <2>2. CASE ~Commits(fd, s)
      BY <1>8, <2>2 DEF Told, Kept, Commits
    <2> QED BY <2>1, <2>2
  <1> QED BY <1>1, <1>2, <1>3, <1>4, <1>6, <1>7, <1>8 DEF SlotStep

LEMMA RescanStepIsStep == [RescanNext]_<<vars, rescans>> => [Next]_vars
  BY DEF RescanNext, Next

LEMMA DepartureStep ==
    PortalInv /\ ArrivalInv /\ DepartureInv /\ [RescanNext]_<<vars, rescans>>
    => DepartureInv'
  <1> SUFFICES ASSUME PortalInv, ArrivalInv, DepartureInv, [RescanNext]_<<vars, rescans>>,
                      ~rescans', NEW fd \in Fds, NEW s \in Slots
               PROVE  DepartureTold(fd, s)'
    BY DEF DepartureInv
  <1>1. ~rescans
    BY DEF RescanNext
  <1>2. FreshPacket(fd, s) /\ DepartureTold(fd, s)
    BY <1>1 DEF ArrivalInv, DepartureInv
  <1>3. CASE Moves
    BY <1>2, <1>3, MoveOfSlot, SlotDeparture
  <1>4. CASE UNCHANGED vars
    BY <1>2, <1>4 DEF vars, DepartureTold, Knows, Follows, Settled, Vacated, Occupied, Flying,
                      Reading
  <1> QED BY <1>1, <1>3, <1>4 DEF RescanNext

LEMMA DepartureInit == RescanInit => DepartureInv
  BY DEF RescanInit, Init, DepartureInv, DepartureTold

\* Without rescans it says which figure the game still believes to be there.
THEOREM DepartureInvariant == RescanSpec => []DepartureInv
  <1>1. RescanSpec => Spec
    BY RescanStepIsStep, PTL DEF RescanSpec, RescanInit, Spec
  <1> QED BY <1>1, DepartureInit, DepartureStep, PortalInvariant, ArrivalInvariant, PTL
          DEF RescanSpec

\* In a session without rescans the game is told of every departure, whatever it
\* cancels and whatever moves between two packets (e12_event).
THEOREM DeparturesAreReported == RescanSpec => DeparturesReported
  <1>1. RescanSpec => Spec
    BY RescanStepIsStep, PTL DEF RescanSpec, RescanInit, Spec
  <1>2. ASSUME PortalInv, ArrivalInv, DepartureInv, RescanNext, ~rescans
        PROVE  RemovedFirst /\ LeftFirst
    <2> SUFFICES ASSUME NEW fd \in Fds, NEW s \in Slots
                 PROVE  /\ LET old == Figure(seen[fd].packet, s)
                               new == Figure(seen'[fd].packet, s)
                           IN  old # NoFig /\ new # NoFig => old = new
                        /\ DeliveredActive(fd) /\ seen'[fd].packet.word[s] = 0
                           => seen[fd].packet.word[s] \in {0, 2}
      BY DEF RemovedFirst, LeftFirst
    <2>1. DepartureTold(fd, s) /\ FreshPacket(fd, s)
      BY <1>2 DEF ArrivalInv, DepartureInv
    <2>2. SlotStep(fd, s)
      BY <1>2, MoveOfSlot DEF RescanNext
    <2>3. CASE Flying(fd) /\ seen'[fd].packet = read[fd].packet
      BY <2>1, <2>3
         DEF DepartureTold, FreshPacket, Flying, Follows, Figure, Occupied
    <2>4. CASE seen'[fd].packet \in {seen[fd].packet, Blank} /\ ~DeliveredActive(fd)
      BY <2>4 DEF Figure, Blank
    <2>5. DeliveredActive(fd) => Flying(fd) /\ seen'[fd].packet = read[fd].packet
      BY DEF DeliveredActive, Delivered, Deliver, Flying
    <2>6. \/ Flying(fd) /\ seen'[fd].packet = read[fd].packet
          \/ seen'[fd].packet \in {seen[fd].packet, Blank}
      BY <2>2 DEF SlotStep, Waits, Built, Left, Entered, Disturbed, Restarted, Ended, Told
    <2> QED BY <2>3, <2>4, <2>5, <2>6
  <1>3. PortalInv /\ ArrivalInv /\ DepartureInv /\ [RescanNext]_<<vars, rescans>>
        => [~rescans => RemovedFirst /\ LeftFirst]_<<vars, rescans>>
    BY <1>2
  <1> QED BY <1>1, <1>3, PortalInvariant, ArrivalInvariant, DepartureInvariant, PTL
          DEF RescanSpec, DeparturesReported
-----------------------------------------------------------------------------
LEMMA CounterWraps == (CounterMod - 1 + 1) % CounterMod = 0
  BY PortalAssumption

LEMMA CounterStep == TypeOK /\ CounterInv /\ [Next]_vars => CounterInv'
  <1> SUFFICES ASSUME TypeOK, CounterInv, [Next]_vars, NEW fd \in Fds
               PROVE  CounterOf(fd)'
    BY DEF CounterInv
  <1>1. /\ counter[fd] = (seen[fd].ctr + 1) % CounterMod
        /\ read[fd].on => read[fd].ctr = counter[fd]
    BY DEF CounterInv, CounterOf, Reading
  <1>2. /\ Stale(fd).on = read[fd].on /\ Stale(fd).ctr = read[fd].ctr
        /\ NoRead.on = FALSE /\ NothingSeen.ctr = CounterMod - 1
    BY DEF TypeOK, Stale, NoRead, NothingSeen
  <1> USE <1>1, <1>2 DEF CounterOf, Reading, TypeOK
  <1>3. CASE AllStale /\ UNCHANGED <<counter, seen>>
    BY <1>3 DEF AllStale
  <1>4. ASSUME NEW e \in Fds, GetVersion(e) \/ Close(e) PROVE CounterOf(fd)'
    BY <1>4, CounterWraps DEF GetVersion, Close
  <1>5. ASSUME NEW e \in Fds, Shutdown(e) \/ Cancel(e)
        PROVE  CounterOf(fd)'
    BY <1>5 DEF Shutdown, Cancel
  <1>6. ASSUME NEW e \in Fds, Activate(e)
        PROVE  CounterOf(fd)'
    <2>1. UNCHANGED counter /\ read'[fd] \in {read[fd], Stale(fd)}
      BY <1>6 DEF Activate
    <2>2. CASE e = fd /\ mode[fd] = "inactive"
      <3>1. seen'[fd] = [seen[fd] EXCEPT !.packet = Blank]
        BY <1>6, <2>2 DEF Activate
      <3> QED BY <2>1, <3>1
    <2>3. CASE e # fd \/ mode[fd] # "inactive"
      BY <1>6, <2>1, <2>3 DEF Activate
    <2> QED BY <2>2, <2>3
  <1>7. ASSUME NEW e \in Fds, SubmitRead(e)
        PROVE  CounterOf(fd)'
    BY <1>7 DEF SubmitRead
  <1>8. CASE Deliver
    BY <1>8 DEF Deliver
  <1>9. CASE UNCHANGED vars
    BY <1>9 DEF vars
  <1> QED BY <1>3, <1>4, <1>5, <1>6, <1>7, <1>8, <1>9
          DEF Next, Moves, Remove, Insert, Rescan, Feed!Leaves, Feed!Enters

\* The next packet of a session continues the one before, also over a cancel.
THEOREM CounterInvariant == Spec => []CounterInv
  <1>1. Init => CounterInv
    <2>1. NothingSeen.ctr = CounterMod - 1 /\ NoRead.on = FALSE
      BY DEF NothingSeen, NoRead
    <2>2. ASSUME Init, NEW fd \in Fds
          PROVE  seen[fd].ctr = CounterMod - 1 /\ counter[fd] = 0 /\ ~read[fd].on
      BY <2>1, <2>2 DEF Init
    <2> QED BY <2>2, CounterWraps DEF CounterInv, CounterOf, Reading
  <1>2. PortalInv => TypeOK
    BY DEF PortalInv
  <1> QED BY <1>1, <1>2, CounterStep, PortalInvariant, PTL DEF Spec

\* The counters of the packets a session gets have no gap and no repetition,
\* whatever reads are cancelled (v4_status, e12_status_commit).
THEOREM CountersContinue == Spec => CounterContinuous
  <1>1. ASSUME CounterInv, NEW fd \in Fds, Delivered(fd)
        PROVE  seen'[fd].ctr = (seen[fd].ctr + 1) % CounterMod
    BY <1>1 DEF CounterInv, CounterOf, Delivered, Deliver
  <1>2. CounterInv /\ [Next]_vars =>
           [\A fd \in Fds :
              Delivered(fd) => seen'[fd].ctr = (seen[fd].ctr + 1) % CounterMod]_vars
    BY <1>1
  <1> QED BY <1>2, CounterInvariant, PTL DEF Spec, CounterContinuous
-----------------------------------------------------------------------------
\* The status packets take nothing of the storage for granted but FigureMoves:
\* what the portal shows moves as the storage moves it (e12_event).
THEOREM PortalFollowsMoves == Spec => Feed!MovesSpec
  <1>1. Init => Feed!MovesInit
    BY DEF Init, Feed!MovesInit
  <1>2. [Next]_vars => [Feed!MovesNext]_fig
    <2> SUFFICES ASSUME [Next]_vars PROVE Feed!MovesNext \/ UNCHANGED fig OBVIOUS
    <2>1. ASSUME NEW s \in Slots, Remove(s) PROVE Feed!MovesNext
      BY <2>1 DEF Remove, Feed!MovesNext
    <2>2. ASSUME NEW s \in Slots, NEW f \in Figs, Insert(s, f) PROVE Feed!MovesNext
      BY <2>2 DEF Insert, Feed!MovesNext
    <2>3. ASSUME NEW fd \in Fds,
                 \/ GetVersion(fd) \/ Shutdown(fd) \/ Activate(fd) \/ Close(fd)
                 \/ SubmitRead(fd) \/ Cancel(fd)
          PROVE  UNCHANGED fig
      BY <2>3 DEF GetVersion, Shutdown, Activate, Close, SubmitRead, Cancel
    <2>4. CASE Deliver \/ Rescan \/ UNCHANGED vars
      BY <2>4 DEF Deliver, Rescan, vars
    <2> QED BY <2>1, <2>2, <2>3, <2>4 DEF Next, Moves
  <1> QED BY <1>1, <1>2, PTL DEF Spec, Feed!MovesSpec

\* No figure is in two slots, whatever implements FigureMoves.
Apart == /\ fig \in [Slots -> Figs \cup {NoFig}]
         /\ \A s, t \in Slots : fig[s] = fig[t] => s = t \/ fig[s] = NoFig

\* The portal never shows one figure in two slots at once (e12_begin and
\* e09_complete refuse the second).
THEOREM FiguresApart == Feed!MovesSpec => []Apart
  <1>1. Feed!MovesInit => Apart
    BY DEF Feed!MovesInit, Apart
  <1>2. Apart /\ [Feed!MovesNext]_fig => Apart'
    <2> SUFFICES ASSUME Apart, [Feed!MovesNext]_fig PROVE Apart' OBVIOUS
    <2>1. ASSUME NEW s \in Slots, Feed!Leaves(s) PROVE Apart'
      BY <2>1 DEF Apart, Feed!Leaves
    <2>2. ASSUME NEW s \in Slots, NEW f \in Figs, Feed!Enters(s, f) PROVE Apart'
      BY <2>2, PortalAssumption DEF Apart, Feed!Enters
    <2> QED BY <2>1, <2>2 DEF Feed!MovesNext, Apart
  <1> QED BY <1>1, <1>2, PTL DEF Feed!MovesSpec
-----------------------------------------------------------------------------
\* What the last packets should say of a slot.
Here(s) == IF fig[s] # NoFig THEN 1 ELSE 0

\* The game knows, and no packet in flight says otherwise.
Informed(fd, s) ==
    /\ mode[fd] = "active" /\ trans[fd][s] = Empty
    /\ seen[fd].packet.word[s] = Here(s)
    /\ Reading(fd) => read[fd].packet.active /\ read[fd].packet.word[s] = Here(s)

\* A calm step brings the game nearer to the truth and never away from it: the
\* queues only shrink, a packet that is not stale takes one transition of every
\* queue, and after the last one it shows the slot as it is.
Nearer(fd, s) ==
    /\ trans'[fd][s] <= trans[fd][s]
    /\ read'[fd].on => read'[fd].fresh \/ read'[fd] = read[fd]
    /\ Delivered(fd) /\ read[fd].fresh =>
          /\ trans[fd][s] # Empty => trans'[fd][s] < trans[fd][s]
          /\ trans[fd][s] = Empty /\ mode[fd] = "active" => Informed(fd, s)'
    /\ Informed(fd, s) => Informed(fd, s)'

LEMMA QueuesShrink ==
    \A q \in Queues : /\ q \in Nat /\ Rest(q) <= q
                      /\ q # Empty => Rest(q) < q
  BY DEF Queues, Empty, Gone, Leave, Shown, Arrive, Reinsert, Replace, Rest

LEMMA CalmSubmits ==
  ASSUME PortalInv, NEW fd \in Fds, NEW s \in Slots, NEW x \in Fds, SubmitRead(x)
  PROVE  Nearer(fd, s)
  <1>1. /\ trans[fd][s] \in Nat /\ UNCHANGED <<trans, mode, seen, fig, status>>
        /\ read'[fd] = IF fd = x THEN [on |-> TRUE, fresh |-> TRUE, ctr |-> counter[fd],
                                       packet |-> Packet(fd)] ELSE read[fd]
    <2>1. trans[fd][s] \in Queues /\ read \in [Fds -> [on : BOOLEAN, fresh : BOOLEAN,
                                                      ctr : Counters, packet : Packets]]
      BY DEF PortalInv, TypeOK
    <2>2. trans[fd][s] \in Nat
      BY <2>1, QueuesShrink
    <2>3. /\ UNCHANGED <<trans, mode, seen, fig, status>>
          /\ read' = [read EXCEPT ![x] = [on |-> TRUE, fresh |-> TRUE, ctr |-> counter[x],
                                         packet |-> Packet(x)]]
      BY DEF SubmitRead
    <2> QED BY <2>1, <2>2, <2>3
  <1>2. ~Delivered(fd)
    <2>1. read[x].on = FALSE /\ read'[x].on = TRUE
      BY DEF SubmitRead, Reading, PortalInv, TypeOK
    <2>2. Deliver => read'[x] = NoRead
      BY DEF Deliver
    <2> QED BY <2>1, <2>2, BlankFacts DEF Delivered
  <1>3. ASSUME Informed(fd, s) PROVE Informed(fd, s)'
    <2>1. Here(s)' = Here(s)
      BY <1>1 DEF Here
    <2>2. CASE fd # x
      BY <1>1, <1>3, <2>1, <2>2 DEF Informed, Reading
    <2>3. CASE fd = x
      <3>1. read'[fd].packet = Packet(fd)
        BY <1>1, <2>3
      <3>2. Packet(fd).active /\ Packet(fd).word[s] = status[fd][s]
        BY <1>3 DEF Packet, Informed
      <3>3. status[fd][s] = Here(s)
        BY <1>3 DEF Informed, PortalInv, EndsRight, Opened, Here
      <3> QED BY <1>1, <1>3, <2>1, <3>1, <3>2, <3>3 DEF Informed
    <2> QED BY <2>2, <2>3
  <1> QED BY <1>1, <1>2, <1>3 DEF Nearer

LEMMA CalmDelivers ==
  ASSUME PortalInv, ArrivalInv, NEW fd \in Fds, NEW s \in Slots, Deliver
  PROVE  Nearer(fd, s)
  <1>1. /\ trans[fd][s] \in Queues /\ UNCHANGED <<mode, fig>> /\ ~read'[fd].on
        /\ trans'[fd][s] = IF Commits(fd, s) THEN Rest(trans[fd][s]) ELSE trans[fd][s]
    BY BlankFacts DEF PortalInv, TypeOK, Deliver
  <1>2. seen'[fd].packet = IF Reading(fd) /\ read[fd].packet.active
                           THEN read[fd].packet ELSE seen[fd].packet
    BY DEF Deliver
  <1>3. Here(s)' = Here(s)
    BY <1>1 DEF Here
  <1>4. trans'[fd][s] <= trans[fd][s]
    BY <1>1, QueuesShrink
  <1>5. Reading(fd) /\ read[fd].fresh /\ trans[fd][s] # Empty => trans'[fd][s] < trans[fd][s]
    BY <1>1, QueuesShrink DEF Commits
  <1>6. ASSUME Reading(fd), read[fd].fresh, trans[fd][s] = Empty, mode[fd] = "active"
        PROVE  Informed(fd, s)'
    <2>1. read[fd].packet.active /\ read[fd].packet.word[s] = status[fd][s]
      BY <1>6 DEF ArrivalInv, FreshPacket, Word
    <2>2. status[fd][s] = Here(s)
      BY <1>6 DEF PortalInv, EndsRight, Opened, Here
    <2>3. trans'[fd][s] = Empty
      BY <1>1, <1>6 DEF Commits
    <2> QED BY <1>1, <1>2, <1>3, <1>6, <2>1, <2>2, <2>3 DEF Informed, Reading
  <1>7. ASSUME Informed(fd, s) PROVE Informed(fd, s)'
    <2>1. trans'[fd][s] = Empty
      BY <1>1, <1>7 DEF Commits, Informed
    <2> QED BY <1>1, <1>2, <1>3, <1>7, <2>1 DEF Informed, Reading
  <1> QED BY <1>1, <1>4, <1>5, <1>6, <1>7 DEF Nearer, Delivered

\* While no figure moves and no read is cancelled, the packets of every session
\* get nearer to the truth until it is told: what GameCatchesUp says of the steps
\* themselves (e12_status_packet, e12_status_commit).
THEOREM CalmIsProgress == Spec => [][Calm => \A fd \in Fds, s \in Slots : Nearer(fd, s)]_vars
  <1> DEFINE A == Calm => \A fd \in Fds, s \in Slots : Nearer(fd, s)
  <1>1. PortalInv /\ ArrivalInv /\ [Next]_vars => [A]_vars
    BY CalmSubmits, CalmDelivers DEF Calm
  <1> QED BY <1>1, PortalInvariant, ArrivalInvariant, PTL DEF Spec
=============================================================================
