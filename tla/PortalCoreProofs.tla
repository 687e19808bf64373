--------------------------- MODULE PortalCoreProofs ---------------------------
(***************************************************************************)
(* Proofs about the portal core, for any number of slots and dumps, any    *)
(* ring, any rhythm of the polls and however much the user and the game    *)
(* do.                                                                     *)
(***************************************************************************)
EXTENDS PortalCore, TLAPS

\* A slot that the game met, or is about to take for settled, has the figure
\* of the last arrival; one that is there was there in the last packet.
Met(r, m, v) ==
    /\ r.pend \in {<<>>, <<1>>} /\ r.state \notin {0, 2} => m = r.fig
    /\ r.pend = <<1>> => r.state = 3
    /\ r.state = 1 => v = 1
SlotsMet == \A s \in Slots : Met(slots[s], met[s], view[s])

CoreStrong == CoreTypeOK /\ SlotsMet /\ QueriesFit
-----------------------------------------------------------------------------
LEMMA EmptyRec == Empty \in SlotRec /\ Empty.state = 0 /\ Empty.pend = <<>>
  BY DEF Empty, SlotRec, Contents, Ups

LEMMA ArrivedRec ==
  ASSUME NEW d \in Dumps
  PROVE  Arrived(d) \in SlotRec /\ Arrived(d).state = 3 /\ Arrived(d).pend = <<3, 1>>
  BY DEF Arrived, SlotRec, Contents, Ups

\* A slot that was loaded is empty or arriving.
LEMMA LoadedRec ==
  ASSUME NEW f \in Dumps \cup {Missing, Short}
  PROVE  /\ Loaded(f) \in SlotRec
         /\ \/ Loaded(f).state = 0 /\ Loaded(f).pend = <<>>
            \/ Loaded(f).state = 3 /\ Loaded(f).pend = <<3, 1>>
  <1>1. CASE f = Missing
    <2>1. Loaded(f) = Empty
      BY <1>1 DEF Loaded, Missing, Short
    <2> QED BY <2>1, EmptyRec
  <1>2. CASE f = Short
    <2>1. Loaded(f) = [Empty EXCEPT !.fig = Part]
      BY <1>2 DEF Loaded, Missing, Short
    <2> QED BY <2>1 DEF Empty, SlotRec, Contents, Ups
  <1>3. CASE f \notin {Missing, Short}
    <2>1. f \in Dumps /\ Loaded(f) = Arrived(f)
      BY <1>3 DEF Loaded
    <2> QED BY <2>1, ArrivedRec
  <1> QED BY <1>1, <1>2, <1>3

LEMMA PresentRec ==
  ASSUME NEW r \in SlotRec
  PROVE  /\ Present(r) \in SlotRec
         /\ Present(r).state = r.state
         /\ Present(r) = r \/ Present(r).pend = <<3, 1>>
  BY DEF Present, SlotRec, Ups

\* A poll leaves the slot, or gives it bits that begin with 2 or 3.
LEMMA PolledRec ==
  ASSUME NEW r \in SlotRec, NEW f \in Dumps \cup {Missing, Short}
  PROVE  /\ Polled(r, f) \in SlotRec
         /\ \/ Polled(r, f) = r
            \/ /\ Polled(r, f).pend \in {<<2>>, <<3, 1>>, <<2, 3, 1>>}
               /\ Polled(r, f).state \in {r.state, 3}
  <1>1. /\ Removed(r) \in SlotRec /\ Removed(r).state = r.state /\ Removed(r).pend = <<2>>
        /\ \A d \in Dumps : /\ Replaced(r, d) \in SlotRec /\ Replaced(r, d).state = r.state
                            /\ Replaced(r, d).pend = <<2, 3, 1>>
    BY DEF Removed, Replaced, SlotRec, Contents, Ups
  <1>2. CASE f = Missing
    BY <1>1, <1>2 DEF Polled
  <1>3. CASE f = Short
    <2>1. Polled(r, f) = r
      BY <1>3 DEF Polled, Missing, Short
    <2> QED BY <2>1
  <1>4. CASE f \notin {Missing, Short}
    <2>1. f \in Dumps
      BY <1>4
    <2>2. Polled(r, f) \in {Arrived(f), Replaced(r, f), r}
      BY <1>4 DEF Polled
    <2> QED BY <1>1, <2>1, <2>2, ArrivedRec
  <1> QED BY <1>2, <1>3, <1>4

\* The next bits of a slot.
LEMMA ShownRec ==
  ASSUME NEW r \in SlotRec
  PROVE  /\ Shown(r) \in SlotRec /\ Shown(r).fig = r.fig
         /\ r.pend = <<>> => Shown(r) = r
         /\ r.pend = <<1>> => Shown(r).state = 1 /\ Shown(r).pend = <<>>
         /\ r.pend = <<2>> => Shown(r).state = 2 /\ Shown(r).pend = <<>>
         /\ r.pend = <<3, 1>> => Shown(r).state = 3 /\ Shown(r).pend = <<1>>
         /\ r.pend = <<2, 3, 1>> => Shown(r).state = 2 /\ Shown(r).pend = <<3, 1>>
  <1>1. /\ Head(<<1>>) = 1 /\ Tail(<<1>>) = <<>>
        /\ Head(<<2>>) = 2 /\ Tail(<<2>>) = <<>>
        /\ Head(<<3, 1>>) = 3 /\ Tail(<<3, 1>>) = <<1>>
        /\ Head(<<2, 3, 1>>) = 2 /\ Tail(<<2, 3, 1>>) = <<3, 1>>
    OBVIOUS
  <1>2. <<1>> # <<>> /\ <<2>> # <<>> /\ <<3, 1>> # <<>> /\ <<2, 3, 1>> # <<>>
    OBVIOUS
  <1>3. r = [fig |-> r.fig, state |-> r.state, pend |-> r.pend] /\ r.pend \in Ups
        /\ r.fig \in Contents /\ r.state \in 0..3
    BY DEF SlotRec
  <1>4. CASE r.pend = <<>>
    BY <1>2, <1>4 DEF Shown
  <1>5. r.pend # <<>> =>
          Shown(r) = [fig |-> r.fig, state |-> Head(r.pend), pend |-> Tail(r.pend)]
    BY <1>3 DEF Shown
  <1>6. CASE r.pend = <<1>>
    <2>1. Shown(r) = [fig |-> r.fig, state |-> 1, pend |-> <<>>]
      BY <1>1, <1>2, <1>5, <1>6
    <2> QED BY <1>2, <1>3, <1>6, <2>1 DEF SlotRec, Ups
  <1>7. CASE r.pend = <<2>>
    <2>1. Shown(r) = [fig |-> r.fig, state |-> 2, pend |-> <<>>]
      BY <1>1, <1>2, <1>5, <1>7
    <2> QED BY <1>2, <1>3, <1>7, <2>1 DEF SlotRec, Ups
  <1>8. CASE r.pend = <<3, 1>>
    <2>1. Shown(r) = [fig |-> r.fig, state |-> 3, pend |-> <<1>>]
      BY <1>1, <1>2, <1>5, <1>8
    <2> QED BY <1>2, <1>3, <1>8, <2>1 DEF SlotRec, Ups
  <1>9. CASE r.pend = <<2, 3, 1>>
    <2>1. Shown(r) = [fig |-> r.fig, state |-> 2, pend |-> <<3, 1>>]
      BY <1>1, <1>2, <1>5, <1>9
    <2> QED BY <1>2, <1>3, <1>9, <2>1 DEF SlotRec, Ups
  <1> QED BY <1>3, <1>4, <1>6, <1>7, <1>8, <1>9 DEF Ups

LEMMA QueuedAnswers ==
  ASSUME CoreTypeOK, NEW a \in Answers
  PROVE  /\ Queued(a) \in Seq(Answers) /\ Len(Queued(a)) <= QueueSize
         /\ \A i \in DOMAIN Queued(a) :
              Queued(a)[i] = a \/ (i \in DOMAIN ring /\ Queued(a)[i] = ring[i])
  <1>1. ring \in Seq(Answers) /\ Len(ring) \in Nat /\ Len(ring) <= QueueSize /\ QueueSize \in Nat
    BY CoreAssumption DEF CoreTypeOK
  <1>2. CASE Len(ring) = QueueSize
    BY <1>1, <1>2 DEF Queued
  <1>3. CASE Len(ring) # QueueSize
    <2>1. Queued(a) = Append(ring, a)
      BY <1>3 DEF Queued
    <2>2. /\ Append(ring, a) \in Seq(Answers) /\ Len(Append(ring, a)) = Len(ring) + 1
          /\ \A i \in 1 .. Len(ring) : Append(ring, a)[i] = ring[i]
          /\ Append(ring, a)[Len(ring) + 1] = a
      BY <1>1
    <2>3. DOMAIN Append(ring, a) = 1 .. Len(ring) + 1 /\ DOMAIN ring = 1 .. Len(ring)
      BY <1>1, <2>2
    <2>4. \A i \in 1 .. Len(ring) + 1 : i \in 1 .. Len(ring) \/ i = Len(ring) + 1
      BY <1>1
    <2>5. Len(ring) + 1 <= QueueSize
      BY <1>1, <1>3
    <2> QED BY <2>1, <2>2, <2>3, <2>4, <2>5
  <1> QED BY <1>2, <1>3
-----------------------------------------------------------------------------
\* A packet keeps what holds of a slot, with what it shows and who is met.
LEMMA ShownMet ==
  ASSUME NEW r \in SlotRec, NEW m, NEW v, Met(r, m, v)
  PROVE  Met(Shown(r), IF Shown(r).state = 3 THEN Shown(r).fig ELSE m, Shown(r).state)
  <1>1. r.pend \in Ups /\ <<1>> # <<>> /\ <<3, 1>> \notin {<<>>, <<1>>}
    BY DEF SlotRec
  <1>2. CASE r.pend = <<>>
    BY <1>1, <1>2, ShownRec DEF Met
  <1>3. CASE r.pend = <<1>>
    BY <1>1, <1>3, ShownRec DEF Met
  <1>4. CASE r.pend = <<2>>
    BY <1>1, <1>4, ShownRec DEF Met
  <1>5. CASE r.pend = <<3, 1>>
    BY <1>1, <1>5, ShownRec DEF Met
  <1>6. CASE r.pend = <<2, 3, 1>>
    BY <1>1, <1>6, ShownRec DEF Met
  <1> QED BY <1>1, <1>2, <1>3, <1>4, <1>5, <1>6 DEF Ups

LEMMA PolledMet ==
  ASSUME NEW r \in SlotRec, NEW f \in Dumps \cup {Missing, Short}, NEW m, NEW v, Met(r, m, v)
  PROVE  Met(Polled(r, f), m, v)
  <1>1. <<2>> \notin {<<>>, <<1>>} /\ <<3, 1>> \notin {<<>>, <<1>>}
        /\ <<2, 3, 1>> \notin {<<>>, <<1>>}
    OBVIOUS
  <1> QED BY <1>1, PolledRec DEF Met

LEMMA FreshMet ==
  ASSUME NEW r, NEW m, NEW v,
         \/ r.state = 0 /\ r.pend = <<>>
         \/ r.state = 3 /\ r.pend = <<3, 1>>
  PROVE  Met(r, m, v)
  <1>1. <<3, 1>> \notin {<<>>, <<1>>} /\ <<1>> # <<>>
    OBVIOUS
  <1>2. CASE r.state = 0 /\ r.pend = <<>>
    BY <1>1, <1>2, SMT DEF Met
  <1>3. CASE r.state = 3 /\ r.pend = <<3, 1>>
    BY <1>1, <1>3, SMT DEF Met
  <1> QED BY <1>2, <1>3

LEMMA PresentMet ==
  ASSUME NEW r \in SlotRec, NEW m, NEW v, Met(r, m, v)
  PROVE  Met(Present(r), m, v)
  <1>1. <<3, 1>> \notin {<<>>, <<1>>}
    OBVIOUS
  <1> QED BY <1>1, PresentRec DEF Met
-----------------------------------------------------------------------------
LEMMA CoreStart == CoreInit => CoreStrong
  <1> SUFFICES ASSUME CoreInit PROVE CoreStrong OBVIOUS
  <1>1. CoreTypeOK
    <2>1. /\ 0 \in 0 .. PollEvery - 1 /\ 0 \in Slots /\ left \in 0..Budget /\ 0 <= QueueSize
      BY CoreAssumption DEF Slots, CoreInit
    <2>2. ring \in Seq(Answers) /\ Len(ring) = 0
      BY DEF CoreInit
    <2>3. slots \in [Slots -> SlotRec]
      BY EmptyRec DEF CoreInit
    <2> QED BY <2>1, <2>2, <2>3 DEF CoreInit, CoreTypeOK, Contents
  <1>2. SlotsMet
    BY EmptyRec, FreshMet DEF CoreInit, SlotsMet
  <1>3. QueriesFit
    BY DEF CoreInit, QueriesFit
  <1> QED BY <1>1, <1>2, <1>3 DEF CoreStrong

LEMMA Spending ==
  ASSUME CoreTypeOK, Spend
  PROVE  left' \in 0..Budget
  BY CoreAssumption DEF CoreTypeOK, Spend

\* A request that queues an answer.
LEMMA RingStep ==
  ASSUME CoreStrong, NEW a \in Answers, a.kind = "Q" => view[a.slot] = 1,
         ring' = Queued(a), UNCHANGED view
  PROVE  ring' \in Seq(Answers) /\ Len(ring') <= QueueSize /\ QueriesFit'
  BY QueuedAnswers DEF CoreStrong, QueriesFit

\* Every request that answers in the ring.
LEMMA RequestStep ==
  ASSUME CoreStrong, Spend, NEW a \in Answers, a.kind = "Q" => view[a.slot] = 1,
         ring' = Queued(a), UNCHANGED <<file, delay, pollSlot, loaded, resumed, view>>,
         activated' \in BOOLEAN, slots' \in [Slots -> SlotRec], met' \in [Slots -> Contents],
         \A s \in Slots : Met(slots'[s], met'[s], view[s])
  PROVE  CoreStrong'
  <1>1. left' \in 0..Budget
    BY Spending DEF CoreStrong
  <1>2. ring' \in Seq(Answers) /\ Len(ring') <= QueueSize /\ QueriesFit'
    BY RingStep
  <1>3. CoreTypeOK'
    BY <1>1, <1>2 DEF CoreStrong, CoreTypeOK
  <1>4. SlotsMet'
    BY DEF SlotsMet
  <1> QED BY <1>2, <1>3, <1>4 DEF CoreStrong

LEMMA IoctlStep ==
  ASSUME CoreStrong, NEW kind \in {"reload", "resume", "other"}, NEW ok \in BOOLEAN,
         Ioctl(kind, ok)
  PROVE  CoreStrong'
  <1>1. /\ left' \in 0..Budget /\ resumed' \in BOOLEAN
        /\ UNCHANGED <<file, ring, delay, pollSlot, activated, view, met>>
    BY Spending DEF CoreStrong, CoreTypeOK, Ioctl
  <1>2. /\ loaded' \in BOOLEAN
        /\ slots' = slots \/ slots' = [s \in Slots |-> Loaded(file[s])]
    BY DEF CoreStrong, CoreTypeOK, Ioctl, LoadFigures
  <1>3. \A s \in Slots : file[s] \in Dumps \cup {Missing, Short}
    BY DEF CoreStrong, CoreTypeOK
  <1>4. slots' \in [Slots -> SlotRec] /\ \A s \in Slots : Met(slots'[s], met[s], view[s])
    <2>1. CASE slots' = slots
      BY <2>1 DEF CoreStrong, CoreTypeOK, SlotsMet
    <2>2. CASE slots' = [s \in Slots |-> Loaded(file[s])]
      BY <1>3, <2>2, LoadedRec, FreshMet
    <2> QED BY <1>2, <2>1, <2>2
  <1>5. CoreTypeOK'
    BY <1>1, <1>2, <1>4 DEF CoreStrong, CoreTypeOK
  <1>6. SlotsMet' /\ QueriesFit'
    BY <1>1, <1>4 DEF CoreStrong, SlotsMet, QueriesFit
  <1> QED BY <1>5, <1>6 DEF CoreStrong

LEMMA PlainStep ==
  ASSUME CoreStrong, NEW later \in BOOLEAN, Plain(later)
  PROVE  CoreStrong'
  <1>1. /\ Spend /\ [kind |-> "plain"] \in Answers
        /\ UNCHANGED <<file, slots, delay, pollSlot, loaded, resumed, activated, view, met>>
    BY DEF Plain, Answers
  <1>2. /\ activated' \in BOOLEAN /\ slots' \in [Slots -> SlotRec]
        /\ met' \in [Slots -> Contents]
        /\ \A s \in Slots : Met(slots'[s], met'[s], view[s])
    BY <1>1 DEF CoreStrong, CoreTypeOK, SlotsMet
  <1>3. CASE later
    BY <1>1, <1>2, <1>3, RequestStep DEF Plain
  <1>4. CASE ~later
    <2>1. ring' = ring /\ left' \in 0..Budget
      BY <1>1, <1>4, Spending DEF CoreStrong, Plain
    <2> QED BY <1>1, <2>1 DEF CoreStrong, CoreTypeOK, SlotsMet, QueriesFit
  <1> QED BY <1>3, <1>4

LEMMA ActivateStep ==
  ASSUME CoreStrong, NEW on \in BOOLEAN, Activate(on)
  PROVE  CoreStrong'
  <1>1. /\ Spend /\ [kind |-> "plain"] \in Answers /\ ring' = Queued([kind |-> "plain"])
        /\ activated' = on
        /\ UNCHANGED <<file, delay, pollSlot, loaded, resumed, view, met>>
        /\ slots' = slots \/ slots' = [s \in Slots |-> Present(slots[s])]
    BY DEF Activate, Answers
  <1>2. activated' \in BOOLEAN
    BY <1>1
  <1>3. \A s \in Slots : slots[s] \in SlotRec /\ Met(slots[s], met[s], view[s])
    BY DEF CoreStrong, CoreTypeOK, SlotsMet
  <1>4. /\ slots' \in [Slots -> SlotRec] /\ met' \in [Slots -> Contents]
        /\ \A s \in Slots : Met(slots'[s], met'[s], view[s])
    <2>1. CASE slots' = slots
      BY <1>1, <1>3, <2>1 DEF CoreStrong, CoreTypeOK
    <2>2. CASE slots' = [s \in Slots |-> Present(slots[s])]
      BY <1>1, <1>3, <2>2, PresentRec, PresentMet DEF CoreStrong, CoreTypeOK
    <2> QED BY <1>1, <2>1, <2>2
  <1> QED BY <1>1, <1>2, <1>4, RequestStep

LEMMA QueryStep ==
  ASSUME CoreStrong, NEW s \in Slots, Query(s)
  PROVE  CoreStrong'
  <1> DEFINE found == [kind |-> "Q", slot |-> s]
             absent == [kind |-> "absent"]
  <1>1. /\ Spend /\ found \in Answers /\ absent \in Answers
        /\ UNCHANGED <<file, slots, delay, pollSlot, loaded, resumed, activated, view, met>>
    BY DEF Query, Answers
  <1>2. /\ activated' \in BOOLEAN /\ slots' \in [Slots -> SlotRec]
        /\ met' \in [Slots -> Contents]
        /\ \A t \in Slots : Met(slots'[t], met'[t], view[t])
    BY <1>1 DEF CoreStrong, CoreTypeOK, SlotsMet
  <1>3. CASE slots[s].state = 1
    <2>1. ring' = Queued(found) /\ view[found.slot] = 1
      BY <1>3 DEF Query, CoreStrong, SlotsMet, Met
    <2> QED BY <1>1, <1>2, <2>1, RequestStep
  <1>4. CASE slots[s].state # 1
    <2>1. ring' = Queued(absent) /\ absent.kind # "Q"
      BY <1>4 DEF Query
    <2> QED BY <1>1, <1>2, <2>1, RequestStep
  <1> QED BY <1>3, <1>4

LEMMA WriteStep ==
  ASSUME CoreStrong, NEW s \in Slots, Write(s)
  PROVE  CoreStrong'
  <1> DEFINE found == [kind |-> "W", slot |-> s]
             absent == [kind |-> "absent"]
  <1>1. /\ Spend /\ found \in Answers /\ absent \in Answers
        /\ UNCHANGED <<file, delay, pollSlot, loaded, resumed, activated, view>>
    BY DEF Write, Answers
  <1>2. activated' \in BOOLEAN
    BY <1>1 DEF CoreStrong, CoreTypeOK
  <1>3. /\ slots \in [Slots -> SlotRec] /\ met \in [Slots -> Contents]
        /\ \A t \in Slots : Met(slots[t], met[t], view[t])
    BY DEF CoreStrong, CoreTypeOK, SlotsMet
  <1>4. CASE slots[s].state \in {1, 3}
    <2>1. /\ slots' = [slots EXCEPT ![s].fig = Edited]
          /\ met' = [met EXCEPT ![s] = IF @ = slots[s].fig THEN Edited ELSE @]
          /\ ring' = Queued(found) /\ found.kind # "Q"
      BY <1>4 DEF Write
    <2>2. slots' \in [Slots -> SlotRec] /\ met' \in [Slots -> Contents]
      BY <1>3, <2>1 DEF SlotRec, Contents
    <2>3. ASSUME NEW t \in Slots PROVE Met(slots'[t], met'[t], view[t])
      <3>1. CASE t # s
        BY <1>3, <2>1, <3>1
      <3>2. CASE t = s
        <4>1. /\ slots'[s].fig = Edited /\ slots'[s].state = slots[s].state
              /\ slots'[s].pend = slots[s].pend
              /\ met[s] = slots[s].fig => met'[s] = Edited
          BY <1>3, <2>1 DEF SlotRec
        <4> QED BY <1>3, <3>2, <4>1 DEF Met
      <3> QED BY <3>1, <3>2
    <2> QED BY <1>1, <1>2, <2>1, <2>2, <2>3, RequestStep
  <1>5. CASE slots[s].state \notin {1, 3}
    <2>1. ring' = Queued(absent) /\ UNCHANGED <<slots, met>> /\ absent.kind # "Q"
      BY <1>5 DEF Write
    <2>2. /\ slots' \in [Slots -> SlotRec] /\ met' \in [Slots -> Contents]
          /\ \A t \in Slots : Met(slots'[t], met'[t], view[t])
      BY <1>3, <2>1
    <2> QED BY <1>1, <1>2, <2>1, <2>2, RequestStep
  <1> QED BY <1>4, <1>5

LEMMA ReadStep ==
  ASSUME CoreStrong, NEW ok \in BOOLEAN, Read(ok)
  PROVE  CoreStrong'
  <1>1. /\ slots \in [Slots -> SlotRec] /\ met \in [Slots -> Contents] /\ pollSlot \in Slots
        /\ \A s \in Slots : Met(slots[s], met[s], view[s])
        /\ \A s \in Slots : file[s] \in Dumps \cup {Missing, Short}
        /\ UNCHANGED <<file, loaded, resumed, activated>>
    BY DEF CoreStrong, CoreTypeOK, SlotsMet, Read
  <1>2. left' \in 0..Budget
    BY Spending DEF CoreStrong, CoreTypeOK, Read
  <1>3. delay' \in 0 .. PollEvery - 1
    BY CoreAssumption DEF CoreStrong, CoreTypeOK, Read, Due
  <1>4. pollSlot' \in Slots
    BY CoreAssumption DEF CoreStrong, CoreTypeOK, Read, NextSlot, Slots
  <1>5. /\ Looked(ok) \in [Slots -> SlotRec]
        /\ \A s \in Slots : Met(Looked(ok)[s], met[s], view[s])
    <2>1. CASE Due /\ ok
      <3>1. Looked(ok) = [slots EXCEPT ![pollSlot] = Polled(slots[pollSlot], file[pollSlot])]
        BY <2>1 DEF Looked
      <3>2. /\ Polled(slots[pollSlot], file[pollSlot]) \in SlotRec
            /\ Met(Polled(slots[pollSlot], file[pollSlot]), met[pollSlot], view[pollSlot])
        BY <1>1, PolledRec, PolledMet
      <3> QED BY <1>1, <3>1, <3>2
    <2>2. CASE ~(Due /\ ok)
      BY <1>1, <2>2 DEF Looked
    <2> QED BY <2>1, <2>2
  <1>6. CASE ring # <<>>
    <2>1. slots' = Looked(ok) /\ ring' = Tail(ring) /\ UNCHANGED <<view, met>>
      BY <1>6 DEF Read
    <2>2. /\ ring' \in Seq(Answers) /\ Len(ring') <= QueueSize
          /\ \A i \in DOMAIN ring' : i + 1 \in DOMAIN ring /\ ring'[i] = ring[i + 1]
      <3>1. ring \in Seq(Answers) /\ Len(ring) <= QueueSize /\ QueueSize \in Nat
        BY CoreAssumption DEF CoreStrong, CoreTypeOK
      <3> QED BY <1>6, <2>1, <3>1
    <2>3. CoreTypeOK'
      BY <1>1, <1>2, <1>3, <1>4, <1>5, <2>1, <2>2 DEF CoreStrong, CoreTypeOK
    <2>4. SlotsMet'
      BY <1>5, <2>1 DEF SlotsMet
    <2>5. QueriesFit'
      BY <2>1, <2>2 DEF CoreStrong, QueriesFit
    <2> QED BY <2>3, <2>4, <2>5 DEF CoreStrong
  <1>7. CASE ring = <<>>
    <2>1. /\ slots' = [s \in Slots |-> Shown(Looked(ok)[s])]
          /\ view' = [s \in Slots |-> slots'[s].state]
          /\ met' = [s \in Slots |-> IF view'[s] = 3 THEN slots'[s].fig ELSE met[s]]
          /\ ring' = ring
      BY <1>7 DEF Read
    <2>2. \A s \in Slots : Shown(Looked(ok)[s]) \in SlotRec
      BY <1>5, ShownRec
    <2>3. /\ slots' \in [Slots -> SlotRec] /\ view' \in [Slots -> 0..3]
          /\ met' \in [Slots -> Contents]
      BY <1>1, <2>1, <2>2 DEF SlotRec
    <2>4. ASSUME NEW s \in Slots PROVE Met(slots'[s], met'[s], view'[s])
      <3>1. /\ slots'[s] = Shown(Looked(ok)[s]) /\ view'[s] = Shown(Looked(ok)[s]).state
            /\ met'[s] = IF Shown(Looked(ok)[s]).state = 3 THEN Shown(Looked(ok)[s]).fig
                         ELSE met[s]
        BY <2>1
      <3> QED BY <1>5, <3>1, ShownMet
    <2>5. CoreTypeOK'
      BY <1>1, <1>2, <1>3, <1>4, <2>1, <2>3 DEF CoreStrong, CoreTypeOK
    <2>6. SlotsMet' /\ QueriesFit'
      BY <1>7, <2>1, <2>4 DEF SlotsMet, QueriesFit
    <2> QED BY <2>5, <2>6 DEF CoreStrong
  <1> QED BY <1>6, <1>7

LEMMA CoreStep == CoreStrong /\ [CoreNext]_coreVars => CoreStrong'
  <1> SUFFICES ASSUME CoreStrong, [CoreNext]_coreVars PROVE CoreStrong' OBVIOUS
  <1>1. CASE UNCHANGED coreVars
    BY <1>1 DEF coreVars, CoreStrong, CoreTypeOK, SlotsMet, QueriesFit
  <1>2. ASSUME NEW s \in Slots, NEW f \in Dumps \cup {Missing, Short}, Edit(s, f)
        PROVE  CoreStrong'
    <2>1. /\ left' \in 0..Budget /\ file' \in [Slots -> Dumps \cup {Missing, Short}]
          /\ UNCHANGED <<slots, ring, delay, pollSlot, loaded, resumed, activated, view, met>>
      BY <1>2, Spending DEF Edit, CoreStrong, CoreTypeOK
    <2> QED BY <2>1 DEF CoreStrong, CoreTypeOK, SlotsMet, QueriesFit
  <1> QED BY <1>1, <1>2, IoctlStep, PlainStep, ActivateStep, QueryStep, WriteStep, ReadStep
      DEF CoreNext

THEOREM CoreStrength == CoreSpec => []CoreStrong
  BY CoreStart, CoreStep, PTL DEF CoreSpec

\* The game that takes a slot for settled reads the figure of the last arrival
\* it was told of, whatever the user does to the card.
THEOREM CoreHolds == CoreSpec => []CoreInv
  <1>1. CoreStrong => CoreInv
    BY DEF CoreStrong, CoreInv, SlotsMet, Met, ArrivalSeen
  <1> QED BY <1>1, CoreStrength, PTL

\* An answer that carries blocks of a figure finds it in the last packet.
THEOREM AnswersFit == CoreSpec => []QueriesFit
  <1>1. CoreStrong => QueriesFit
    BY DEF CoreStrong
  <1> QED BY <1>1, CoreStrength, PTL
=============================================================================
