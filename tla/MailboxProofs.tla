--------------------------- MODULE MailboxProofs ---------------------------
(***************************************************************************)
(* Proofs about the mailbox, for any arguments, any width of the sequence  *)
(* number and any number of requests ahead: the replies are whole, a load  *)
(* is begun as it was posted, and an answer is the answer to its request.  *)
(***************************************************************************)
EXTENDS Mailbox, TLAPS

LEMMA NothingType == NoRequest \in Requests /\ NoReply \in Replies
  <1>1. 0 \in Seqs /\ 0 \in Args /\ "page" \in Ops
    BY MailboxAssumption DEF Seqs, Ops
  <1> QED BY <1>1 DEF NoRequest, NoReply, Requests, Replies, Heads

LEMMA TypeInit == Init => TypeOK
  <1> SUFFICES ASSUME Init PROVE TypeOK OBVIOUS
  <1>1. 0 \in Seqs /\ 0 \in Args /\ "page" \in Ops
    BY MailboxAssumption DEF Seqs, Ops
  <1>2. last \in [op : Ops, arg : Args] /\ load \in [seq : Seqs, arg : Args, begun : Nat]
    BY <1>1 DEF Init
  <1> QED BY <1>1, <1>2, NothingType DEF Init, TypeOK

LEMMA NextSeqType == \A s \in Seqs : NextSeq(s) \in Seqs
  BY MailboxAssumption DEF NextSeq, Seqs

LEMMA OverlayType == TypeOK /\ Overlay => TypeOK'
  <1> SUFFICES ASSUME TypeOK, Overlay PROVE TypeOK' OBVIOUS
  <1> USE DEF TypeOK, overlay, worker
  <1>1. CASE Frame
    BY <1>1 DEF Frame
  <1>2. CASE CopyReply
    <2>1. CASE Copy("head", "head", "rows")
      BY <2>1 DEF Copy, Replies
    <2>2. CASE Copy("rows", "rows", "name")
      BY <2>2 DEF Copy, Replies
    <2>3. CASE Copy("name", "name", "check")
      BY <2>3 DEF Copy, Replies
    <2> QED BY <1>2, <2>1, <2>2, <2>3 DEF CopyReply
  <1>3. CASE Check
    BY <1>3, NothingType DEF Check, Adopt
  <1>4. CASE Act
    <2>1. pending' \in BOOLEAN
      BY <1>4 DEF Act, StillPending
    <2>2. CASE pc' = "idle" /\ UNCHANGED <<seq, last, load>>
      BY <1>4, <2>1, <2>2 DEF Act
    <2>3. ASSUME NEW op \in Ops, NEW arg \in Args,
                 pc' = "op", seq' = NextSeq(seq), last' = [op |-> op, arg |-> arg],
                 load' = IF op = "load" THEN [seq |-> seq', arg |-> arg, begun |-> 0] ELSE load
          PROVE  TypeOK'
      <3>1. seq' \in Seqs
        BY <2>3, NextSeqType
      <3>2. load' \in [seq : Seqs, arg : Args, begun : Nat]
        BY <2>3, <3>1
      <3> QED BY <1>4, <2>1, <2>3, <3>1, <3>2 DEF Act
    <2> QED BY <1>4, <2>2, <2>3 DEF Act
  <1>5. ASSUME NEW step \in {"op", "arg", "seq"}, NEW to \in {"arg", "seq", "magic"},
               Put(step, to)
        PROVE  TypeOK'
    <2>1. box' \in Requests
      BY <1>5 DEF Put, Word, Requests
    <2> QED BY <1>5, <2>1 DEF Put
  <1>6. CASE PutMagic
    BY <1>6 DEF PutMagic
  <1> QED BY <1>1, <1>2, <1>3, <1>4, <1>5, <1>6 DEF Overlay

LEMMA HeadType == TypeOK => Head \in Heads
  BY DEF TypeOK, Head, Heads

LEMMA WorkerType == TypeOK /\ Worker => TypeOK'
  <1> SUFFICES ASSUME TypeOK, Worker PROVE TypeOK' OBVIOUS
  <1> USE DEF TypeOK, overlay, worker
  <1>1. CASE Poll
    BY <1>1 DEF Poll, Requests
  <1>2. CASE Read
    BY <1>2 DEF Read, Requests
  <1>3. CASE Process
    <2>1. consumed' \in Seqs /\ page' \in Args /\ view' \in Args
      BY <1>3 DEF Process, Taken, Requests
    <2>2. load' \in [seq : Seqs, arg : Args, begun : Nat] /\ blocked' \in BOOLEAN
      BY <1>3 DEF Process
    <2> QED BY <1>3, <2>1, <2>2, NothingType DEF Process
  <1>4. CASE Open
    BY <1>4 DEF Open, Revision, Copying
  <1>5. CASE Parts
    <2>1. CASE Publish("name", "name", view, "both")
      BY <2>1 DEF Publish, Replies
    <2>2. CASE Publish("both", "head", Head, "rows") \/ Publish("head", "head", Head, "even")
      BY <2>2, HeadType DEF Publish, Replies
    <2>3. CASE Publish("rows", "rows", page, "even") \/ Publish("both", "rows", page, "head")
      BY <2>3 DEF Publish, Replies
    <2> QED BY <1>5, <2>1, <2>2, <2>3 DEF Parts
  <1>6. CASE Shut
    BY <1>6 DEF Shut, Revision, Copying
  <1> QED BY <1>1, <1>2, <1>3, <1>4, <1>5, <1>6 DEF Worker

\* Every variable keeps its type, for every width of the sequence number.
THEOREM MailboxTypes == Spec => []TypeOK
  <1>1. TypeOK /\ [Next]_vars => TypeOK'
    <2> SUFFICES ASSUME TypeOK, [Next]_vars PROVE TypeOK' OBVIOUS
    <2>1. CASE Busy
      BY <2>1 DEF Busy, TypeOK, overlay
    <2>2. CASE Lapse
      BY <2>2 DEF Lapse, TypeOK, overlay, worker
    <2>3. CASE UNCHANGED vars
      BY <2>3 DEF vars, TypeOK, overlay, worker
    <2> QED BY <2>1, <2>2, <2>3, OverlayType, WorkerType DEF Next
  <1> QED BY <1>1, TypeInit, PTL DEF Spec
-----------------------------------------------------------------------------
LEMMA ReplyInit == Init => ReplyInv
  BY DEF Init, ReplyInv, Publishing, Copying, Whole, NoReply

\* A step of the overlay writes nothing of the reply; its copy follows the reply.
LEMMA OverlayReply == TypeOK /\ ReplyInv /\ Overlay => ReplyInv'
  <1> SUFFICES ASSUME TypeOK, ReplyInv, Overlay PROVE ReplyInv' OBVIOUS
  <1> USE DEF ReplyInv, Publishing, Copying, Whole, Head, overlay, worker
  <1>1. CASE Frame
    BY <1>1 DEF Frame
  <1>2. CASE CopyReply
    <2>1. snapshot \in Replies
      BY DEF TypeOK
    <2>2. CASE Copy("head", "head", "rows")
      BY <2>1, <2>2 DEF Copy, Replies
    <2>3. CASE Copy("rows", "rows", "name")
      BY <2>1, <2>3 DEF Copy, Replies
    <2>4. CASE Copy("name", "name", "check")
      BY <2>1, <2>4 DEF Copy, Replies
    <2> QED BY <1>2, <2>2, <2>3, <2>4 DEF CopyReply
  <1>3. CASE Check
    <2>1. ~moved => Whole(snapshot)
      BY <1>3 DEF Check
    <2> QED BY <1>3, <2>1 DEF Check, Adopt
  <1>4. CASE Act
    <2>1. UNCHANGED <<odd, reply, moved, snapshot, shown, worker>> /\ pc' \in {"idle", "op"}
      BY <1>4 DEF Act
    <2> QED BY <2>1
  <1>5. ASSUME NEW step, NEW to \in {"arg", "seq", "magic"}, Put(step, to)
        PROVE  ReplyInv'
    BY <1>5 DEF Put
  <1>6. CASE PutMagic
    BY <1>6 DEF PutMagic
  <1> QED BY <1>1, <1>2, <1>3, <1>4, <1>5, <1>6 DEF Overlay

\* A step of the worker makes the revision odd first, and even when the reply is
\* whole; either ends every copy under way.
LEMMA WorkerReply == TypeOK /\ ReplyInv /\ Worker => ReplyInv'
  <1> SUFFICES ASSUME TypeOK, ReplyInv, Worker PROVE ReplyInv' OBVIOUS
  <1> USE DEF ReplyInv, Publishing, Copying, Whole, Head, overlay, worker
  <1>1. CASE Poll
    BY <1>1 DEF Poll
  <1>2. CASE Read
    BY <1>2 DEF Read
  <1>3. CASE Process
    BY <1>3 DEF Process
  <1>4. CASE Open
    BY <1>4 DEF Open, Revision, Copying
  <1>5. CASE Parts
    <2>1. reply \in Replies /\ odd \in BOOLEAN
      BY DEF TypeOK
    <2>2. CASE Publish("name", "name", view, "both")
      BY <2>1, <2>2 DEF Publish, Replies
    <2>3. CASE Publish("both", "head", Head, "rows")
      BY <2>1, <2>3 DEF Publish, Replies
    <2>4. CASE Publish("rows", "rows", page, "even")
      BY <2>1, <2>4 DEF Publish, Replies
    <2>5. CASE Publish("both", "rows", page, "head")
      BY <2>1, <2>5 DEF Publish, Replies
    <2>6. CASE Publish("head", "head", Head, "even")
      BY <2>1, <2>6 DEF Publish, Replies
    <2> QED BY <1>5, <2>2, <2>3, <2>4, <2>5, <2>6 DEF Parts
  <1>6. CASE Shut
    <2>1. Whole(reply) /\ odd
      BY <1>6 DEF Shut
    <2>2. ~odd' /\ (Copying' => moved') /\ wpc' = "idle" /\ reply' = reply /\ UNCHANGED shown
      BY <1>6, <2>1 DEF Shut, Revision, Copying
    <2> QED BY <2>1, <2>2
  <1> QED BY <1>1, <1>2, <1>3, <1>4, <1>5, <1>6 DEF Worker

\* The inductive invariant of the revision and the parts of a reply.
THEOREM ReplyInvariant == Spec => []ReplyInv
  <1>1. TypeOK /\ ReplyInv /\ [Next]_vars => ReplyInv'
    <2> SUFFICES ASSUME TypeOK, ReplyInv, [Next]_vars PROVE ReplyInv' OBVIOUS
    <2>1. CASE Busy
      BY <2>1 DEF Busy, ReplyInv, Publishing, Copying, Whole, Head, overlay
    <2>2. CASE Lapse
      BY <2>2 DEF Lapse, ReplyInv, Publishing, Copying, Whole, Head, overlay, worker
    <2>3. CASE UNCHANGED vars
      BY <2>3 DEF vars, ReplyInv, Publishing, Copying, Whole, Head, overlay, worker
    <2> QED BY <2>1, <2>2, <2>3, OverlayReply, WorkerReply DEF Next
  <1> QED BY <1>1, ReplyInit, MailboxTypes, PTL DEF Spec

\* A reply the overlay has taken is one reply of e11_publish, never parts of two.
THEOREM RepliesAreWhole == Spec => []ReplyWhole
  <1>1. ReplyInv => ReplyWhole
    BY DEF ReplyInv, ReplyWhole
  <1> QED BY <1>1, ReplyInvariant, PTL
-----------------------------------------------------------------------------
\* The order of the sequence numbers that are about, across the wrap.  The age of
\* one is how many requests were posted since; 0 is the number of no request.
Age(x) == IF x <= seq THEN seq - x ELSE seq + SeqMax - x
Before(x, y) == Age(y) <= Age(x) /\ (Age(x) = Age(y) => x = y)

Posting == {"op", "arg", "seq"}
Copied == {"rows", "name", "check"}

\* From the overlay's request to the reply it has taken, each number was copied
\* from the one before it, so none is younger; and none is too old to be told
\* from a new one.
OrderInv ==
    /\ IF pc \in Posting THEN Age(box.seq) = 1 ELSE box.seq = seq
    /\ Before(consumed, box.seq)
    /\ wpc \in {"read", "process"} =>
          Before(consumed, request.seq) /\ Before(request.seq, box.seq)
    /\ Before(reply.head.seq, consumed)
    /\ pc \in Copied => /\ Before(snapshot.head.seq, reply.head.seq)
                        /\ Before(shown.head.seq, snapshot.head.seq)
    /\ Before(shown.head.seq, reply.head.seq)
    /\ Age(shown.head.seq) <= Ahead

LEMMA SeqTypes ==
    TypeOK => /\ seq \in Seqs /\ box.seq \in Seqs /\ consumed \in Seqs /\ request.seq \in Seqs
              /\ reply.head.seq \in Seqs /\ snapshot.head.seq \in Seqs
              /\ shown.head.seq \in Seqs
  BY DEF TypeOK, Requests, Replies, Heads

LEMMA BeforeTransitive ==
    ASSUME TypeOK, NEW x \in Seqs, NEW y \in Seqs, NEW z \in Seqs, Before(x, y), Before(y, z)
    PROVE  Before(x, z)
  BY MailboxAssumption DEF TypeOK, Seqs, Age, Before

\* What may be posted now was posted fewer than Ahead requests after the last one
\* whose answer was seen.
LEMMA AgeUnanswered ==
    ASSUME TypeOK, Unanswered < Ahead, Age(shown.head.seq) <= Ahead
    PROVE  Age(shown.head.seq) < Ahead
  <1> DEFINE x == shown.head.seq
  <1>1. x \in 0..SeqMax /\ seq \in 0..SeqMax /\ SeqMax \in Nat /\ SeqMax > Ahead /\ Ahead \in Nat
    BY SeqTypes, MailboxAssumption DEF Seqs
  <1>2. Unanswered = (seq - x) % SeqMax
    BY DEF Unanswered
  <1> HIDE DEF x
  <1>3. CASE x <= seq
    <2>1. Age(x) = seq - x /\ seq - x \in 0..Ahead
      BY <1>1, <1>3 DEF Age, x
    <2>2. (seq - x) % SeqMax = seq - x
      BY <1>1, <2>1
    <2> QED BY <1>2, <2>1, <2>2 DEF x
  <1>4. CASE ~(x <= seq)
    <2>1. Age(x) = seq + SeqMax - x /\ seq + SeqMax - x \in 0..Ahead
      BY <1>1, <1>4 DEF Age, x
    <2>2. seq - x = (seq + SeqMax - x) + (-1) * SeqMax
      BY <1>1
    <2>3. (seq - x) % SeqMax = seq + SeqMax - x
      BY <1>1, <2>1, <2>2
    <2> QED BY <1>2, <2>1, <2>3 DEF x
  <1> QED BY <1>3, <1>4

\* A new request makes every number older by one, the new one is of no age.
LEMMA AgePosted ==
    ASSUME TypeOK, seq' = NextSeq(seq), NEW x \in Seqs, Age(x) < Ahead
    PROVE  Age(x)' = Age(x) + 1
  BY MailboxAssumption DEF TypeOK, Seqs, Age, NextSeq

\* The order outlives a new request: every number is one older, the newest old one
\* is the old seq.
LEMMA BeforePosted ==
    ASSUME TypeOK, seq' = NextSeq(seq), NEW x \in Seqs, NEW y \in Seqs,
           Before(x, y), Age(x) < Ahead
    PROVE  Before(x, y)'
  <1>1. Age(x) \in Int /\ Age(y) \in Int
    BY MailboxAssumption DEF TypeOK, Seqs, Age
  <1>2. Age(y) < Ahead
    BY <1>1, MailboxAssumption DEF Before
  <1>3. Age(x)' = Age(x) + 1 /\ Age(y)' = Age(y) + 1
    BY <1>2, AgePosted
  <1> QED BY <1>1, <1>3 DEF Before

LEMMA OrderOverlay == TypeOK /\ OrderInv /\ Overlay => OrderInv'
  <1> SUFFICES ASSUME TypeOK, OrderInv, Overlay PROVE OrderInv' OBVIOUS
  <1> USE DEF OrderInv, Posting, Copied, overlay, worker
  <1>1. CASE Frame
    BY <1>1 DEF Frame, Before, Age
  <1>2. CASE CopyReply
    <2>1. /\ UNCHANGED <<box, seq, consumed, wpc, request, reply, shown>>
          /\ pc \in {"head", "rows", "name"} /\ pc' \in Copied
          /\ IF pc = "head" THEN snapshot'.head = reply.head ELSE snapshot'.head = snapshot.head
      BY <1>2 DEF CopyReply, Copy, TypeOK, Replies
    <2>2. Before(reply.head.seq, reply.head.seq)
      BY SeqTypes, MailboxAssumption DEF Before, Age, Seqs
    <2> QED BY <2>1, <2>2 DEF Before, Age
  <1>3. CASE Check
    <2>1. /\ UNCHANGED <<box, seq, consumed, wpc, request, reply>>
          /\ pc = "check" /\ pc' \in {"act", "adopted"}
          /\ shown' \in {shown, snapshot}
      BY <1>3 DEF Check, Adopt
    <2>2. Age(snapshot.head.seq) <= Ahead
      BY <2>1, SeqTypes, MailboxAssumption DEF Before, Age, Seqs
    <2> QED BY <2>1, <2>2 DEF Before, Age
  <1>4. CASE Act
    <2>1. UNCHANGED <<box, consumed, wpc, request, reply, snapshot, shown>>
          /\ pc \in {"act", "adopted"}
      BY <1>4 DEF Act
    <2>2. CASE pc' = "idle" /\ UNCHANGED seq
      BY <2>1, <2>2 DEF Before, Age
    <2>3. CASE pc' = "op" /\ seq' = NextSeq(seq) /\ Unanswered < Ahead
      <3>1. Age(shown.head.seq) < Ahead
        BY <2>3, AgeUnanswered
      <3>2. /\ Age(reply.head.seq) < Ahead /\ Age(consumed) < Ahead /\ Age(box.seq) < Ahead
            /\ wpc \in {"read", "process"} => Age(request.seq) < Ahead
        BY <3>1, SeqTypes, MailboxAssumption DEF Before, Age, Seqs
      <3>3. box.seq = seq /\ Age(seq) = 0
        BY <2>1, SeqTypes DEF Age, Seqs
      <3>4. Age(box.seq)' = 1
        BY <2>1, <2>3, <3>2, <3>3, AgePosted, SeqTypes DEF Age
      <3>5. Age(shown.head.seq)' <= Ahead
        <4>1. Age(shown.head.seq)' = Age(shown.head.seq) + 1
          BY <2>1, <2>3, <3>1, AgePosted, SeqTypes DEF Age
        <4> QED BY <3>1, <4>1, SeqTypes, MailboxAssumption DEF Age, Seqs
      <3>6. /\ Before(consumed, box.seq)' /\ Before(reply.head.seq, consumed)'
            /\ Before(shown.head.seq, reply.head.seq)'
        BY <2>1, <2>3, <3>1, <3>2, BeforePosted, SeqTypes DEF Before, Age
      <3>7. (wpc \in {"read", "process"} =>
                Before(consumed, request.seq) /\ Before(request.seq, box.seq))'
        BY <2>1, <2>3, <3>2, BeforePosted, SeqTypes DEF Before, Age
      <3> QED BY <2>3, <3>4, <3>5, <3>6, <3>7
    <2> QED BY <1>4, <2>2, <2>3 DEF Act, MayPost
  <1>5. CASE Put("op", "arg") \/ Put("arg", "seq")
    <2>1. /\ UNCHANGED <<seq, consumed, wpc, request, reply, snapshot, shown>>
          /\ pc \in Posting /\ pc' \in Posting /\ box'.seq = box.seq
      BY <1>5 DEF Put, Word, TypeOK, Requests
    <2> QED BY <2>1 DEF Before, Age
  <1>6. CASE Put("seq", "magic")
    <2>1. /\ UNCHANGED <<seq, consumed, wpc, request, reply, snapshot, shown>>
          /\ pc = "seq" /\ pc' = "magic" /\ box'.seq = seq
      BY <1>6 DEF Put, Word, TypeOK, Requests
    <2>2. Before(box.seq, seq)
      BY <2>1, SeqTypes, MailboxAssumption DEF Before, Age, Seqs
    <2>3. /\ Before(consumed, seq)
          /\ wpc \in {"read", "process"} => Before(request.seq, seq)
      BY <2>2, BeforeTransitive, SeqTypes
    <2> QED BY <2>1, <2>3 DEF Before, Age
  <1>7. CASE PutMagic
    BY <1>7 DEF PutMagic, Before, Age
  <1> QED BY <1>1, <1>2, <1>3, <1>4, <1>5, <1>6, <1>7 DEF Overlay

LEMMA OrderWorker == TypeOK /\ OrderInv /\ Worker => OrderInv'
  <1> SUFFICES ASSUME TypeOK, OrderInv, Worker PROVE OrderInv' OBVIOUS
  <1> USE DEF OrderInv, Copied, overlay, worker
  <1>1. CASE Poll
    <2>1. /\ UNCHANGED <<box, pc, seq, consumed, reply, snapshot, shown>>
          /\ wpc' = "read" /\ request'.seq = box.seq
      BY <1>1 DEF Poll, TypeOK, Requests
    <2>2. Before(box.seq, box.seq)
      BY SeqTypes, MailboxAssumption DEF Before, Age, Seqs
    <2> QED BY <2>1, <2>2 DEF Before, Age
  <1>2. CASE Read
    <2>1. /\ UNCHANGED <<box, pc, seq, consumed, reply, snapshot, shown>>
          /\ wpc = "read" /\ request'.seq = request.seq
      BY <1>2 DEF Read, TypeOK, Requests
    <2> QED BY <2>1 DEF Before, Age
  <1>3. CASE Process
    <2>1. /\ UNCHANGED <<box, pc, seq, reply, snapshot, shown>>
          /\ wpc = "process" /\ wpc' = "odd" /\ consumed' \in {consumed, request.seq}
      BY <1>3 DEF Process, Taken
    <2>2. Before(reply.head.seq, request.seq)
      BY <2>1, BeforeTransitive, SeqTypes
    <2> QED BY <2>1, <2>2 DEF Before, Age
  <1>4. CASE Open \/ Shut
    BY <1>4 DEF Open, Shut, Before, Age
  <1>5. CASE Parts
    <2>1. /\ UNCHANGED <<box, pc, seq, consumed, snapshot, shown>>
          /\ wpc' \in {"both", "rows", "head", "even"}
          /\ reply'.head.seq \in {reply.head.seq, consumed}
      BY <1>5 DEF Parts, Publish, Head, TypeOK, Replies, Heads
    <2>2. Before(shown.head.seq, consumed)
      BY BeforeTransitive, SeqTypes
    <2>4. Before(consumed, consumed)
      BY SeqTypes, MailboxAssumption DEF Before, Age, Seqs
    <2>3. pc \in Copied => Before(snapshot.head.seq, consumed)
      BY BeforeTransitive, SeqTypes
    <2> QED BY <2>1, <2>2, <2>3, <2>4 DEF Before, Age
  <1> QED BY <1>1, <1>2, <1>3, <1>4, <1>5 DEF Worker

\* The numbers of the requests and replies about keep their order, whatever the
\* interleaving, also across the wrap.
THEOREM OrderInvariant == Spec => []OrderInv
  <1>1. Init => OrderInv
    BY MailboxAssumption DEF Init, OrderInv, NoRequest, NoReply, Posting, Copied, Before, Age
  <1>2. TypeOK /\ OrderInv /\ [Next]_vars => OrderInv'
    <2> SUFFICES ASSUME TypeOK, OrderInv, [Next]_vars PROVE OrderInv' OBVIOUS
    <2>1. CASE Busy \/ Lapse \/ UNCHANGED vars
      BY <2>1 DEF Busy, Lapse, vars, overlay, worker, OrderInv, Posting, Copied, Before, Age
    <2> QED BY <2>1, OrderOverlay, OrderWorker DEF Next
  <1> QED BY <1>1, <1>2, MailboxTypes, PTL DEF Spec
-----------------------------------------------------------------------------
\* A request that is not pending is answered; one that is not for a page was posted
\* when the one before it was answered.
PendingInv ==
    /\ pc \notin Posting \cup {"magic"} /\ ~pending => shown.head.seq = seq
    /\ last.op # "page" => Age(shown.head.seq) <= 1

\* The words of the request posted last are in the box from the time they were
\* written, and reach the worker with its number only.
PostedInv ==
    /\ pc # "op" => box.op = last.op
    /\ pc \notin {"op", "arg"} => box.arg = last.arg
    /\ wpc = "process" /\ request.seq = seq => request.op = last.op /\ request.arg = last.arg

\* Nothing about is younger than the last request; what is as young is that request.
LEMMA Youngest ==
    ASSUME TypeOK, OrderInv
    PROVE  /\ Age(seq) = 0
           /\ \A x, y \in Seqs : Before(x, y) /\ x = seq => y = seq
           /\ \A x \in Seqs : Age(x) \in Nat
           /\ shown.head.seq = seq => /\ reply.head.seq = seq /\ consumed = seq /\ box.seq = seq
                                      /\ wpc \in {"read", "process"} => request.seq = seq
  <1>1. Age(seq) = 0 /\ \A x \in Seqs : Age(x) \in Nat
    BY SeqTypes, MailboxAssumption DEF Age, Seqs
  <1>2. \A x, y \in Seqs : Before(x, y) /\ x = seq => y = seq
    BY <1>1 DEF Before
  <1> QED BY <1>1, <1>2, SeqTypes DEF OrderInv

LEMMA PendingStep == TypeOK /\ OrderInv /\ PendingInv /\ [Next]_vars => PendingInv'
  <1> SUFFICES ASSUME TypeOK, OrderInv, PendingInv, [Next]_vars PROVE PendingInv' OBVIOUS
  <1> USE DEF PendingInv, Posting, overlay, worker
  <1>1. CASE Frame \/ CopyReply
    BY <1>1 DEF Frame, CopyReply, Copy, Age
  <1>2. CASE Check
    <2>1. /\ UNCHANGED <<seq, pending, last>> /\ pc = "check"
          /\ shown' \in {shown, snapshot} /\ pc' \in {"act", "adopted"}
      BY <1>2 DEF Check, Adopt
    <2>2. Before(shown.head.seq, snapshot.head.seq)
      BY <2>1 DEF OrderInv, Copied
    <2>3. shown.head.seq = seq => snapshot.head.seq = seq
      BY <2>2, Youngest, SeqTypes
    <2>4. Age(shown.head.seq) <= 1 => Age(snapshot.head.seq) <= 1
      BY <2>2, Youngest, SeqTypes DEF Before
    <2> QED BY <2>1, <2>3, <2>4 DEF Age
  <1>3. CASE Act
    <2>1. UNCHANGED shown /\ pending' = StillPending /\ pc \in {"act", "adopted"}
      BY <1>3 DEF Act
    <2>2. ~StillPending => shown.head.seq = seq
      BY <2>1 DEF StillPending
    <2>3. CASE pc' = "idle" /\ UNCHANGED <<seq, last>>
      BY <2>1, <2>2, <2>3 DEF Age
    <2>4. ASSUME NEW op \in Ops, MayPost(op), pc' = "op", seq' = NextSeq(seq), last'.op = op
          PROVE  PendingInv'
      <3>1. Age(shown.head.seq) < Ahead
        BY <2>4, AgeUnanswered DEF MayPost, OrderInv
      <3>2. Age(shown.head.seq)' = Age(shown.head.seq) + 1
        BY <2>1, <2>4, <3>1, AgePosted, SeqTypes DEF Age
      <3>3. op # "page" => Age(shown.head.seq) = 0
        BY <2>2, <2>4, Youngest DEF MayPost
      <3> QED BY <2>4, <3>2, <3>3
    <2> QED BY <1>3, <2>3, <2>4 DEF Act
  <1>4. CASE Put("op", "arg") \/ Put("arg", "seq") \/ Put("seq", "magic")
    BY <1>4 DEF Put, Age
  <1>5. CASE PutMagic
    BY <1>5 DEF PutMagic, Age
  <1>6. CASE UNCHANGED <<pc, shown, seq, pending, last>>
    BY <1>6 DEF Age
  <1>7. Worker \/ Busy \/ Lapse \/ UNCHANGED vars => UNCHANGED <<pc, shown, seq, pending, last>>
    BY DEF Worker, Poll, Read, Process, Open, Parts, Publish, Shut, Busy, Lapse, vars
  <1> QED BY <1>1, <1>2, <1>3, <1>4, <1>5, <1>6, <1>7 DEF Next, Overlay

LEMMA PostedStep == TypeOK /\ OrderInv /\ PostedInv /\ [Next]_vars => PostedInv'
  <1> SUFFICES ASSUME TypeOK, OrderInv, PostedInv, [Next]_vars PROVE PostedInv' OBVIOUS
  <1> USE DEF PostedInv, Posting, overlay, worker
  <1>1. CASE Frame \/ CopyReply \/ Check \/ PutMagic
    BY <1>1 DEF Frame, CopyReply, Copy, Check, PutMagic
  <1>2. CASE Act
    <2>1. UNCHANGED <<box, wpc, request>> /\ pc \in {"act", "adopted"}
      BY <1>2 DEF Act
    <2>2. CASE pc' = "idle" /\ UNCHANGED <<seq, last>>
      BY <2>1, <2>2
    <2>3. CASE pc' = "op" /\ seq' = NextSeq(seq) /\ Unanswered < Ahead
      <3>1. Age(shown.head.seq) < Ahead
        BY <2>3, AgeUnanswered DEF OrderInv
      <3>2. wpc = "process" => Age(request.seq) < Ahead /\ request.seq \in Seqs
        BY <3>1, SeqTypes, MailboxAssumption DEF OrderInv, Before, Age, Seqs
      <3>3. wpc = "process" => Age(request.seq)' > 0
        <4>1. ASSUME wpc = "process"
              PROVE  Age(request.seq)' = Age(request.seq) + 1 /\ Age(request.seq) \in Nat
          BY <2>1, <2>3, <3>2, <4>1, AgePosted, Youngest DEF Age
        <4> QED BY <4>1
      <3>4. seq' \in Seqs
        BY <2>3, NextSeqType, SeqTypes
      <3>5. wpc = "process" => request'.seq # seq'
        BY <2>1, <3>3, <3>4, MailboxAssumption DEF Age, Seqs
      <3> QED BY <2>1, <2>3, <3>5
    <2> QED BY <1>2, <2>2, <2>3 DEF Act, MayPost
  <1>3. ASSUME NEW step \in {"op", "arg", "seq"}, NEW to \in {"arg", "seq", "magic"},
               Put(step, to)
        PROVE  /\ UNCHANGED <<wpc, request, seq, last>> /\ pc = step /\ pc' = to
               /\ box'.op = IF step = "op" THEN last.op ELSE box.op
               /\ box'.arg = IF step = "arg" THEN last.arg ELSE box.arg
    BY <1>3 DEF Put, Word, TypeOK, Requests
  <1>4. CASE Put("op", "arg") \/ Put("arg", "seq") \/ Put("seq", "magic")
    BY <1>3, <1>4
  <1>5. CASE Read
    <2>1. /\ UNCHANGED <<box, pc, seq, last>> /\ wpc = "read"
          /\ request'.seq = request.seq /\ request'.op = box.op /\ request'.arg = box.arg
      BY <1>5 DEF Read, TypeOK, Requests
    <2>2. request.seq = seq => pc \notin Posting
      <3>1. Before(request.seq, box.seq)
        BY <2>1 DEF OrderInv
      <3> QED BY <3>1, Youngest, SeqTypes DEF OrderInv
    <2> QED BY <2>1, <2>2
  <1>6. CASE Poll \/ Process \/ Open \/ Parts \/ Shut
    BY <1>6 DEF Poll, Process, Open, Parts, Publish, Shut
  <1>7. CASE Busy \/ Lapse \/ UNCHANGED vars
    BY <1>7 DEF Busy, Lapse, vars
  <1> QED BY <1>1, <1>2, <1>4, <1>5, <1>6, <1>7 DEF Next, Overlay, Worker
-----------------------------------------------------------------------------
\* A request of this number and argument is the last load, which was not begun.
Unbegun(n, a) == load.seq = n /\ load.arg = a /\ load.begun = 0

\* The load posted last is begun once it is the last request and consumed.  One that
\* is in the box or with the worker and is not consumed is that load; a word of
\* another request was not put to its number.
LoadInv ==
    /\ last.op = "load" => /\ load.seq = seq /\ load.arg = last.arg
                           /\ load.begun = IF consumed = seq THEN 1 ELSE 0
    /\ wpc = "process" /\ request.op = "load" /\ New => Unbegun(request.seq, request.arg)
    /\ wpc = "read" /\ box.op = "load" /\ New => Unbegun(request.seq, box.arg)
    /\ box.op = "load" /\ box.seq # consumed => Unbegun(box.seq, box.arg)

\* While a load or a position is being posted nothing else is left to do.
LEMMA PostedAlone ==
    ASSUME TypeOK, OrderInv, PendingInv, last.op # "page", pc \in Posting
    PROVE  /\ consumed = box.seq
           /\ wpc \in {"read", "process"} => request.seq = box.seq
  <1>1. Age(box.seq) = 1 /\ Age(shown.head.seq) <= 1
    BY DEF OrderInv, PendingInv
  <1>2. Age(consumed) <= 1 /\ Before(consumed, box.seq)
    BY <1>1, Youngest, SeqTypes DEF OrderInv, Before
  <1>3. consumed = box.seq
    BY <1>1, <1>2, Youngest, SeqTypes DEF Before
  <1>4. wpc \in {"read", "process"} => request.seq = box.seq
    BY <1>1, <1>3, Youngest, SeqTypes DEF OrderInv, Before
  <1> QED BY <1>3, <1>4

LEMMA LoadOverlay ==
    TypeOK /\ OrderInv /\ PendingInv /\ PostedInv /\ LoadInv /\ Overlay => LoadInv'
  <1> SUFFICES ASSUME TypeOK, OrderInv, PendingInv, PostedInv, LoadInv, Overlay PROVE LoadInv'
    OBVIOUS
  <1> USE DEF LoadInv, Unbegun, New, overlay, worker
  <1>1. CASE Frame \/ CopyReply \/ Check \/ PutMagic
    BY <1>1 DEF Frame, CopyReply, Copy, Check, PutMagic
  <1>2. CASE Act
    <2>1. UNCHANGED <<box, wpc, request, consumed>> /\ pc \in {"act", "adopted"}
      BY <1>2 DEF Act
    <2>2. CASE pc' = "idle" /\ UNCHANGED <<seq, last, load>>
      BY <2>1, <2>2
    <2>3. ASSUME NEW op \in Ops, NEW arg \in Args, MayPost(op), pc' = "op",
                 seq' = NextSeq(seq), last' = [op |-> op, arg |-> arg],
                 load' = IF op = "load" THEN [seq |-> seq', arg |-> arg, begun |-> 0] ELSE load
          PROVE  LoadInv'
      <3>1. CASE op = "load"
        <4>1. shown.head.seq = seq
          BY <2>1, <2>3, <3>1 DEF MayPost, StillPending, PendingInv, Posting
        <4>2. /\ consumed = seq /\ box.seq = seq
              /\ wpc \in {"read", "process"} => request.seq = seq
          BY <4>1, Youngest
        <4>3. seq' # seq
          BY <2>3, SeqTypes, MailboxAssumption DEF NextSeq, Seqs
        <4>4. load'.seq = seq' /\ load'.arg = arg /\ load'.begun = 0
          BY <2>3, <3>1
        <4> QED BY <2>1, <2>3, <3>1, <4>2, <4>3, <4>4
      <3>2. CASE op # "load"
        BY <2>1, <2>3, <3>2
      <3> QED BY <3>1, <3>2
    <2> QED BY <1>2, <2>2, <2>3 DEF Act
  <1>3. ASSUME NEW step \in {"op", "arg"}, NEW to \in {"arg", "seq"}, Put(step, to)
        PROVE  LoadInv'
    <2>1. /\ UNCHANGED <<wpc, request, consumed, seq, last, load>> /\ box'.seq = box.seq
          /\ box'.op = last.op /\ pc \in Posting
      BY <1>3 DEF Put, Word, TypeOK, Requests, PostedInv, Posting
    <2>2. CASE last.op = "load"
      BY <2>1, <2>2, PostedAlone
    <2>3. CASE last.op # "load"
      BY <2>1, <2>3
    <2> QED BY <2>2, <2>3
  <1>4. CASE Put("seq", "magic")
    <2>1. /\ UNCHANGED <<wpc, request, consumed, seq, last, load>> /\ box'.seq = seq
          /\ box'.op = last.op /\ box'.arg = last.arg /\ pc \in Posting
      BY <1>4 DEF Put, Word, TypeOK, Requests, PostedInv, Posting
    <2>2. CASE last.op = "load"
      BY <2>1, <2>2, PostedAlone
    <2>3. CASE last.op # "load"
      BY <2>1, <2>3
    <2> QED BY <2>2, <2>3
  <1> QED BY <1>1, <1>2, <1>3, <1>4 DEF Overlay

LEMMA LoadWorker ==
    TypeOK /\ OrderInv /\ PostedInv /\ LoadInv /\ Worker => LoadInv'
  <1> SUFFICES ASSUME TypeOK, OrderInv, PostedInv, LoadInv, Worker PROVE LoadInv'
    OBVIOUS
  <1> USE DEF LoadInv, Unbegun, New, overlay, worker
  <1>1. CASE Poll
    <2>1. UNCHANGED <<box, consumed, seq, last, load>> /\ wpc' = "read" /\ request'.seq = box.seq
      BY <1>1 DEF Poll, TypeOK, Requests
    <2> QED BY <2>1
  <1>2. CASE Read
    <2>1. /\ UNCHANGED <<box, consumed, seq, last, load>> /\ wpc = "read" /\ wpc' = "process"
          /\ request'.seq = request.seq /\ request'.op = box.op /\ request'.arg = box.arg
      BY <1>2 DEF Read, TypeOK, Requests
    <2> QED BY <2>1
  <1>3. CASE Process
    <2>1. /\ UNCHANGED <<box, seq, last>> /\ wpc = "process" /\ wpc' = "odd"
      BY <1>3 DEF Process
    <2>2. CASE UNCHANGED <<consumed, load>>
      BY <2>1, <2>2
    <2>3. CASE New /\ request.op # "load" /\ consumed' = request.seq /\ UNCHANGED load
      <3>1. last.op = "load" => consumed # seq /\ request.seq # seq
        BY <2>1, <2>3, Youngest, SeqTypes DEF OrderInv, PostedInv
      <3>2. box.seq # request.seq => box.seq # consumed
        <4>1. Before(consumed, request.seq) /\ Before(request.seq, box.seq)
          BY <2>1 DEF OrderInv
        <4> QED BY <4>1, Youngest, SeqTypes DEF Before
      <3> QED BY <2>1, <2>3, <3>1, <3>2
    <2>4. CASE New /\ request.op = "load" /\ consumed' = request.seq
               /\ load' = [load EXCEPT !.begun = @ + 1]
      <3>1. load.seq = request.seq /\ load.begun = 0
        BY <2>1, <2>4
      <3>2. load'.seq = load.seq /\ load'.arg = load.arg /\ load'.begun = 1
        BY <2>4, <3>1 DEF TypeOK
      <3>3. box.op = "load" => box.seq = request.seq
        <4>1. Before(consumed, request.seq) /\ Before(request.seq, box.seq)
          BY <2>1 DEF OrderInv
        <4>2. box.seq # consumed
          BY <2>4, <4>1, Youngest, SeqTypes DEF Before
        <4> QED BY <3>1, <4>2
      <3> QED BY <2>1, <2>4, <3>1, <3>2, <3>3
    <2> QED BY <1>3, <2>2, <2>3, <2>4 DEF Process, Taken
  <1>4. CASE Open \/ Parts \/ Shut
    BY <1>4 DEF Open, Parts, Publish, Shut
  <1> QED BY <1>1, <1>2, <1>3, <1>4 DEF Worker

\* A reply of the last request's number is the answer to it.
Tells(h) == h.seq = seq => /\ last.op = "page" => h.page = last.arg
                           /\ last.op = "view" => h.view = last.arg

AnswerInv ==
    /\ Tells(Head) /\ Tells(reply.head) /\ Tells(shown.head)
    /\ pc \in Copied => Tells(snapshot.head)

LEMMA AnswerStep ==
    TypeOK /\ OrderInv /\ PostedInv /\ AnswerInv /\ [Next]_vars => AnswerInv'
  <1> SUFFICES ASSUME TypeOK, OrderInv, PostedInv, AnswerInv, [Next]_vars PROVE AnswerInv'
    OBVIOUS
  <1> USE DEF AnswerInv, Tells, Head, Copied, overlay, worker
  <1>1. CASE Frame \/ PutMagic \/ Put("op", "arg") \/ Put("arg", "seq") \/ Put("seq", "magic")
    BY <1>1 DEF Frame, PutMagic, Put
  <1>2. CASE CopyReply
    <2>1. /\ UNCHANGED <<seq, last, consumed, page, view, reply, shown>>
          /\ pc' \in Copied /\ pc \in {"head", "rows", "name"}
          /\ snapshot'.head = IF pc = "head" THEN reply.head ELSE snapshot.head
      BY <1>2 DEF CopyReply, Copy, TypeOK, Replies
    <2> QED BY <2>1
  <1>3. CASE Check
    BY <1>3 DEF Check, Adopt
  <1>4. CASE Act
    <2>1. /\ UNCHANGED <<consumed, page, view, reply, snapshot, shown>>
          /\ pc' \in {"idle", "op"} /\ pc \in {"act", "adopted"}
      BY <1>4 DEF Act
    <2>2. CASE pc' = "idle" /\ UNCHANGED <<seq, last>>
      BY <2>1, <2>2
    <2>3. CASE pc' = "op" /\ seq' = NextSeq(seq) /\ Unanswered < Ahead
      <3>1. Age(shown.head.seq) < Ahead
        BY <2>3, AgeUnanswered DEF OrderInv
      <3>2. Age(reply.head.seq) < Ahead /\ Age(consumed) < Ahead
        BY <3>1, SeqTypes, MailboxAssumption DEF OrderInv, Before, Age, Seqs
      <3>3. seq' \in Seqs
        BY <2>3, NextSeqType, SeqTypes
      <3>4. \A x \in Seqs : Age(x) < Ahead => x # seq'
        <4> SUFFICES ASSUME NEW x \in Seqs, Age(x) < Ahead, x = seq' PROVE FALSE
          OBVIOUS
        <4>1. Age(x)' = Age(x) + 1 /\ Age(x) \in Nat
          BY <2>3, AgePosted, Youngest
        <4> QED BY <3>3, <4>1, MailboxAssumption DEF Age, Seqs
      <3> QED BY <2>1, <2>3, <3>1, <3>2, <3>4, SeqTypes
    <2> QED BY <1>4, <2>2, <2>3 DEF Act, MayPost
  <1>5. CASE Process
    <2>1. UNCHANGED <<pc, seq, last, reply, snapshot, shown>> /\ wpc = "process"
      BY <1>5 DEF Process
    <2>2. CASE UNCHANGED <<consumed, page, view>>
      BY <2>1, <2>2
    <2>3. CASE /\ consumed' = request.seq
               /\ page' = IF request.op = "page" THEN request.arg ELSE page
               /\ view' = IF request.op = "view" THEN request.arg ELSE view
      BY <2>1, <2>3 DEF PostedInv
    <2> QED BY <1>5, <2>2, <2>3 DEF Process, Taken
  <1>6. CASE Parts
    <2>1. /\ UNCHANGED <<pc, seq, last, consumed, page, view, snapshot, shown>>
          /\ reply'.head \in {reply.head, Head}
      BY <1>6 DEF Parts, Publish, TypeOK, Replies
    <2> QED BY <2>1
  <1>7. CASE Poll \/ Read \/ Open \/ Shut
    BY <1>7 DEF Poll, Read, Open, Shut
  <1>8. CASE Busy \/ Lapse \/ UNCHANGED vars
    BY <1>8 DEF Busy, Lapse, vars
  <1> QED BY <1>1, <1>2, <1>3, <1>4, <1>5, <1>6, <1>7, <1>8 DEF Next, Overlay, Worker
-----------------------------------------------------------------------------
RequestInv == PendingInv /\ PostedInv /\ LoadInv /\ AnswerInv

\* What is known of the last request, wherever its words and its answer are.
THEOREM RequestInvariant == Spec => []RequestInv
  <1>1. Init => RequestInv
    BY MailboxAssumption
       DEF Init, RequestInv, PendingInv, PostedInv, LoadInv, AnswerInv, Tells, Head, New,
           NoRequest, NoReply, Posting, Copied, Age
  <1>2. TypeOK /\ OrderInv /\ RequestInv /\ [Next]_vars => LoadInv'
    <2> SUFFICES ASSUME TypeOK, OrderInv, RequestInv, [Next]_vars PROVE LoadInv' OBVIOUS
    <2>1. CASE Busy \/ Lapse \/ UNCHANGED vars
      BY <2>1 DEF Busy, Lapse, vars, overlay, worker, RequestInv, LoadInv, Unbegun, New
    <2> QED BY <2>1, LoadOverlay, LoadWorker DEF Next, RequestInv
  <1>3. TypeOK /\ OrderInv /\ RequestInv /\ [Next]_vars => RequestInv'
    BY <1>2, PendingStep, PostedStep, AnswerStep DEF RequestInv
  <1> QED BY <1>1, <1>3, MailboxTypes, OrderInvariant, PTL DEF Spec

\* e11_mailbox begins a load only as it was posted, and none twice.
THEOREM LoadsAreTrue == Spec => LoadTrue
  <1>1. ASSUME TypeOK, RequestInv, [Next]_vars, load'.begun > load.begun
        PROVE  /\ load.begun = 0
               /\ request = [seq |-> load.seq, op |-> "load", arg |-> load.arg]
    <2>1. CASE Process
      <3>1. New /\ request.op = "load" /\ wpc = "process"
        BY <1>1, <2>1 DEF Process, TypeOK
      <3>2. load.begun = 0 /\ load.seq = request.seq /\ load.arg = request.arg
        BY <1>1, <3>1 DEF RequestInv, LoadInv, Unbegun
      <3>3. request = [seq |-> request.seq, op |-> request.op, arg |-> request.arg]
        BY <1>1 DEF TypeOK, Requests
      <3> QED BY <3>1, <3>2, <3>3
    <2>2. CASE Act
      <3>1. load' = load \/ load'.begun = 0
        BY <2>2 DEF Act
      <3> QED BY <1>1, <3>1 DEF TypeOK
    <2>3. ~Process /\ ~Act => load' = load
      BY <1>1 DEF Next, Overlay, Worker, Frame, CopyReply, Copy, Check, Put, PutMagic, Poll, Read,
                  Open, Parts, Publish, Shut, Busy, Lapse, vars
    <2> QED BY <1>1, <2>1, <2>2, <2>3 DEF TypeOK
  <1>2. TypeOK /\ RequestInv /\ [Next]_vars =>
           [load'.begun > load.begun =>
               /\ load.begun = 0
               /\ request = [seq |-> load.seq, op |-> "load", arg |-> load.arg]]_vars
    BY <1>1
  <1> QED BY <1>2, MailboxTypes, RequestInvariant, PTL DEF Spec, LoadTrue

\* A request that the overlay sees answered was carried out, by the reply it shows.
THEOREM AnswersAreExact == Spec => []AckExact
  <1>1. TypeOK /\ OrderInv /\ RequestInv => AckExact
    <2> SUFFICES ASSUME TypeOK, OrderInv, RequestInv, pc = "idle", ~pending
                 PROVE  CASE last.op = "page" -> shown.head.page = last.arg
                          [] last.op = "view" -> shown.head.view = last.arg
                          [] last.op = "load" -> load.begun = 1
      BY DEF AckExact
    <2>1. shown.head.seq = seq
      BY DEF RequestInv, PendingInv, Posting
    <2>2. consumed = seq
      BY <2>1, Youngest
    <2>3. last.op \in Ops
      BY DEF TypeOK
    <2> QED BY <2>1, <2>2, <2>3 DEF RequestInv, AnswerInv, Tells, LoadInv, Ops
  <1> QED BY <1>1, MailboxTypes, OrderInvariant, RequestInvariant, PTL
=============================================================================
