------------------------------ MODULE Mailbox ------------------------------
(***************************************************************************)
(* The 544 bytes of memory through which the overlay (on the PowerPC) and  *)
(* the worker of the plugin (on the ARM) talk: request and update_menu in  *)
(* overlay/menu.c, e11_mailbox and e11_publish in e12_storage.h.           *)
(*                                                                         *)
(* There is no lock.  A request is its operation and argument and then its *)
(* sequence number.  A reply carries the number of the last request done;  *)
(* its parts are written between two increments of a revision, which is    *)
(* odd meanwhile, and a reader whose revision moved keeps its old reply.   *)
(* A load or removal is not taken while the storage is busy.  The menu     *)
(* posts one request at a time, except that opening it again asks for a    *)
(* page whatever is pending.                                               *)
(***************************************************************************)
EXTENDS Integers

CONSTANTS
    Args,     \* arguments of requests: pages, UI positions, figures
    SeqMax,   \* sequence numbers are 1..SeqMax (2^32 - 1); 0 is none
    Ahead     \* bound: requests posted and not seen answered by the overlay

ASSUME MailboxAssumption ==
    /\ 0 \in Args
    /\ Ahead \in Nat \ {0} /\ SeqMax \in Nat /\ SeqMax > Ahead

Ops == {"page", "view", "load"}    \* load stands for operations 2 and 3
NoRequest == [seq |-> 0, op |-> "page", arg |-> 0]
NoReply == [head |-> [seq |-> 0, page |-> 0, view |-> 0], rows |-> 0, name |-> 0]

VARIABLES
    box,       \* BOX[1..3]: seq, op and arg of the request
    magic,     \* BOX[0] and BOX[4] are set
    odd,       \* the revision in BOX[112] is odd
    reply,     \* the reply in the box: head, rows of the page, name of the figure
    pc,        \* where update_menu is
    snapshot,  \* its copy of the reply
    moved,     \* the revision has moved since update_menu read it
    shown,     \* reply[]: the last whole reply of the overlay
    seq,       \* state.seq
    pending,   \* state.pending
    last,      \* the operation and argument being posted, or posted last
    wpc,       \* where e11_mailbox is
    request,   \* e11_request, while it is in use
    consumed,  \* e11_request_seq
    page, view,  \* e11_page, e12_view
    blocked,   \* e12_action || e09_busy
    beat,      \* the heartbeat in BOX[5] differs from e11_heartbeat
    stale,     \* it has not moved for 500 ticks
    load       \* history: the last load posted, and how often it was begun

overlay == <<pc, snapshot, shown, seq, pending, last>>
worker == <<wpc, request, consumed, page, view, blocked>>
vars == <<box, magic, odd, reply, moved, overlay, worker, beat, stale, load>>
-----------------------------------------------------------------------------
Init ==
    /\ box = NoRequest /\ magic = FALSE
    /\ odd = FALSE /\ reply = NoReply /\ moved = FALSE
    /\ pc = "idle" /\ snapshot = NoReply /\ shown = NoReply
    /\ seq = 0 /\ pending = FALSE /\ last = [op |-> "page", arg |-> 0]
    /\ wpc = "idle" /\ request = NoRequest /\ consumed = 0
    /\ page = 0 /\ view = 0 /\ blocked = FALSE
    /\ beat = FALSE /\ stale = FALSE
    /\ load = [seq |-> 0, arg |-> 0, begun |-> 0]

NextSeq(s) == IF s = SeqMax THEN 1 ELSE s + 1
Unanswered == (seq - shown.head.seq) % SeqMax
-----------------------------------------------------------------------------
\* The overlay.  A frame begins: the heartbeat, and the revision.
Frame ==
    /\ pc = "idle"
    /\ beat' = TRUE
    /\ pc' = IF odd THEN "act" ELSE "head"
    /\ moved' = FALSE
    /\ UNCHANGED <<box, magic, odd, reply, snapshot, shown, seq, pending, last, worker,
                   stale, load>>

\* It copies one part of the reply after the other.
Copy(from, part, to) ==
    /\ pc = from /\ pc' = to
    /\ snapshot' = [snapshot EXCEPT ![part] = reply[part]]
    /\ UNCHANGED <<box, magic, odd, reply, moved, shown, seq, pending, last, worker, beat,
                   stale, load>>

CopyReply == Copy("head", "head", "rows") \/ Copy("rows", "rows", "name")
             \/ Copy("name", "name", "check")

\* Fault: the copy is taken whatever the revision.
AdoptAlways == shown' = snapshot
Adopt == shown' = IF moved THEN shown ELSE snapshot

\* The locals of update_menu are dead after it.
Check ==
    /\ pc = "check"
    /\ pc' = IF moved THEN "act" ELSE "adopted"
    /\ Adopt
    /\ snapshot' = NoReply
    /\ moved' = FALSE
    /\ UNCHANGED <<box, magic, odd, reply, seq, pending, last, worker,
                   beat, stale, load>>

\* The request is answered or not; the menu posts another, or nothing.
StillPending == pending /\ shown.head.seq # seq

MayPost(op) == /\ StillPending => op = "page"
               /\ Unanswered < Ahead

Act ==
    /\ pc \in {"act", "adopted"}
    /\ pending' = StillPending
    /\ \/ pc' = "idle" /\ UNCHANGED <<seq, last, load>>
       \/ \E op \in Ops, arg \in Args :
             /\ MayPost(op)
             /\ pc' = "op"
             /\ seq' = NextSeq(seq)
             /\ last' = [op |-> op, arg |-> arg]
             /\ load' = IF op = "load" THEN [seq |-> seq', arg |-> arg, begun |-> 0] ELSE load
    /\ UNCHANGED <<box, magic, odd, reply, moved, snapshot, shown, worker, beat, stale>>

\* request writes word by word.
\* Fault: the sequence number comes first.
WordSeqFirst == [op |-> "seq", arg |-> "op", seq |-> "arg"]
Word == [op |-> "op", arg |-> "arg", seq |-> "seq"]

Put(step, to) ==
    LET new == [seq |-> seq, op |-> last.op, arg |-> last.arg] IN
    /\ pc = step /\ pc' = to
    /\ box' = [box EXCEPT ![Word[step]] = new[Word[step]]]
    /\ UNCHANGED <<magic, odd, reply, moved, snapshot, shown, seq, pending, last, worker,
                   beat, stale, load>>

PutMagic ==
    /\ pc = "magic" /\ pc' = "idle"
    /\ magic' = TRUE /\ pending' = TRUE
    /\ UNCHANGED <<box, odd, reply, moved, snapshot, shown, seq, last, worker, beat, stale,
                   load>>

Overlay == Frame \/ CopyReply \/ Check \/ Act
           \/ Put("op", "arg") \/ Put("arg", "seq") \/ Put("seq", "magic") \/ PutMagic
-----------------------------------------------------------------------------
\* The worker.  Every eighth tick it reads the request, sequence number first,
\* unless there was none yet or the overlay has stopped.
Poll ==
    /\ wpc = "idle"
    /\ magic /\ (beat \/ ~stale)
    /\ wpc' = "read"
    /\ request' = [request EXCEPT !.seq = box.seq]
    /\ beat' = FALSE /\ stale' = FALSE
    /\ UNCHANGED <<box, magic, odd, reply, moved, overlay, consumed, page, view, blocked,
                   load>>

Read ==
    /\ wpc = "read" /\ wpc' = "process"
    /\ request' = [request EXCEPT !.op = box.op, !.arg = box.arg]
    /\ UNCHANGED <<box, magic, odd, reply, moved, overlay, consumed, page, view, blocked,
                   beat, stale, load>>

\* Fault: a request that has to wait counts as done.
TakenAlways == consumed' = request.seq
Taken == consumed' = IF request.op = "load" /\ blocked THEN consumed ELSE request.seq

\* Fault: only a greater number is new.
NewGreater == request.seq > consumed
New == request.seq # consumed

\* A new request is done, or waits; e12_begin may refuse a load.
Process ==
    /\ wpc = "process" /\ wpc' = "odd"
    /\ request' = NoRequest
    /\ IF New
       THEN /\ Taken
            /\ page' = IF request.op = "page" THEN request.arg ELSE page
            /\ view' = IF request.op = "view" THEN request.arg ELSE view
            /\ IF request.op = "load" /\ ~blocked
               THEN /\ load' = [load EXCEPT !.begun = @ + 1]
                    /\ blocked' \in BOOLEAN
               ELSE UNCHANGED <<load, blocked>>
       ELSE UNCHANGED <<consumed, page, view, load, blocked>>
    /\ UNCHANGED <<box, magic, odd, reply, moved, overlay, beat, stale>>

Copying == pc \in {"head", "rows", "name", "check"}

\* e11_publish: the revision, the name, the reply in any order, the revision.
Revision == odd' = ~odd /\ moved' = Copying

Open ==
    /\ wpc = "odd" /\ wpc' = "name"
    /\ Revision
    /\ UNCHANGED <<box, magic, reply, overlay, request, consumed, page, view, blocked, beat,
                   stale, load>>

Publish(from, part, value, to) ==
    /\ wpc = from /\ wpc' = to
    /\ reply' = [reply EXCEPT ![part] = value]
    /\ UNCHANGED <<box, magic, odd, moved, overlay, request, consumed, page, view, blocked,
                   beat, stale, load>>

Head == [seq |-> consumed, page |-> page, view |-> view]
Parts ==
    \/ Publish("name", "name", view, "both")
    \/ Publish("both", "head", Head, "rows") \/ Publish("rows", "rows", page, "even")
    \/ Publish("both", "rows", page, "head") \/ Publish("head", "head", Head, "even")

Shut ==
    /\ wpc = "even" /\ wpc' = "idle"
    /\ Revision
    /\ UNCHANGED <<box, magic, reply, overlay, request, consumed, page, view, blocked, beat,
                   stale, load>>

\* An action or a disk job begins or ends, between two polls.
Busy ==
    /\ wpc = "idle"
    /\ blocked' = ~blocked
    /\ UNCHANGED <<box, magic, odd, reply, moved, overlay, wpc, request, consumed, page, view,
                   beat, stale, load>>

\* The heartbeat has not moved for a second.
Lapse ==
    /\ wpc = "idle" /\ ~beat /\ ~stale
    /\ stale' = TRUE
    /\ UNCHANGED <<box, magic, odd, reply, moved, overlay, worker, beat, load>>

Worker == Poll \/ Read \/ Process \/ Open \/ Parts \/ Shut

Next == Overlay \/ Worker \/ Busy \/ Lapse

Spec == Init /\ [][Next]_vars

\* Frames are drawn and the worker runs.
FairSpec == Spec /\ WF_vars(Overlay) /\ WF_vars(Worker)
-----------------------------------------------------------------------------
Seqs == 0..SeqMax
Requests == [seq : Seqs, op : Ops, arg : Args]
Heads == [seq : Seqs, page : Args, view : Args]
Replies == [head : Heads, rows : Args, name : Args]

TypeOK ==
    /\ box \in Requests /\ magic \in BOOLEAN
    /\ odd \in BOOLEAN /\ reply \in Replies /\ moved \in BOOLEAN
    /\ pc \in {"idle", "head", "rows", "name", "check", "adopted", "act", "op", "arg", "seq",
               "magic"}
    /\ snapshot \in Replies /\ shown \in Replies
    /\ seq \in Seqs /\ pending \in BOOLEAN /\ last \in [op : Ops, arg : Args]
    /\ wpc \in {"idle", "read", "process", "odd", "name", "both", "head", "rows", "even"}
    /\ request \in Requests /\ consumed \in Seqs
    /\ page \in Args /\ view \in Args /\ blocked \in BOOLEAN
    /\ beat \in BOOLEAN /\ stale \in BOOLEAN
    /\ load \in [seq : Seqs, arg : Args, begun : Nat]

Whole(r) == r.rows = r.head.page /\ r.name = r.head.view

\* A reply the overlay has taken is one reply of the worker, not parts of two:
\* the rows are those of the page, the name that of the position it shows.
ReplyWhole == Whole(shown)

\* The inductive invariant: the revision is odd exactly while the reply in the box
\* is in parts, each of which is the worker's once written; a copy of the overlay,
\* as long as no revision came between, is that reply as far as it was copied.
Publishing == wpc \in {"name", "both", "head", "rows", "even"}

ReplyInv ==
    /\ odd <=> Publishing
    /\ ~odd => Whole(reply)
    /\ wpc \in {"both", "head", "rows", "even"} => reply.name = view
    /\ wpc \in {"rows", "even"} => reply.head = Head
    /\ wpc \in {"head", "even"} => reply.rows = page
    /\ Copying /\ ~moved =>
          /\ ~odd
          /\ pc # "head" => snapshot.head = reply.head
          /\ pc \in {"name", "check"} => snapshot.rows = reply.rows
          /\ pc = "check" => snapshot.name = reply.name
    /\ Whole(shown)

\* The worker begins a load only as it was posted, never one put together from
\* the words of two requests, and none twice.
LoadTrue ==
    [][load'.begun > load.begun =>
          /\ load.begun = 0
          /\ request = [seq |-> load.seq, op |-> "load", arg |-> load.arg]]_vars

\* When the overlay sees its request answered, it was carried out: the page or
\* position in the reply is the one asked for, the load was begun (or refused).
AckExact ==
    pc = "idle" /\ seq > 0 /\ ~pending =>
        CASE last.op = "page" -> shown.head.page = last.arg
          [] last.op = "view" -> shown.head.view = last.arg
          [] last.op = "load" -> load.begun = 1

\* If whole replies reach the overlay again and again, and the storage is not
\* busy at every poll, the request posted last is answered in the end.
AnsweredInTheEnd ==
    []<>(pc = "adopted") /\ []<>(wpc = "process" /\ ~blocked) /\ <>[](pc # "op")
        => <>[]~pending
=============================================================================
