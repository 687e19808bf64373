---------------------------- MODULE EarlyStorage ----------------------------
(***************************************************************************)
(* The two storages that came before E12 and are still build options:      *)
(* E09 (e09_storage.h) serves the figure the user selected before the      *)
(* game, E11 (e11_storage.h) swaps one figure for another during it.       *)
(*                                                                         *)
(* Both keep one live figure, that the HID worker alone changes, and one   *)
(* job buffer, that the storage worker fills and empties.  The HID worker  *)
(* submits a job, goes on, and handles the message that it ended.  A step  *)
(* is a message of the HID worker (of a tick, the mailbox and the poll are *)
(* two steps) or the whole job of the storage worker.                      *)
(*                                                                         *)
(* A figure has two journals on the card, as with E12 (module Journal),    *)
(* but is loaded otherwise: a journal that cannot be read, for whatever    *)
(* reason, is passed over, and a load with no journal left brings the      *)
(* source dump.  A content of a figure is a number: 0 is the dump, up to   *)
(* 2 * HalfSeq are those of earlier sessions, the writes of the game give  *)
(* the rest.                                                               *)
(***************************************************************************)
EXTENDS SeqNumbers

CONSTANTS
    Figures,      \* entries of the catalogue, or slots of E09
    None, NoJob,
    Earlier,      \* sequence numbers that earlier sessions left on the card
    MaxWrites,    \* bound: how often the game writes
    FailTicks,    \* ticks to the next try of a catalogue or a load (500)
    SaveTicks,    \* ticks before a save (E11: 1000, E09: 500)
    SlowTicks,    \* E09: ticks before a save after an error (2500)
    TraceTicks,   \* E09: ticks between two traces (2500)
    RemoveTicks   \* E11: ticks a figure is off the portal (250)

Jobs == [op : {"catalog", "load", "save", "trace"}, fig : Figures, data : Nat, seq : Seq32,
         snap : Nat]
ASSUME EarlyAssumption ==
    /\ None \notin Figures \cup Nat /\ NoJob \notin Jobs
    /\ HalfSeq \in Nat /\ HalfSeq >= 2 /\ Earlier \subseteq Seq32

VARIABLES
    build,      \* the storage that was compiled: "E11", "E09" or "none"
    live,       \* e09_slot of a started portal, or None
    have,       \* e09_live
    shown,      \* e09_loaded
    gen, saved, \* e09_generation, e09_saved
    seq,        \* e09_sequence
    kept,       \* history: the content loaded, or last reported as saved
    writes,     \* history: how often the game wrote
    card,       \* the two journals of every figure
    queue,      \* e11_queue or e09_queue is there
    busy,       \* e09_busy
    job,        \* the operation, its slot, e11_job, its sequence, e11_snapshot
    ended,      \* the worker's message waits; how the job ended
    error,      \* e09_error < 0
    ready,      \* e11_count > 0
    swap,       \* e11_swap
    target,     \* E11: e11_target; E09: the slot in selected.cfg
    since,      \* ticks since e11_retry or e09_last_tick
    pause,      \* ticks since e11_remove_tick or e09_trace_tick
    box,        \* E11: the figure asked for in the mailbox, or None
    polling     \* the tick's mailbox was served, the poll is next

earlyVars == <<build, live, have, shown, gen, saved, seq, kept, writes, card, queue, busy, job,
               ended, error, ready, swap, target, since, pause, box, polling>>
figure == <<live, have, shown, gen, saved, seq, kept>>
-----------------------------------------------------------------------------
Job(op, f, data) == [op |-> op, fig |-> f, data |-> data, seq |-> seq, snap |-> gen]

\* A journal is a record that e11_valid accepts, or anything else: absent,
\* short, torn, or of another figure.
Rec(s, c) == [ok |-> TRUE, seq |-> s, data |-> c]
NoRec == [ok |-> FALSE, seq |-> 0, data |-> 0]
Dump == Rec(0, 0)

\* The journals that earlier sessions may have left: any, each in its file.
OldJournals == {j \in [Files -> {NoRec} \cup {Rec(s, s + 1) : s \in Earlier}] :
                   \A k \in Files : j[k].ok => j[k].seq % 2 = k}

\* What a load of figure f brings when the journals R can be read: the newer of
\* their records, with two of them, and the dump with none.
LoadedFrom(f, R) ==
    LET found == {k \in R : card[f][k].ok}
    IN  IF found = {} THEN Dump
        ELSE IF 1 \in found /\ (0 \in found => Newer(card[f][1].seq, card[f][0].seq))
             THEN card[f][1] ELSE card[f][0]

\* e09_start: one of its calls fails for good, or the first job is submitted,
\* or its submission alone fails.
EarlyInit(b, op) ==
    /\ build = b
    /\ live = None /\ have = 0 /\ shown = FALSE /\ gen = 0 /\ saved = 0
    /\ seq = 0 /\ kept = 0 /\ writes = 0
    /\ card \in [Figures -> OldJournals]
    /\ target \in Figures /\ ready = FALSE /\ swap = FALSE /\ box = None
    /\ since = 0 /\ pause = 0 /\ polling = FALSE
    /\ queue \in BOOLEAN /\ busy \in {FALSE, queue} /\ error = ~busy
    /\ job = IF busy THEN Job(op, target, 0) ELSE NoJob
    /\ ended = "no"

\* A poll submits the job j.
Submit(j, sent) ==
    /\ busy' = sent
    /\ IF sent THEN job' = j /\ UNCHANGED <<error, since>>
       ELSE error' = TRUE /\ since' = 0 /\ UNCHANGED job

\* W on the figure that is shown.
GameWrites ==
    /\ ~polling
    /\ shown /\ writes < MaxWrites
    /\ writes' = writes + 1 /\ have' = 2 * HalfSeq + writes' /\ gen' = gen + 1
    /\ UNCHANGED <<build, live, shown, saved, seq, kept, card, queue, busy, job, ended, error,
                   ready, swap, target, since, pause, box, polling>>

\* e11_load: the dump is there and right, and each journal can be read or not.
LoadJob ==
    /\ job.op = "load"
    /\ \E R \in SUBSET Files :
          LET r == LoadedFrom(job.fig, R)
          IN  job' = [job EXCEPT !.data = r.data, !.seq = r.seq]
    /\ UNCHANGED card

\* e11_save rewrites one journal.  It may fail before it opens the file, which
\* empties it, or later, when the file has part of the record or all of it.
SaveJob(ok) ==
    /\ job.op = "save"
    /\ LET k == Target(job.seq)
           new == Rec(Succ(job.seq), job.data)
       IN  \E r \in {new} \cup (IF ok THEN {} ELSE {NoRec, card[job.fig][k]}) :
              card' = [card EXCEPT ![job.fig][k] = r]
    /\ UNCHANGED job

\* The storage worker does the job and posts its message.
Work(ok) ==
    /\ busy /\ ended = "no"
    /\ ended' = IF ok THEN "ok" ELSE "failed"
    /\ \/ ok /\ LoadJob
       \/ SaveJob(ok)
       \/ /\ job.op \in (IF ok THEN {"catalog", "trace"} ELSE {"catalog", "trace", "load"})
          /\ UNCHANGED <<job, card>>
    /\ UNCHANGED <<build, figure, writes, queue, busy, error, ready, swap, target, since, pause,
                   box, polling>>

\* The figure of a load that ended well becomes the live one.
TakeFigure == /\ live' = job.fig /\ have' = job.data /\ shown' = TRUE
              /\ gen' = 0 /\ saved' = 0 /\ seq' = job.seq /\ kept' = job.data

\* A save that ended well; the game may have written since its snapshot.
SnapshotSaved == /\ saved' = job.snap /\ seq' = Succ(seq) /\ kept' = job.data
                 /\ UNCHANGED <<live, have, shown, gen>>

\* Ticks are counted as far as some delay looks.
Later(n) == IF \E t \in {FailTicks, SaveTicks, SlowTicks, TraceTicks, RemoveTicks} : n < t
            THEN n + 1 ELSE n
-----------------------------------------------------------------------------
\* What the card has of a figure, of all figures, and what is being saved.
Contents(f) == {0} \cup {card[f][k].data : k \in {j \in Files : card[f][j].ok}}
OnCard == [f \in Figures |-> Contents(f)]
Writing == IF job # NoJob /\ job.op = "save" THEN job.data ELSE None

One == INSTANCE OneFigure WITH Source <- 0, writing <- Writing, card <- OnCard

\* The storages keep the promise of OneFigure, whatever write, save or load
\* fails and whenever the game writes while the worker saves: a figure is
\* swapped for another only when all that the game wrote to it was reported as
\* saved, and no save, failed or tried again, loses the content reported last
\* (the order of e09_poll, the file choice of e11_save and e09_save).
OneFigureHeld == One!OneSpec

\* What the game wrote reaches the card in the end, when a job that is tried
\* again and again succeeds some time; errors, traces and swaps do not stop that.
WritesReachCard == (queue /\ gen # saved) ~> (gen = saved)
=============================================================================
