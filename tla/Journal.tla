------------------------------- MODULE Journal -------------------------------
(***************************************************************************)
(* The SD files of one catalogue entry and the storage worker that loads   *)
(* and saves them (e11_load, e11_save in plugin/source/e12_storage.h).     *)
(*                                                                         *)
(* figNNN.bin is the immutable source dump; saveNNN.sav0 and saveNNN.sav1  *)
(* are two journals.  A save with sequence s truncates and rewrites file   *)
(* s % 2, so the previous record stays in the other file.  Power can fail  *)
(* between any two calls of the FAT driver, and each call can fail.        *)
(*                                                                         *)
(* A record is [st, seq, fig]: st says whether the file is absent, torn    *)
(* (short, or rejected by e11_valid) or valid.  The hashes, the magic, the *)
(* figure number and the source hash of a record are abstracted by st.     *)
(***************************************************************************)
EXTENDS SeqNumbers

CONSTANTS
    Fig,      \* contents a figure can have
    Source,   \* the content of the source dump
    NoFig     \* used only by the refinement mapping

ASSUME JournalAssumption ==
    /\ Source \in Fig /\ NoFig \notin Fig
    /\ HalfSeq \in Nat /\ HalfSeq >= 2

VARIABLES
    file,    \* the two journals, sav0 and sav1
    pc,      \* where the worker is inside e11_save ("idle": not in it)
    job,     \* e11_job: sequence and data of the save in progress
    live,    \* some slot holds the figure ...
    seq,     \* ... with this journal sequence (slot.sequence)
    acked,   \* history: the record of the last save reported as done
    ever     \* history: some journal record was reported done or loaded

vars == <<file, pc, job, live, seq, acked, ever>>
-----------------------------------------------------------------------------
Rec(s, f) == [st |-> "valid", seq |-> s, fig |-> f]
Absent == [st |-> "absent", seq |-> 0, fig |-> Source]
Torn   == [st |-> "torn",   seq |-> 0, fig |-> Source]
Records == [st : {"valid"}, seq : Seq32, fig : Fig]

Valid(k) == file[k].st = "valid"

\* The record e11_load ends with when every read works: journal 1 replaces
\* journal 0 only when its sequence is newer.
Best ==
    IF Valid(1) /\ (~Valid(0) \/ Newer(file[1].seq, file[0].seq))
    THEN file[1]
    ELSE file[0]

\* e11_load fails with -4 when a journal is torn and none is valid.
Readable == Valid(0) \/ Valid(1) \/ (file[0].st # "torn" /\ file[1].st # "torn")

\* What e11_load leaves in e11_job, e11_job_sequence.
Loaded == IF Valid(0) \/ Valid(1) THEN Best ELSE Rec(0, Source)
-----------------------------------------------------------------------------
Init ==
    /\ file = [k \in Files |-> Absent]
    /\ pc = "idle"
    /\ job = Rec(0, Source)
    /\ live = FALSE
    /\ seq = 0
    /\ acked = Rec(0, Source)
    /\ ever = FALSE

\* e11_load, and the slot that takes its result (e09_complete).
LoadOk ==
    /\ ~live /\ pc = "idle"
    /\ Readable
    /\ live' = TRUE
    /\ seq' = Loaded.seq
    /\ acked' = Loaded
    /\ ever' = (ever \/ Valid(0) \/ Valid(1))
    /\ UNCHANGED <<file, pc, job>>

\* e12_save_slot: the data of the slot is copied into the job.
SaveStart(f) ==
    /\ live /\ pc = "idle"
    /\ job' = Rec(seq, f)
    /\ pc' = "open"
    /\ UNCHANGED <<file, live, seq, acked, ever>>

\* os_open(path, 0x0a) creates or truncates the journal.
SaveOpen ==
    /\ pc = "open"
    /\ file' = [file EXCEPT ![Target(job.seq)] = Torn]
    /\ pc' = "write"
    /\ UNCHANGED <<job, live, seq, acked, ever>>

\* os_write of the record and os_close report success; the card may still
\* hold something else than what was written.
SaveWrite ==
    /\ pc = "write"
    /\ \E r \in {Rec(Succ(job.seq), job.fig), Torn} :
          file' = [file EXCEPT ![Target(job.seq)] = r]
    /\ pc' = "check"
    /\ UNCHANGED <<job, live, seq, acked, ever>>

\* Fault: the record is not read back.
SaveDoneUnchecked ==
    /\ pc = "check"
    /\ pc' = "idle"
    /\ seq' = Succ(seq)
    /\ acked' = Rec(Succ(job.seq), job.fig)
    /\ ever' = TRUE
    /\ UNCHANGED <<file, job, live>>

\* The record is read back and compared; the slot advances its sequence.
SaveDone ==
    /\ pc = "check"
    /\ file[Target(job.seq)] = Rec(Succ(job.seq), job.fig)
    /\ pc' = "idle"
    /\ seq' = Succ(seq)
    /\ acked' = Rec(Succ(job.seq), job.fig)
    /\ ever' = TRUE
    /\ UNCHANGED <<file, job, live>>

\* Any call of e11_save fails: the open (nothing changed), the write or the
\* close (the file holds the record or a torn one), the read back (the file
\* keeps what it holds) or the comparison.
SaveFail ==
    /\ pc # "idle"
    /\ \/ UNCHANGED file
       \/ /\ pc = "write"
          /\ file' = [file EXCEPT ![Target(job.seq)] = Rec(Succ(job.seq), job.fig)]
    /\ pc' = "idle"
    /\ UNCHANGED <<job, live, seq, acked, ever>>

\* Power is lost.  A write in progress leaves the old torn file or the new
\* record.  Dropping the figure from RAM (a removed figure frees its slot) is
\* the same step taken at pc = "idle".
PowerLoss ==
    /\ live
    /\ \/ UNCHANGED file
       \/ /\ pc = "write"
          /\ file' = [file EXCEPT ![Target(job.seq)] = Rec(Succ(job.seq), job.fig)]
    /\ pc' = "idle"
    /\ live' = FALSE
    /\ UNCHANGED <<job, seq, acked, ever>>

Next ==
    \/ LoadOk
    \/ \E f \in Fig : SaveStart(f)
    \/ SaveOpen \/ SaveWrite \/ SaveDone \/ SaveFail
    \/ PowerLoss

Spec == Init /\ [][Next]_vars
-----------------------------------------------------------------------------
\* Types of every variable; job, seq and the records carry 32-bit sequences.
TypeOK ==
    /\ file \in [Files -> Records \cup {Absent, Torn}]
    /\ pc \in {"idle", "open", "write", "check"}
    /\ job \in Records /\ acked \in Records
    /\ live \in BOOLEAN /\ ever \in BOOLEAN
    /\ seq \in Seq32

\* The other file's record when it is the one after acked: a figure that was
\* written by a save which did not report success.
LimboFile == 1 - (acked.seq % 2)
HasLimbo == Valid(LimboFile) /\ file[LimboFile].seq = Succ(acked.seq)

\* Whatever instant the power is lost at, the next load returns the figure of
\* the last save reported as done, or of the save attempted after it; never an
\* older journal, whichever file it is in and whether or not the sequence has
\* wrapped (the best-sequence choice of e11_load, the file choice of e11_save).
LoadNeverStale ==
    Readable => Loaded \in {acked} \cup {file[k] : k \in {j \in Files : HasLimbo /\ j = LimboFile}}

\* Once a save was reported as done, or a journal was loaded, no failed or
\* interrupted save can make the figure unreadable (test_e12.c:104, "Full
\* corrupt newer copy -> older").  It is not so before the first save: the
\* journals may then be one torn file and no valid one, and e11_load refuses.
SavedStaysReadable == ever => Readable /\ (Valid(0) \/ Valid(1))

\* The inductive invariant.  The file of parity acked.seq holds acked, unless
\* nothing was ever saved; the other file, when valid, is the neighbour of
\* acked before or after it; a save starts from acked and its file is torn
\* while it is being written.
Kept ==
    \/ file[acked.seq % 2] = acked
    \/ /\ ~ever /\ acked = Rec(0, Source)
       /\ file[0] = Absent
       /\ Valid(1) => file[1].seq = 1

Neighbour ==
    Valid(LimboFile) =>
        file[LimboFile].seq = Succ(acked.seq) \/ Succ(file[LimboFile].seq) = acked.seq

InJob ==
    /\ live => seq = acked.seq
    /\ pc # "idle" => live /\ job.seq = acked.seq
    /\ pc = "write" => file[Target(job.seq)] = Torn
    /\ pc = "check" =>
          file[Target(job.seq)] \in {Torn, Rec(Succ(job.seq), job.fig)}

JournalInv == TypeOK /\ Kept /\ Neighbour /\ InJob
-----------------------------------------------------------------------------
\* The journals implement FigureStore.
Store == INSTANCE FigureStore WITH
            stored <- acked.fig,
            limbo <- IF HasLimbo THEN file[LimboFile].fig ELSE NoFig,
            writing <- IF pc = "idle" THEN NoFig ELSE job.fig,
            live <- live

\* Every step of the journals is a step of FigureStore: a load adopts the
\* acknowledged figure or the one in limbo, a save is reported done only when
\* the card holds it, a failure changes nothing that was acknowledged.
JournalStore == Store!FSSpec
=============================================================================
