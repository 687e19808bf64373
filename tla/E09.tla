--------------------------------- MODULE E09 ---------------------------------
(***************************************************************************)
(* e09_storage.h: the poll, which also writes a trace when nothing dirty   *)
(* is due and tries a load again until it works, and the end of a job.     *)
(***************************************************************************)
EXTENDS EarlyStorage

E09Init == EarlyInit("E09", "load")

\* A tick of the timer; a poll follows.
E09Tick ==
    /\ build = "E09" /\ ~polling /\ polling' = TRUE
    /\ since' = Later(since) /\ pause' = Later(pause)
    /\ UNCHANGED <<build, figure, writes, card, queue, busy, job, ended, error, ready, swap,
                   target, box>>

\* Fault: a save that failed is not due again.
E09SaveDueOnce == shown /\ gen # saved /\ since >= SaveTicks /\ ~error

E09SaveDue == shown /\ gen # saved /\ since >= (IF error THEN SlowTicks ELSE SaveTicks)
E09Due ==
    IF busy \/ ~queue THEN NoJob
    ELSE IF E09SaveDue THEN Job("save", live, have)
    ELSE IF pause >= TraceTicks THEN Job("trace", target, 0)
    ELSE IF ~shown /\ since >= FailTicks THEN Job("load", target, 0)
    ELSE NoJob

\* The trace counts as written when its job is submitted.
E09Poll(sent) ==
    /\ build = "E09" /\ polling /\ polling' = FALSE
    /\ IF E09Due = NoJob THEN sent /\ UNCHANGED <<busy, job, error, since, pause>>
       ELSE /\ Submit(E09Due, sent)
            /\ pause' = IF E09Due.op = "trace" THEN 0 ELSE pause
    /\ UNCHANGED <<build, figure, writes, card, queue, ended, ready, swap, target, box>>

E09Ended == IF ended = "failed" THEN UNCHANGED figure
            ELSE IF job.op = "load" THEN TakeFigure
            ELSE SnapshotSaved

\* e09_complete; the end of a trace says nothing of the figure.
E09Complete ==
    /\ build = "E09" /\ ~polling
    /\ ended # "no" /\ ended' = "no" /\ busy' = FALSE /\ job' = NoJob
    /\ IF job.op = "trace" THEN UNCHANGED <<figure, error, since>>
       ELSE since' = 0 /\ error' = (ended = "failed") /\ E09Ended
    /\ UNCHANGED <<build, writes, card, queue, ready, swap, target, pause, box, polling>>

\* e09_worker, with e09_load, e09_save or e09_write_trace.
E09Job(ok) == build = "E09" /\ Work(ok)

E09Next ==
    \/ E09Tick \/ E09Complete
    \/ \E b \in BOOLEAN : E09Poll(b) \/ E09Job(b)
E09Spec == E09Init /\ [][E09Next \/ GameWrites]_earlyVars
=============================================================================
