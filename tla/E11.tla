--------------------------------- MODULE E11 ---------------------------------
(***************************************************************************)
(* e11_storage.h: the mailbox, the poll and the end of a job.  A swap      *)
(* takes the figure off the portal, saves it if it is dirty, waits, loads  *)
(* the other and shows that; when one step fails, the first comes back.    *)
(***************************************************************************)
EXTENDS EarlyStorage

E11Init == EarlyInit("E11", "catalog")

\* The overlay asks for a figure, over what it asked before.
Ask(f) ==
    /\ build = "E11" /\ box' = f
    /\ UNCHANGED <<build, figure, writes, card, queue, busy, job, ended, error, ready, swap,
                   target, since, pause, polling>>

\* A tick, with e11_mailbox when it is its turn and the overlay is alive: the
\* request waits while a figure is swapped or a job runs.
E11Tick(turn) ==
    /\ build = "E11" /\ ~polling /\ polling' = TRUE
    /\ since' = Later(since)
    /\ IF turn /\ box # None /\ ~swap /\ ~busy
       THEN /\ box' = None
            /\ IF ~ready THEN error' = TRUE /\ UNCHANGED <<target, swap, shown>>
               ELSE IF live = box THEN UNCHANGED <<error, target, swap, shown>>
               ELSE error' = FALSE /\ target' = box /\ swap' = TRUE /\ shown' = FALSE
       ELSE UNCHANGED <<box, error, target, swap, shown>>
    /\ pause' = IF swap' /\ ~swap THEN 0 ELSE Later(pause)
    /\ UNCHANGED <<build, live, have, gen, saved, seq, kept, writes, card, queue, busy, job,
                   ended, ready>>

\* Fault: the figure asked for is loaded before the other is saved.
E11DueLoadFirst ==
    IF busy \/ ~queue THEN NoJob
    ELSE IF ~ready THEN IF since >= FailTicks THEN Job("catalog", target, 0) ELSE NoJob
    ELSE IF swap /\ pause >= RemoveTicks THEN Job("load", target, 0)
    ELSE IF live # None /\ gen # saved /\ since >= SaveTicks THEN Job("save", live, have)
    ELSE NoJob

\* The job e09_poll would submit: nothing while one runs.
E11Due ==
    IF busy \/ ~queue THEN NoJob
    ELSE IF ~ready THEN IF since >= FailTicks THEN Job("catalog", target, 0) ELSE NoJob
    ELSE IF live # None /\ gen # saved /\ (swap \/ since >= SaveTicks)
         THEN Job("save", live, have)
    ELSE IF swap /\ pause >= RemoveTicks THEN Job("load", target, 0)
    ELSE NoJob

E11Poll(sent) ==
    /\ build = "E11" /\ polling /\ polling' = FALSE
    /\ IF E11Due = NoJob THEN sent /\ UNCHANGED <<busy, job, error, since>>
       ELSE Submit(E11Due, sent)
    /\ UNCHANGED <<build, figure, writes, card, queue, ended, ready, swap, target, pause, box>>

\* e09_complete: a job that failed ends the swap, and the figure comes back.
E11Failed ==
    /\ error' = TRUE
    /\ swap' = FALSE /\ shown' = (shown \/ (swap /\ live # None))
    /\ UNCHANGED <<live, have, gen, saved, seq, kept, ready, target, pause>>
E11Catalogue ==
    /\ ready' = TRUE /\ swap' = TRUE /\ pause' = 0 /\ error' = FALSE
    /\ UNCHANGED <<figure, target>>  \* still entry 0
E11Loaded == TakeFigure /\ swap' = FALSE /\ error' = FALSE /\ UNCHANGED <<ready, target, pause>>
E11Saved == SnapshotSaved /\ error' = FALSE /\ UNCHANGED <<ready, swap, target, pause>>

E11Complete ==
    /\ build = "E11" /\ ~polling
    /\ ended # "no" /\ ended' = "no"
    /\ busy' = FALSE /\ since' = 0
    /\ IF ended = "failed" THEN E11Failed
       ELSE CASE job.op = "catalog" -> E11Catalogue
              [] job.op = "load" -> E11Loaded
              [] job.op = "save" -> E11Saved
    /\ job' = NoJob
    /\ UNCHANGED <<build, writes, card, queue, box, polling>>

\* e11_worker, with e11_catalog_load, e11_load or e11_save.
E11Job(ok) == build = "E11" /\ Work(ok)

E11Next ==
    \/ \E f \in Figures : Ask(f)
    \/ \E turn \in BOOLEAN : E11Tick(turn)
    \/ \E b \in BOOLEAN : E11Poll(b) \/ E11Job(b)
    \/ E11Complete
E11Spec == E11Init /\ [][E11Next \/ GameWrites]_earlyVars
=============================================================================
