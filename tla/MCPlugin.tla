------------------------------ MODULE MCPlugin ------------------------------
(***************************************************************************)
(* The plugin around its HIDv4 portal: the HIDv5 handlers that every build *)
(* has, the storages of the builds E11 and E09, and the start of the       *)
(* worker threads.  They share no state, so a behaviour is one of the      *)
(* handlers, of one storage or of the start; the others stay as they are.  *)
(***************************************************************************)
EXTENDS HidV5, E11, E09, HidStart

CONSTANTS f, g

VARIABLE part  \* what runs

StorageOff ==
    /\ build = "none" /\ live = None /\ have = 0 /\ shown = FALSE /\ gen = 0 /\ saved = 0
    /\ seq = 0 /\ kept = 0 /\ writes = 0
    /\ card = [h \in Figures |-> [k \in Files |-> NoRec]] /\ target = f /\ ready = FALSE /\ swap = FALSE
    /\ box = None /\ since = 0 /\ pause = 0 /\ polling = FALSE /\ queue = FALSE
    /\ busy = FALSE /\ error = FALSE /\ job = NoJob /\ ended = "no"

allVars == <<vars, earlyVars, startVars, part>>

MCInit == /\ Init /\ StartInit
          /\ \/ part = "handlers" /\ StorageOff
             \/ part = "start" /\ StorageOff /\ mem = [s \in Sites |-> "stock"]
             \/ /\ part = "storage" /\ mem = [s \in Sites |-> "stock"]
                /\ E11Init \/ E09Init

MCNext ==
    /\ \/ part = "handlers" /\ Next /\ UNCHANGED <<earlyVars, startVars>>
       \/ part = "start" /\ StartNext /\ UNCHANGED <<vars, earlyVars>>
       \/ /\ part = "storage" /\ (E11Next \/ E09Next \/ GameWrites)
          /\ UNCHANGED <<vars, startVars>>
    /\ UNCHANGED part

Clock == (\E turn \in BOOLEAN : E11Tick(turn)) \/ E09Tick \/ E11Poll(TRUE) \/ E09Poll(TRUE)
SaveSent == (E11Poll(TRUE) \/ E09Poll(TRUE)) /\ busy' /\ job'.op = "save"
SaveWorks == job # NoJob /\ job.op = "save" /\ Work(TRUE)

\* The game goes on asking for its devices.  The timer ticks, every job ends,
\* and its message is handled in its turn in the queue; a save that is sent, or
\* done, again and again works some time.
MCSpec ==
    /\ MCInit /\ [][MCNext]_allVars
    /\ WF_vars(part = "handlers" /\ Discover(TRUE, {}))
    /\ WF_earlyVars(Clock) /\ WF_earlyVars(Work(TRUE) \/ Work(FALSE))
    /\ SF_earlyVars(E11Complete \/ E09Complete)
    /\ SF_earlyVars(SaveSent) /\ SF_earlyVars(SaveWorks)
=============================================================================
