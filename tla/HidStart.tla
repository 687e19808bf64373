------------------------------- MODULE HidStart -------------------------------
(***************************************************************************)
(* The start of the two worker threads.  v4_start (hidv4.h) runs in the    *)
(* HID thread at every ioctl of the virtual portal until it succeeds once; *)
(* e09_start (e12_storage.h) runs once, as the first thing the HID worker  *)
(* does, while the HID thread goes on.  Any call of IOS may fail; what was *)
(* made before is then released, in one step: a thread that was not        *)
(* continued does nothing.                                                 *)
(***************************************************************************)
EXTENDS Naturals

CONSTANT MaxFailures

VARIABLES
    at,        \* per starter: the IOS call it makes next, "rest" or "over"
    has,       \* v4_queue >= 0, e11_queue >= 0
    made,      \* what exists of the queue, the thread, the timer
    failures   \* how many calls failed

startVars == <<at, has, made, failures>>
-----------------------------------------------------------------------------
Starters == {"v4", "e09"}
Parts(p) == {"queue", "thread"} \cup IF p = "v4" THEN {"timer"} ELSE {}

StartInit ==
    /\ at = [p \in Starters |-> "rest"]
    /\ has = [p \in Starters |-> FALSE] /\ made = [p \in Starters |-> {}]
    /\ failures = 0

\* The call that follows one that succeeded.
After(p, c) == CASE c = "id" -> "priority"
                 [] c = "priority" -> "queue"
                 [] c = "queue" -> "thread"
                 [] c = "thread" -> IF p = "v4" THEN "timer" ELSE "continue"
                 [] c = "timer" -> "continue"
                 [] c = "continue" -> "over"

\* Fault: a timer that cannot be made leaves the thread.
ReleasedKeepsThread(p, c) ==
    CASE c \in {"thread", "timer"} -> {"queue"}
      [] c = "continue" -> Parts(p)
      [] OTHER -> {}

\* What a call that fails makes the starter release.
Released(p, c) ==
    CASE c = "thread" -> {"queue"}
      [] c = "timer" -> {"thread", "queue"}
      [] c = "continue" -> Parts(p)
      [] OTHER -> {}

\* An ioctl finds no queue (with one it changes nothing here).
Ioctl ==
    /\ at["v4"] \in {"rest", "over"} /\ ~has["v4"]
    /\ at' = [at EXCEPT !["v4"] = "id"]
    /\ UNCHANGED <<has, made, failures>>

\* A call works; the HID worker that it continues begins with e09_start.
CallWorks(p) ==
    /\ at[p] \notin {"rest", "over"}
    /\ at' = [q \in Starters |->
                 IF q = p THEN After(p, at[p])
                 ELSE IF p = "v4" /\ at[p] = "continue" THEN "id" ELSE at[q]]
    /\ has' = [has EXCEPT ![p] = @ \/ at[p] = "queue"]
    /\ made' = [made EXCEPT ![p] = @ \cup ({at[p]} \cap Parts(p))]
    /\ UNCHANGED failures

CallFails(p) ==
    /\ at[p] \notin {"rest", "over"} /\ failures < MaxFailures
    /\ failures' = failures + 1
    /\ at' = [at EXCEPT ![p] = "over"]
    /\ has' = [has EXCEPT ![p] = FALSE]
    /\ made' = [made EXCEPT ![p] = @ \ Released(p, at[p])]

StartNext == Ioctl \/ \E p \in Starters : CallWorks(p) \/ CallFails(p)

StartSpec == StartInit /\ [][StartNext]_startVars
-----------------------------------------------------------------------------
\* Between two ioctls a queue that the program holds has its thread, and its
\* timer, running behind it, and one that it does not hold has left nothing in
\* IOS, whichever calls failed in whichever attempt: an ioctl is sent only to a
\* worker that answers it, and a start can be tried again.
StartedWhole ==
    \A p \in Starters : at[p] \in {"rest", "over"} =>
        made[p] = IF has[p] THEN Parts(p) ELSE {}
=============================================================================
