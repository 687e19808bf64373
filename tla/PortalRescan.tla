---------------------------- MODULE PortalRescan ----------------------------
(***************************************************************************)
(* The status packets in sessions where the menu asks for rescans and in   *)
(* sessions where it does not: only without rescans is the game told of    *)
(* every departure, since a rescan sets the status of the slots back.      *)
(***************************************************************************)
EXTENDS PortalStatus

VARIABLE rescans  \* history: the menu may ask for a rescan

RescanInit == Init /\ rescans \in BOOLEAN
RescanNext == (Moves \/ (rescans /\ Rescan)) /\ UNCHANGED rescans
RescanSpec == RescanInit /\ [][RescanNext]_<<vars, rescans>>

\* Where no rescan is asked for, the game is told that a figure left a slot
\* before it is shown another one there, and sees no slot empty without having
\* seen it left, whatever reads are cancelled while figures move.
DeparturesReported == [][~rescans => RemovedFirst /\ LeftFirst]_<<vars, rescans>>
=============================================================================
