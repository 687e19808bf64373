---------------------------- MODULE MCPortalCore ----------------------------
(***************************************************************************)
(* The portal core with two slots and two dumps.  With Budget requests,    *)
(* edits and failures spent the game goes on reading.                      *)
(***************************************************************************)
EXTENDS PortalCore

FairSpec == CoreSpec /\ WF_coreVars(Read(TRUE))

\* Once the user and the game leave the core alone, reads alone make it show
\* what the card has, after any swaps, failed polls, writes and announcements.
Settles == <>[]ShowsTheCard
=============================================================================
