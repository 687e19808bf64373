------------------------------ MODULE MCJournal ------------------------------
(***************************************************************************)
(* The journals of one entry with two figure contents besides the source   *)
(* and a four-value sequence number, so that the sequence wraps after four *)
(* saves.                                                                  *)
(***************************************************************************)
EXTENDS Journal

CONSTANTS f0, f1, f2

MCFig == {f0, f1, f2}
MCSource == f0
=============================================================================
