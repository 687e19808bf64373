------------------------------ MODULE MCStorage ------------------------------
(***************************************************************************)
(* Values for the storage: two slots; entries 0 and 1 are different        *)
(* figures, entry 2, where there is one, is a copy of the figure of entry  *)
(* 0 (the same UID).                                                       *)
(***************************************************************************)
EXTENDS Storage

CONSTANTS ua, ub

MCUids == {ua, ub}
MCUidOf == [i \in Ids |-> IF i = 1 THEN ub ELSE ua]
=============================================================================
