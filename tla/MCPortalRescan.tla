--------------------------- MODULE MCPortalRescan ---------------------------
(***************************************************************************)
(* Two slots and two figures, in sessions where the menu asks for rescans  *)
(* and in sessions where it does not.                                      *)
(***************************************************************************)
EXTENDS MCPortalStatus, PortalRescan
=============================================================================
