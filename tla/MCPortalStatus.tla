--------------------------- MODULE MCPortalStatus ---------------------------
(***************************************************************************)
(* Model values for the portal status: figures x and y.                    *)
(***************************************************************************)
EXTENDS PortalStatus

CONSTANTS x, y
=============================================================================
