------------------------------ MODULE MCMailbox ------------------------------
(***************************************************************************)
(* Two arguments, three sequence numbers, and one request posted over      *)
(* another.                                                                *)
(***************************************************************************)
EXTENDS Mailbox

TwoArgs == {0, 1}
=============================================================================
