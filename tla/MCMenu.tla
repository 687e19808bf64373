------------------------------- MODULE MCMenu -------------------------------
(***************************************************************************)
(* One player with the chord and B, one with the chord and every other key *)
(* of the menu but Z (which turns as C).                                   *)
(***************************************************************************)
EXTENDS Menu

TwoPlayers == {0, 1}
MCKeySets ==
    [i \in TwoPlayers |->
        IF i = 0 THEN SUBSET {"PLUS", "MINUS"} \cup {{"B"}}
        ELSE {{}, {"PLUS", "MINUS"}} \cup {{p} : p \in Buttons \ {"PLUS", "Z"}}]
=============================================================================
