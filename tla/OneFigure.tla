------------------------------ MODULE OneFigure ------------------------------
(***************************************************************************)
(* What a portal with one figure promises, whatever it does with the card. *)
(* The game writes the figure that is shown.  A save takes what it has     *)
(* then and may do anything to the records of the figure but lose the one  *)
(* last kept, that is loaded, or reported as saved.  Another figure takes  *)
(* its place only when all that the game wrote is kept, and brings one of  *)
(* the contents that the card has for it, not always the newest.           *)
(* A content is a number; Source is that of the dump, which stays.         *)
(***************************************************************************)
EXTENDS Naturals

CONSTANTS Figures, None, Source

VARIABLES
    live,    \* the figure in memory, or None
    have,    \* its content
    shown,   \* whether the game finds it on the portal
    kept,    \* the content that was loaded, or last reported as saved
    writing, \* the content that is being saved, or None
    card     \* the contents that the card has for every figure

oneVars == <<live, have, shown, kept, writing, card>>

OneInit == /\ live = None /\ have = Source /\ shown = FALSE
           /\ kept = Source /\ writing = None
           /\ card \in [Figures -> SUBSET Nat] /\ \A f \in Figures : Source \in card[f]

Played == shown /\ have' \in Nat /\ UNCHANGED <<live, shown, kept, writing, card>>

Begun == /\ live # None /\ writing = None /\ writing' = have
         /\ UNCHANGED <<live, have, shown, kept, card>>

\* Records come and go while a save runs, those of other figures do not.
Changed == /\ writing # None
           /\ \E c \in SUBSET (card[live] \cup {writing}) :
                 {Source, kept} \subseteq c /\ card' = [card EXCEPT ![live] = c]
           /\ UNCHANGED <<live, have, shown, kept, writing>>

Saved == /\ writing # None /\ writing \in card[live]
         /\ kept' = writing /\ writing' = None
         /\ UNCHANGED <<live, have, shown, card>>

\* A save is given up, and a figure that was hidden may come back with it.
GivenUp == /\ writing # None /\ writing' = None
           /\ shown' \in {shown, TRUE}
           /\ UNCHANGED <<live, have, kept, card>>

Hidden == shown /\ shown' = FALSE /\ UNCHANGED <<live, have, kept, writing, card>>
Restored == /\ live # None /\ ~shown /\ shown' = TRUE
            /\ UNCHANGED <<live, have, kept, writing, card>>

Swapped(f) == /\ ~shown /\ writing = None /\ (live # None => kept = have)
              /\ live' = f /\ have' \in card[f] /\ kept' = have' /\ shown' = TRUE
              /\ UNCHANGED <<writing, card>>

OneNext == Played \/ Begun \/ Changed \/ Saved \/ GivenUp \/ Hidden \/ Restored
           \/ \E f \in Figures : Swapped(f)
OneSpec == OneInit /\ [][OneNext]_oneVars
=============================================================================
