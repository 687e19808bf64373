----------------------------- MODULE FigureStore -----------------------------
(***************************************************************************)
(* What the two journals of one catalogue entry promise to the portal.     *)
(*                                                                         *)
(* A save that was reported as done survives every later power loss; a     *)
(* save that was not reported as done may or may not be found again (it is *)
(* "in limbo"); a load returns one of those two figures and nothing older. *)
(***************************************************************************)
EXTENDS Naturals

CONSTANTS
    Fig,     \* contents a figure dump can have (1024 bytes in the program)
    Source,  \* the content of the immutable source dump
    NoFig    \* no figure

VARIABLES
    stored,   \* the figure of the last save reported as done, or last loaded
    limbo,    \* a newer figure on the card whose save was not reported as done
    writing,  \* the figure being saved
    live      \* the figure is held in RAM, with its position in the journal

fsVars == <<stored, limbo, writing, live>>

FSTypeOK ==
    /\ stored \in Fig
    /\ limbo \in Fig \cup {NoFig}
    /\ writing \in Fig \cup {NoFig}
    /\ live \in BOOLEAN

FSInit ==
    /\ stored = Source
    /\ limbo = NoFig
    /\ writing = NoFig
    /\ live = FALSE

\* A load adopts the stored figure, or the one in limbo, as the stored one.
Load ==
    /\ ~live
    /\ stored' \in {stored, limbo} \ {NoFig}
    /\ limbo' = NoFig
    /\ live' = TRUE
    /\ UNCHANGED writing

Begin ==
    /\ live /\ writing = NoFig
    /\ writing' \in Fig
    /\ UNCHANGED <<stored, limbo, live>>

\* While a save runs the card may gain or lose the unreported figure.
Progress ==
    /\ writing # NoFig
    /\ limbo' \in {NoFig, writing}
    /\ UNCHANGED <<stored, writing, live>>

Done ==
    /\ writing # NoFig /\ limbo = writing
    /\ stored' = writing
    /\ limbo' = NoFig /\ writing' = NoFig
    /\ UNCHANGED live

Fail ==
    /\ writing # NoFig
    /\ writing' = NoFig
    /\ limbo' \in {NoFig, limbo, writing}
    /\ UNCHANGED <<stored, live>>

\* Power loss, or the figure is dropped from RAM.
Forget ==
    /\ live' = FALSE
    /\ writing' = NoFig
    /\ limbo' \in {NoFig, limbo, writing}
    /\ UNCHANGED stored

FSNext == Load \/ Begin \/ Progress \/ Done \/ Fail \/ Forget

FSSpec == FSInit /\ [][FSNext]_fsVars
=============================================================================
