----------------------------- MODULE FigureMoves -----------------------------
(***************************************************************************)
(* The interface of the storage and the status packets, which e12_event    *)
(* crosses: figures leave and enter the slots of the portal one at a time, *)
(* only an empty slot gets one, and no figure is in two.  The storage      *)
(* implements this; the status packets take nothing else for granted.      *)
(***************************************************************************)
CONSTANTS Slots, Figs, NoFig

VARIABLE fig  \* the figure the game finds in every slot

MovesInit == fig = [s \in Slots |-> NoFig]

Leaves(s) == fig[s] # NoFig /\ fig' = [fig EXCEPT ![s] = NoFig]

Enters(s, f) == /\ fig[s] = NoFig /\ \A t \in Slots : fig[t] # f
                /\ fig' = [fig EXCEPT ![s] = f]

MovesNext == \E s \in Slots : Leaves(s) \/ \E f \in Figs : Enters(s, f)
MovesSpec == MovesInit /\ [][MovesNext]_fig
=============================================================================
