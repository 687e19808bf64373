-------------------------------- MODULE Menu --------------------------------
(***************************************************************************)
(* The input of the menu drawn over the game: overlay/menu.h, called once  *)
(* a frame by overlay/menu.c with the buttons held on the controllers.     *)
(*                                                                         *)
(* PLUS and MINUS pressed together on one controller open and close the    *)
(* menu, and the player who did it controls it.  While the menu is open,   *)
(* and until the keys of that player are all released after it was closed, *)
(* the game sees no buttons (menu_mask).  An action is a request to the    *)
(* plugin; the library's size and the answer to the last request come from *)
(* the mailbox and may change at every frame.                              *)
(***************************************************************************)
EXTENDS Integers

CONSTANTS
    Players,    \* controllers, in the order of their numbers (0 and 1)
    KeySets,    \* the sets of buttons a player may hold
    Slots,      \* UI positions (16)
    PageSize,   \* rows of a page (8)
    Counts      \* sizes the library may have

Buttons == {"PLUS", "MINUS", "A", "B", "C", "Z", "ONE", "TWO",
            "UP", "DOWN", "LEFT", "RIGHT"}

ASSUME MenuAssumption ==
    /\ Players \subseteq Nat /\ 0 \in Players
    /\ KeySets \in [Players -> SUBSET SUBSET Buttons]
    /\ Slots \in Nat \ {0} /\ PageSize \in Nat \ {0}
    /\ Counts \subseteq Nat

VARIABLES
    menu,     \* struct menu_state
    owner,    \* menu_players.owner
    held,     \* menu_players.previous: buttons of every player in the last frame
    count,    \* history: size of the library when a load was asked for, else 0
    act,      \* the action of the last frame, "none" for 0
    closing,  \* history: per player, the keys held when he closed the menu and
              \* not released since
    lone      \* history: the owner pressed MINUS in the open menu, holds it, and
              \* has not held PLUS since

vars == <<menu, owner, held, count, act, closing, lone>>
-----------------------------------------------------------------------------
Chord(keys) == {"PLUS", "MINUS"} \subseteq keys
PageOf(i) == i \div PageSize

Init ==
    /\ menu = [visible |-> FALSE, swallow |-> FALSE, previous |-> {}, chordheld |-> FALSE,
               armed |-> FALSE, selected |-> 0, slot |-> 0, page |-> 0, pending |-> FALSE]
    /\ owner = 0
    /\ held = [i \in Players |-> {}]
    /\ count = 0
    /\ act = "none"
    /\ closing = [i \in Players |-> {}]
    /\ lone = FALSE

\* menu_input_players: a new chord of a player gives him the menu, unless he
\* has it open already.
NewChords(k) == {i \in Players : Chord(k[i]) /\ ~Chord(held[i])}
Claims(k, i) == /\ i \in NewChords(k) /\ \A j \in NewChords(k) : i <= j
                /\ ~menu.visible \/ i # owner
Owner(k) == IF \E i \in Players : Claims(k, i) THEN CHOOSE i \in Players : Claims(k, i) ELSE owner

Claimed(k) ==
    IF \E i \in Players : Claims(k, i)
    THEN [menu EXCEPT !.visible = FALSE, !.previous = {}, !.chordheld = FALSE, !.armed = FALSE]
    ELSE menu

\* Fault: the keys of the players are taken together.
KeysMerged(k, i) == UNION {k[j] : j \in Players}
KeysOf(k, i) == k[i]

\* menu_mask: the game sees no buttons.
Masked == menu.visible \/ menu.swallow

\* An action of the menu is sent as a request, with the page of the selection.
Answer(s, a) ==
    /\ act' = a
    /\ menu' = IF a = "none" THEN s
               ELSE [s EXCEPT !.page = PageOf(s.selected), !.pending = TRUE]
-----------------------------------------------------------------------------
\* menu_input, one operator for each of its returns: s is the state before,
\* t the one with the keys of this frame, edge the keys just pressed.
Toggle(t) ==
    Answer([t EXCEPT !.visible = ~@, !.swallow = TRUE, !.chordheld = TRUE, !.armed = FALSE],
           IF t.visible THEN "none" ELSE "page")

ChordHeld(t) == Answer([t EXCEPT !.chordheld = t.previous \cap {"PLUS", "MINUS"} # {}], "none")

Hidden(t) == Answer([t EXCEPT !.armed = FALSE], "none")

\* Fault: the keys go to the game as soon as the menu is closed.
CloseShowsKeys(t) == Answer([t EXCEPT !.visible = FALSE, !.armed = FALSE, !.swallow = FALSE], "none")
CloseMenu(t) == Answer([t EXCEPT !.visible = FALSE, !.armed = FALSE], "none")

Wait(t) == Answer([t EXCEPT !.armed = FALSE], "none")

\* C and Z turn through the UI positions.
View(t, edge) ==
    Answer([t EXCEPT !.slot = (@ + (IF "C" \in edge THEN Slots - 1 ELSE 1)) % Slots], "view")

\* Fault: PLUS does not disarm the removal.
ArmedByMinus(t, edge) == t.armed \/ "MINUS" \in edge

\* MINUS arms the removal, PLUS disarms it; the release of MINUS removes.
Armed(t, edge) == "PLUS" \notin t.previous /\ (t.armed \/ "MINUS" \in edge)
Removes(s, t, edge) ==
    "MINUS" \in s.previous /\ "MINUS" \notin t.previous /\ Armed(t, edge)

\* Fault: a selection beyond the end of the library stays.
ClampNone(i, n) == i
\* The selection after the cursor keys, in a library of n > 0 figures.
Clamp(i, n) == IF i >= n THEN n - 1 ELSE i
Up(i, n) == IF i = 0 THEN n - 1 ELSE i - 1
Left(i) == IF i >= PageSize THEN i - PageSize ELSE 0
Right(i, n) == IF i + PageSize < n THEN i + PageSize ELSE n - 1
Moved(i, edge, n) ==
    LET u == IF "UP" \in edge THEN Up(Clamp(i, n), n) ELSE Clamp(i, n)
        d == IF "DOWN" \in edge THEN (u + 1) % n ELSE u
        l == IF "LEFT" \in edge THEN Left(d) ELSE d
    IN  IF "RIGHT" \in edge THEN Right(l, n) ELSE l

Browse(t, edge, n) ==
    LET i == IF n > 0 THEN Moved(t.selected, edge, n) ELSE t.selected
    IN  Answer([t EXCEPT !.selected = i],
               IF n > 0 /\ "A" \in edge THEN "load"
               ELSE IF t.page # PageOf(i) THEN "page" ELSE "none")

\* The open menu with no request pending.
Open(s, t, edge, n) ==
    LET r == [t EXCEPT !.armed = Armed(t, edge)] IN
    \/ edge \cap {"C", "Z"} # {} /\ View(t, edge)
    \/ /\ edge \cap {"C", "Z"} = {}
       /\ \/ Removes(s, t, edge) /\ Answer([t EXCEPT !.armed = FALSE], "remove")
          \/ /\ ~Removes(s, t, edge)
             /\ \/ "ONE" \in edge /\ Answer(r, "flush")
                \/ "ONE" \notin edge /\ "TWO" \in edge /\ Answer(r, "rescan")
                \/ edge \cap {"ONE", "TWO"} = {} /\ Browse(r, edge, n)

Input(s, keys, n) ==
    LET edge == keys \ s.previous
        t == [s EXCEPT !.previous = keys, !.swallow = @ /\ keys # {}]
        v == [t EXCEPT !.swallow = TRUE]
        chord == Chord(keys) /\ ~Chord(s.previous)
    IN  \/ chord /\ Toggle(t)
        \/ ~chord /\ s.chordheld /\ ChordHeld(t)
        \/ ~chord /\ ~s.chordheld /\ ~s.visible /\ Hidden(t)
        \/ /\ ~chord /\ ~s.chordheld /\ s.visible
           /\ \/ "B" \in edge /\ CloseMenu(v)
              \/ "B" \notin edge /\ s.pending /\ Wait(v)
              \/ "B" \notin edge /\ ~s.pending /\ Open(s, v, edge, n)
-----------------------------------------------------------------------------
\* A frame with the buttons k held, a library of n figures, and, if answered,
\* a reply to the last request.
Frame(k, n, answered) ==
    LET o == Owner(k)
        s == [Claimed(k) EXCEPT !.pending = @ /\ ~answered]
    IN  /\ Input(s, KeysOf(k, o), n)
        /\ owner' = o /\ held' = k
        /\ count' = IF act' = "load" THEN n ELSE 0
        /\ closing' = [i \in Players |->
                          IF i = o /\ menu.visible /\ ~menu'.visible THEN k[i]
                          ELSE closing[i] \cap k[i]]
        /\ lone' = /\ menu'.visible /\ o = owner
                   /\ "MINUS" \in k[o] /\ "PLUS" \notin k[o]
                   /\ lone \/ "MINUS" \notin held[o]

Held == {f \in [Players -> UNION {KeySets[i] : i \in Players}] :
            \A i \in Players : f[i] \in KeySets[i]}

Next ==
    \E k \in Held, n \in Counts, answered \in BOOLEAN : Frame(k, n, answered)

Spec == Init /\ [][Next]_vars
-----------------------------------------------------------------------------
Actions == {"none", "page", "load", "remove", "view", "flush", "rescan"}

TypeOK ==
    /\ menu \in [visible : BOOLEAN, swallow : BOOLEAN, previous : SUBSET Buttons,
                 chordheld : BOOLEAN, armed : BOOLEAN, selected : Nat, slot : 0..(Slots - 1),
                 page : Nat, pending : BOOLEAN]
    /\ owner \in Players
    /\ held \in [Players -> SUBSET Buttons] /\ closing \in [Players -> SUBSET Buttons]
    /\ count \in Counts \cup {0}
    /\ act \in Actions
    /\ lone \in BOOLEAN

\* The menu opens only when one player completes the chord on his controller,
\* never when two players hold half of it each ("prevent a cross-controller
\* half-chord", menu.h:55).
OpensByChord ==
    [][menu'.visible /\ ~menu.visible =>
          \E i \in Players : Chord(held'[i]) /\ ~Chord(held[i])]_vars

\* A figure is removed only on the release of a MINUS that the player in
\* control pressed in the open menu and held without PLUS, so that no way of
\* pressing or releasing a chord, by either player, removes a figure.
SafeRemove ==
    [][act' = "remove" => /\ lone /\ owner' = owner
                          /\ held'[owner] \cap {"PLUS", "MINUS"} = {}]_vars

\* A load is asked for only for a figure that is in the library of that frame,
\* also when the library has shrunk under the selection while another request
\* was pending.
LoadInLibrary == act = "load" => menu.selected < count
MenuInv == TypeOK /\ LoadInLibrary

\* The keys of the player in control that closed the menu stay hidden from the
\* game until they are released ("Releasing the closing key is swallowed too",
\* menu.h:23).  It is not so for the other player: there is one swallow flag, and
\* the empty keys of a new owner clear it.
ClosingKeySwallowed == closing[owner] # {} => Masked
=============================================================================
