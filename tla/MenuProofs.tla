----------------------------- MODULE MenuProofs -----------------------------
(***************************************************************************)
(* Proofs about the input of the menu, for any number of players, any sets *)
(* of keys they may hold, any number of positions and rows, and libraries  *)
(* of any sizes.                                                           *)
(***************************************************************************)
EXTENDS Menu, TLAPS

States == [visible : BOOLEAN, swallow : BOOLEAN, previous : SUBSET Buttons,
           chordheld : BOOLEAN, armed : BOOLEAN, selected : Nat, slot : 0..(Slots - 1),
           page : Nat, pending : BOOLEAN]

\* A removal is armed only in the open menu, and not before the chord that
\* opened it was released.
Disarmed(s) == s.chordheld \/ ~s.visible => ~s.armed

NewChord(s, keys) == Chord(keys) /\ ~Chord(s.previous)

\* What a frame with the given keys does, whichever return of menu_input it takes.
Opened(s, keys, t) == t.visible /\ ~s.visible => NewChord(s, keys)
Swallowed(s, keys, t) ==
    /\ s.swallow /\ keys # {} => t.swallow
    /\ s.visible /\ ~t.visible => t.swallow
ArmedBy(s, keys, t) ==
    t.armed => t.visible /\ ~NewChord(s, keys) /\ (s.armed \/ "MINUS" \in keys \ s.previous)
Effect(s, keys, n, t, a) ==
    /\ t.previous = keys
    /\ NewChord(s, keys) => t.visible = ~s.visible
    /\ Opened(s, keys, t) /\ Swallowed(s, keys, t)
    /\ Disarmed(t) /\ ArmedBy(s, keys, t)
    /\ a = "remove" => /\ s.armed /\ "MINUS" \in s.previous
                       /\ keys \cap {"PLUS", "MINUS"} = {}
    /\ a = "load" => t.selected < n
-----------------------------------------------------------------------------
LEMMA MenuNumbers ==
    /\ 0 \in 0..(Slots - 1)
    /\ \A i \in Nat : i % Slots \in 0..(Slots - 1)
    /\ \A i \in Nat : PageOf(i) \in Nat
    /\ PageOf(0) = 0
  BY MenuAssumption DEF PageOf

\* The cursor keys leave the selection in the library.
LEMMA MovedFacts ==
  ASSUME NEW i \in Nat, NEW edge, NEW n \in Nat \ {0}
  PROVE  Moved(i, edge, n) \in 0..(n - 1)
  <1> DEFINE c == Clamp(i, n)
             u == IF "UP" \in edge THEN Up(c, n) ELSE c
             d == IF "DOWN" \in edge THEN (u + 1) % n ELSE u
             l == IF "LEFT" \in edge THEN Left(d) ELSE d
  <1>1. c \in 0..(n - 1)
    BY DEF Clamp
  <1>2. u \in 0..(n - 1)
    BY <1>1 DEF Up
  <1>3. d \in 0..(n - 1)
    <2> HIDE DEF u
    <2> QED BY <1>2
  <1>4. l \in 0..(n - 1)
    <2> HIDE DEF d
    <2> QED BY <1>3, MenuAssumption DEF Left
  <1>5. (IF "RIGHT" \in edge THEN Right(l, n) ELSE l) \in 0..(n - 1)
    <2> HIDE DEF l
    <2> QED BY <1>4, MenuAssumption DEF Right
  <1> QED BY <1>5 DEF Moved

\* A request keeps all but the page and the pending flag.
LEMMA AnswerFacts ==
  ASSUME NEW s \in States, NEW a \in Actions, Answer(s, a)
  PROVE  /\ menu' \in States /\ act' = a
         /\ \A f \in {"visible", "swallow", "previous", "chordheld", "armed", "selected"} :
               menu'[f] = s[f]
  <1>1. PageOf(s.selected) \in Nat
    BY MenuNumbers DEF States
  <1> QED BY <1>1 DEF Answer, States
-----------------------------------------------------------------------------
\* The frames that do not reach the keys of the open menu.
LEMMA ClosedFrame ==
  ASSUME NEW s \in States, NEW keys \in SUBSET Buttons, NEW n \in Nat, Disarmed(s),
         NEW t \in States,
         t = [s EXCEPT !.previous = keys, !.swallow = @ /\ keys # {}],
         \/ NewChord(s, keys) /\ Toggle(t)
         \/ ~NewChord(s, keys) /\ s.chordheld /\ ChordHeld(t)
         \/ ~NewChord(s, keys) /\ ~s.chordheld /\ ~s.visible /\ Hidden(t)
  PROVE  menu' \in States /\ act' \in Actions /\ Effect(s, keys, n, menu', act')
  <1>1. CASE NewChord(s, keys) /\ Toggle(t)
    <2> DEFINE r == [t EXCEPT !.visible = ~@, !.swallow = TRUE, !.chordheld = TRUE,
                              !.armed = FALSE]
               a == IF t.visible THEN "none" ELSE "page"
    <2>1. r \in States /\ a \in Actions /\ Answer(r, a)
      <3>1. r \in States
        <4>1. \A b \in BOOLEAN : [t EXCEPT !.visible = b, !.swallow = TRUE,
                                           !.chordheld = TRUE, !.armed = FALSE] \in States
          BY DEF States
        <4>2. (~t.visible) \in BOOLEAN
          OBVIOUS
        <4> QED BY <4>1, <4>2
      <3>2. a \in Actions
        BY DEF Actions
      <3> QED BY <1>1, <3>1, <3>2 DEF Toggle
    <2>2. /\ r.previous = keys /\ r.visible = ~s.visible /\ r.swallow /\ ~r.armed
          /\ a \in {"none", "page"}
      BY DEF States
    <2> HIDE DEF r, a
    <2>3. /\ menu' \in States /\ act' = a /\ menu'.previous = keys
          /\ menu'.visible = ~s.visible /\ menu'.swallow /\ ~menu'.armed
      BY <2>1, <2>2, AnswerFacts
    <2> QED BY <1>1, <2>1, <2>2, <2>3
            DEF Effect, Opened, Swallowed, ArmedBy, Disarmed
  <1>2. CASE ~NewChord(s, keys) /\ s.chordheld /\ ChordHeld(t)
    <2> DEFINE r == [t EXCEPT !.chordheld = t.previous \cap {"PLUS", "MINUS"} # {}]
    <2>1. r \in States /\ "none" \in Actions /\ Answer(r, "none")
      BY <1>2 DEF ChordHeld, States, Actions
    <2>2. /\ r.previous = keys /\ r.visible = s.visible /\ r.armed = s.armed
          /\ r.swallow = (s.swallow /\ keys # {}) /\ ~s.armed
      BY <1>2 DEF States, Disarmed
    <2> HIDE DEF r
    <2>3. /\ menu' \in States /\ act' = "none" /\ menu'.previous = keys
          /\ menu'.visible = s.visible /\ menu'.swallow = (s.swallow /\ keys # {})
          /\ ~menu'.armed
      BY <2>1, <2>2, AnswerFacts
    <2> QED BY <1>2, <2>1, <2>3 DEF Effect, Opened, Swallowed, ArmedBy, Disarmed
  <1>3. CASE ~NewChord(s, keys) /\ ~s.chordheld /\ ~s.visible /\ Hidden(t)
    <2> DEFINE r == [t EXCEPT !.armed = FALSE]
    <2>1. r \in States /\ "none" \in Actions /\ Answer(r, "none")
      BY <1>3 DEF Hidden, States, Actions
    <2>2. /\ r.previous = keys /\ r.visible = s.visible /\ ~r.armed
          /\ r.swallow = (s.swallow /\ keys # {})
      BY <1>3 DEF States
    <2> HIDE DEF r
    <2>3. /\ menu' \in States /\ act' = "none" /\ menu'.previous = keys
          /\ menu'.visible = s.visible /\ menu'.swallow = (s.swallow /\ keys # {})
          /\ ~menu'.armed
      BY <2>1, <2>2, AnswerFacts
    <2> QED BY <1>3, <2>1, <2>3 DEF Effect, Opened, Swallowed, ArmedBy, Disarmed
  <1> QED BY <1>1, <1>2, <1>3

\* The frames of the open menu that only close it, or wait for an answer.
LEMMA IdleFrame ==
  ASSUME NEW s \in States, NEW keys \in SUBSET Buttons, NEW n \in Nat,
         NEW v \in States, s.visible, ~NewChord(s, keys),
         v = [s EXCEPT !.previous = keys, !.swallow = TRUE],
         CloseMenu(v) \/ Wait(v)
  PROVE  menu' \in States /\ act' \in Actions /\ Effect(s, keys, n, menu', act')
  <1> DEFINE r == [v EXCEPT !.visible = FALSE, !.armed = FALSE]
             w == [v EXCEPT !.armed = FALSE]
  <1>1. r \in States /\ w \in States /\ "none" \in Actions
    BY DEF States, Actions
  <1>2. /\ r.previous = keys /\ ~r.armed /\ r.swallow
        /\ w.previous = keys /\ ~w.armed /\ w.swallow
    BY DEF States
  <1>3. Answer(r, "none") \/ Answer(w, "none")
    BY DEF CloseMenu, Wait
  <1> HIDE DEF r, w
  <1>4. /\ menu' \in States /\ act' = "none" /\ menu'.previous = keys
        /\ ~menu'.armed /\ menu'.swallow
    BY <1>1, <1>2, <1>3, AnswerFacts
  <1> QED BY <1>1, <1>4 DEF Effect, Opened, Swallowed, ArmedBy, Disarmed
-----------------------------------------------------------------------------
\* The frames of the open menu that take a key.
LEMMA OpenFrame ==
  ASSUME NEW s \in States, NEW keys \in SUBSET Buttons, NEW n \in Nat,
         NEW v \in States, s.visible, ~s.chordheld, ~NewChord(s, keys),
         v = [s EXCEPT !.previous = keys, !.swallow = TRUE],
         Open(s, v, keys \ s.previous, n)
  PROVE  menu' \in States /\ act' \in Actions /\ Effect(s, keys, n, menu', act')
  <1> DEFINE edge == keys \ s.previous
             r == [v EXCEPT !.armed = Armed(v, edge)]
  <1>1. /\ v.previous = keys /\ v.visible /\ v.swallow /\ ~v.chordheld
        /\ v.armed = s.armed /\ v.selected = s.selected
    BY DEF States
  <1>2. Armed(v, edge) \in BOOLEAN /\ (Armed(v, edge) => s.armed \/ "MINUS" \in edge)
    BY <1>1 DEF Armed
  <1>3. r \in States
    BY <1>2 DEF States
  <1>4. /\ r.previous = keys /\ r.visible /\ r.swallow /\ ~r.chordheld
        /\ r.armed = Armed(v, edge) /\ r.selected = s.selected
    BY <1>1 DEF States
  \* An answer to a state that is armed as one of the two.
  <1>5. ASSUME NEW x \in States, NEW a \in Actions, Answer(x, a),
               x.previous = keys, x.visible, x.swallow, ~x.chordheld,
               x.armed => s.armed \/ "MINUS" \in edge,
               a # "remove", a = "load" => x.selected < n
        PROVE  menu' \in States /\ act' \in Actions /\ Effect(s, keys, n, menu', act')
    <2>1. /\ menu' \in States /\ act' = a /\ menu'.previous = keys /\ menu'.visible
          /\ menu'.swallow /\ ~menu'.chordheld /\ menu'.armed = x.armed
          /\ menu'.selected = x.selected
      BY <1>5, AnswerFacts
    <2> QED BY <1>5, <2>1 DEF Effect, Opened, Swallowed, ArmedBy, Disarmed
  <1>6. CASE View(v, edge)
    <2> DEFINE m == (v.slot + (IF "C" \in edge THEN Slots - 1 ELSE 1)) % Slots
               x == [v EXCEPT !.slot = m]
    <2>1. m \in 0..(Slots - 1)
      <3>1. v.slot \in Nat /\ Slots \in Nat \ {0}
        BY MenuAssumption DEF States
      <3>2. v.slot + (IF "C" \in edge THEN Slots - 1 ELSE 1) \in Nat
        BY <3>1
      <3> QED BY <3>2, MenuNumbers
    <2> HIDE DEF m
    <2>2. x \in States /\ "view" \in Actions
      BY <2>1 DEF States, Actions
    <2>3. /\ x.previous = keys /\ x.visible /\ x.swallow /\ ~x.chordheld
          /\ x.armed = s.armed
      BY <1>1 DEF States
    <2>4. Answer(x, "view")
      BY <1>6 DEF View, m
    <2> HIDE DEF x
    <2> QED BY <1>5, <2>2, <2>3, <2>4
  <1>7. CASE Removes(s, v, edge) /\ Answer([v EXCEPT !.armed = FALSE], "remove")
    <2> DEFINE x == [v EXCEPT !.armed = FALSE]
    <2>1. x \in States /\ "remove" \in Actions
      BY DEF States, Actions
    <2>2. /\ x.previous = keys /\ x.visible /\ x.swallow /\ ~x.chordheld /\ ~x.armed
      BY <1>1 DEF States
    <2>3. Answer(x, "remove")
      BY <1>7
    <2> HIDE DEF x
    <2>4. /\ menu' \in States /\ act' = "remove" /\ menu'.previous = keys
          /\ menu'.visible /\ menu'.swallow /\ ~menu'.armed
      BY <2>1, <2>2, <2>3, AnswerFacts
    <2>5. s.armed /\ "MINUS" \in s.previous /\ "MINUS" \notin keys /\ "PLUS" \notin keys
      BY <1>1, <1>7 DEF Removes, Armed
    <2> QED BY <2>1, <2>4, <2>5 DEF Effect, Opened, Swallowed, ArmedBy, Disarmed
  <1>8. CASE Answer(r, "flush") \/ Answer(r, "rescan")
    <2>1. "flush" \in Actions /\ "rescan" \in Actions
      BY DEF Actions
    <2> HIDE DEF r
    <2> QED BY <1>2, <1>3, <1>4, <1>5, <1>8, <2>1
  <1>9. CASE Browse(r, edge, n)
    <2> DEFINE i == IF n > 0 THEN Moved(r.selected, edge, n) ELSE r.selected
               x == [r EXCEPT !.selected = i]
               a == IF n > 0 /\ "A" \in edge THEN "load"
                    ELSE IF r.page # PageOf(i) THEN "page" ELSE "none"
    <2>1. i \in Nat /\ (n > 0 => i < n)
      <3>1. r.selected \in Nat
        BY <1>3 DEF States
      <3>2. n > 0 => Moved(r.selected, edge, n) \in 0..(n - 1)
        BY <3>1, MovedFacts
      <3> HIDE DEF r
      <3> QED BY <3>1, <3>2
    <2>2. a \in Actions /\ a # "remove" /\ (a = "load" => n > 0)
      BY DEF Actions
    <2>3. Answer(x, a)
      BY <1>9 DEF Browse
    <2> HIDE DEF i, a, r
    <2>4. x \in States
      BY <1>3, <2>1 DEF States
    <2>5. /\ x.previous = keys /\ x.visible /\ x.swallow /\ ~x.chordheld
          /\ x.armed = Armed(v, edge) /\ x.selected = i
      BY <1>3, <1>4 DEF States
    <2> HIDE DEF x
    <2> QED BY <1>2, <1>5, <2>1, <2>2, <2>3, <2>4, <2>5
  <1> QED BY <1>6, <1>7, <1>8, <1>9 DEF Open
-----------------------------------------------------------------------------
\* What a frame does to the menu.
LEMMA InputFacts ==
  ASSUME NEW s \in States, NEW keys \in SUBSET Buttons, NEW n \in Nat, Disarmed(s),
         Input(s, keys, n)
  PROVE  menu' \in States /\ act' \in Actions /\ Effect(s, keys, n, menu', act')
  <1> DEFINE edge == keys \ s.previous
             t == [s EXCEPT !.previous = keys, !.swallow = @ /\ keys # {}]
             v == [s EXCEPT !.previous = keys, !.swallow = TRUE]
  <1>1. t \in States /\ v \in States /\ v = [t EXCEPT !.swallow = TRUE]
    BY DEF States
  <1>2. \/ NewChord(s, keys) /\ Toggle(t)
        \/ ~NewChord(s, keys) /\ s.chordheld /\ ChordHeld(t)
        \/ ~NewChord(s, keys) /\ ~s.chordheld /\ ~s.visible /\ Hidden(t)
        \/ /\ ~NewChord(s, keys) /\ ~s.chordheld /\ s.visible
           /\ CloseMenu(v) \/ Wait(v) \/ Open(s, v, edge, n)
    BY <1>1 DEF Input, NewChord
  <1> HIDE DEF t, v
  <1>3. t = [s EXCEPT !.previous = keys, !.swallow = @ /\ keys # {}]
    BY DEF t
  <1>4. v = [s EXCEPT !.previous = keys, !.swallow = TRUE]
    BY DEF v
  <1> QED BY <1>1, <1>2, <1>3, <1>4, ClosedFrame, IdleFrame, OpenFrame
-----------------------------------------------------------------------------
\* The menu has the keys of the player in control; a removal is armed by the
\* MINUS that he holds alone.
ControlInv ==
    /\ menu.previous = held[owner]
    /\ Disarmed(menu)
    /\ menu.armed /\ "MINUS" \in held[owner] => lone
    /\ lone => "MINUS" \in held[owner] /\ "PLUS" \notin held[owner]

MenuStrength == MenuInv /\ ControlInv /\ ClosingKeySwallowed

\* What a frame finds: the player in control, and the menu as he has it.
LEMMA FrameFacts ==
  ASSUME MenuStrength, NEW k \in Held, NEW n \in Counts, NEW answered \in BOOLEAN,
         Frame(k, n, answered)
  PROVE  \E s \in States :
            /\ owner' \in Players /\ held' = k /\ k \in [Players -> SUBSET Buttons]
            /\ n \in Nat /\ Disarmed(s)
            /\ menu' \in States /\ act' \in Actions
            /\ Effect(s, k[owner'], n, menu', act')
            /\ \/ /\ owner' = owner
                  /\ s.visible = menu.visible /\ s.swallow = menu.swallow
                  /\ s.previous = held[owner] /\ s.armed = menu.armed
               \/ /\ owner' \in NewChords(k) /\ NewChord(s, k[owner'])
                  /\ ~s.visible /\ ~s.armed
                  /\ ~menu.visible \/ owner' # owner
  <1> DEFINE o == Owner(k)
             s == [Claimed(k) EXCEPT !.pending = @ /\ ~answered]
  <1>1. k \in [Players -> SUBSET Buttons] /\ n \in Nat
    BY MenuAssumption DEF Held
  <1>2. menu \in States /\ owner \in Players /\ menu.previous = held[owner] /\ Disarmed(menu)
    BY DEF MenuStrength, MenuInv, TypeOK, States, ControlInv
  <1>3. Input(s, k[o], n) /\ owner' = o /\ held' = k
    BY DEF Frame, KeysOf
  <1>4. CASE \E i \in Players : Claims(k, i)
    <2>1. o \in Players /\ Claims(k, o)
      BY <1>4 DEF Owner
    <2>2. s = [menu EXCEPT !.visible = FALSE, !.previous = {}, !.chordheld = FALSE,
                           !.armed = FALSE, !.pending = @ /\ ~answered]
      BY <1>2, <1>4 DEF Claimed, States
    <2> HIDE DEF o, s
    <2>3. /\ s \in States /\ Disarmed(s) /\ ~s.visible /\ ~s.armed /\ s.previous = {}
      BY <1>2, <2>2 DEF States, Disarmed
    <2>4. /\ menu' \in States /\ act' \in Actions /\ Effect(s, k[o], n, menu', act')
      BY <1>1, <1>3, <2>1, <2>3, InputFacts
    <2>5. o \in NewChords(k) /\ (~menu.visible \/ o # owner) /\ NewChord(s, k[o])
      BY <2>1, <2>3 DEF Claims, NewChords, NewChord, Chord
    <2> QED BY <1>1, <1>3, <2>1, <2>3, <2>4, <2>5
  <1>5. CASE ~\E i \in Players : Claims(k, i)
    <2>1. o = owner /\ s = [menu EXCEPT !.pending = @ /\ ~answered]
      BY <1>5 DEF Owner, Claimed
    <2> HIDE DEF o, s
    <2>2. /\ s \in States /\ Disarmed(s) /\ s.visible = menu.visible
          /\ s.swallow = menu.swallow /\ s.armed = menu.armed /\ s.previous = held[owner]
      BY <1>2, <2>1 DEF States, Disarmed
    <2>3. /\ menu' \in States /\ act' \in Actions /\ Effect(s, k[o], n, menu', act')
      BY <1>1, <1>2, <1>3, <2>1, <2>2, InputFacts
    <2> QED BY <1>1, <1>2, <1>3, <2>1, <2>2, <2>3
  <1> QED BY <1>4, <1>5

LEMMA StrengthInit == Init => MenuStrength
  <1> SUFFICES ASSUME Init PROVE MenuStrength OBVIOUS
  <1>1. TypeOK
    BY MenuAssumption, MenuNumbers DEF Init, TypeOK, Actions
  <1> QED BY <1>1, MenuAssumption
          DEF Init, MenuStrength, MenuInv, LoadInLibrary, ControlInv, Disarmed,
              ClosingKeySwallowed

LEMMA FrameStep ==
  ASSUME MenuStrength, NEW k \in Held, NEW n \in Counts, NEW answered \in BOOLEAN,
         Frame(k, n, answered)
  PROVE  MenuStrength'
  <1>1. PICK s \in States :
            /\ owner' \in Players /\ held' = k /\ k \in [Players -> SUBSET Buttons]
            /\ n \in Nat /\ Disarmed(s)
            /\ menu' \in States /\ act' \in Actions
            /\ Effect(s, k[owner'], n, menu', act')
            /\ \/ /\ owner' = owner
                  /\ s.visible = menu.visible /\ s.swallow = menu.swallow
                  /\ s.previous = held[owner] /\ s.armed = menu.armed
               \/ /\ owner' \in NewChords(k) /\ NewChord(s, k[owner'])
                  /\ ~s.visible /\ ~s.armed
                  /\ ~menu.visible \/ owner' # owner
    BY FrameFacts
  <1>2. /\ count' = IF act' = "load" THEN n ELSE 0
        /\ closing' = [i \in Players |->
                          IF i = owner' /\ menu.visible /\ ~menu'.visible THEN k[i]
                          ELSE closing[i] \cap k[i]]
        /\ lone' = /\ menu'.visible /\ owner' = owner
                   /\ "MINUS" \in k[owner'] /\ "PLUS" \notin k[owner']
                   /\ lone \/ "MINUS" \notin held[owner']
    BY DEF Frame
  <1>3. menu \in States /\ closing \in [Players -> SUBSET Buttons] /\ lone \in BOOLEAN
    BY DEF MenuStrength, MenuInv, TypeOK, States
  <1>4. menu.visible \in BOOLEAN /\ menu'.visible \in BOOLEAN
    BY <1>1, <1>3 DEF States
  <1>5. TypeOK'
    <2>1. closing' \in [Players -> SUBSET Buttons] /\ lone' \in BOOLEAN
      BY <1>1, <1>2, <1>3
    <2> QED BY <1>1, <1>2, <2>1 DEF TypeOK, States
  <1>6. LoadInLibrary'
    BY <1>1, <1>2 DEF LoadInLibrary, Effect
  <1>7. ControlInv'
    <2>1. menu'.previous = held'[owner'] /\ Disarmed(menu')
      BY <1>1 DEF Effect
    <2>2. lone' => "MINUS" \in held'[owner'] /\ "PLUS" \notin held'[owner']
      BY <1>1, <1>2
    <2>3. ASSUME menu'.armed, "MINUS" \in k[owner'] PROVE lone'
      <3>1. /\ menu'.visible /\ ~NewChord(s, k[owner'])
            /\ s.armed \/ "MINUS" \in k[owner'] \ s.previous
        BY <1>1, <2>3 DEF Effect, ArmedBy
      <3>2. /\ owner' = owner /\ s.previous = held[owner] /\ s.armed = menu.armed
        BY <1>1, <3>1
      <3>3. lone \/ "MINUS" \notin held[owner]
        BY <3>1, <3>2 DEF MenuStrength, ControlInv
      <3>4. "PLUS" \notin k[owner']
        BY <2>3, <3>1, <3>2, <3>3 DEF NewChord, Chord, MenuStrength, ControlInv
      <3> QED BY <1>2, <2>3, <3>1, <3>2, <3>3, <3>4
    <2> QED BY <1>1, <2>1, <2>2, <2>3 DEF ControlInv
  <1>8. ClosingKeySwallowed'
    <2> SUFFICES ASSUME closing'[owner'] # {}, ~menu'.visible PROVE menu'.swallow
      BY DEF ClosingKeySwallowed, Masked
    \* A player who takes control opens the menu.
    <2>1. owner' = owner /\ s.visible = menu.visible /\ s.swallow = menu.swallow
      BY <1>1 DEF Effect
    <2>2. CASE menu.visible
      BY <1>1, <2>1, <2>2 DEF Effect, Swallowed
    <2>3. CASE ~menu.visible
      <3>1. closing'[owner'] = closing[owner] \cap k[owner']
        BY <1>1, <1>2, <2>1, <2>3
      <3>2. menu.swallow /\ k[owner'] # {}
        BY <2>3, <3>1 DEF MenuStrength, ClosingKeySwallowed, Masked
      <3> QED BY <1>1, <2>1, <3>2 DEF Effect, Swallowed
    <2> QED BY <2>2, <2>3
  <1> QED BY <1>5, <1>6, <1>7, <1>8 DEF MenuStrength, MenuInv

\* The menu follows the keys of the player in control, frame after frame: its
\* types, where a removal is armed, and what the game does not see.
THEOREM MenuStrengthened == Spec => []MenuStrength
  <1>1. MenuStrength /\ [Next]_vars => MenuStrength'
    <2> SUFFICES ASSUME MenuStrength, UNCHANGED vars PROVE MenuStrength'
      BY FrameStep DEF Next
    <2> QED BY DEF vars, MenuStrength, MenuInv, TypeOK, LoadInLibrary, ControlInv, Disarmed,
                   ClosingKeySwallowed, Masked
  <1> QED BY <1>1, StrengthInit, PTL DEF Spec

\* A load is asked for only for a figure of that frame's library (menu_input).
THEOREM MenuHolds == Spec => []MenuInv
  <1>1. MenuStrength => MenuInv
    BY DEF MenuStrength
  <1> QED BY <1>1, MenuStrengthened, PTL

\* What the player in control closed the menu with stays hidden from the game
\* until it is released (menu_input, menu_mask).
THEOREM ClosingKeysHidden == Spec => []ClosingKeySwallowed
  <1>1. MenuStrength => ClosingKeySwallowed
    BY DEF MenuStrength
  <1> QED BY <1>1, MenuStrengthened, PTL

\* Half a chord on each of two controllers opens nothing (menu_input_players).
THEOREM ChordsOpen == Spec => OpensByChord
  <1> DEFINE A == menu'.visible /\ ~menu.visible =>
                     \E i \in Players : Chord(held'[i]) /\ ~Chord(held[i])
  <1>1. MenuStrength /\ [Next]_vars => [A]_vars
    <2> SUFFICES ASSUME MenuStrength, NEW k \in Held, NEW n \in Counts,
                        NEW answered \in BOOLEAN, Frame(k, n, answered),
                        menu'.visible, ~menu.visible
                 PROVE  \E i \in Players : Chord(held'[i]) /\ ~Chord(held[i])
      BY DEF Next
    <2>1. PICK s \in States :
              /\ owner' \in Players /\ held' = k
              /\ Effect(s, k[owner'], n, menu', act')
              /\ \/ /\ owner' = owner
                    /\ s.visible = menu.visible /\ s.previous = held[owner]
                 \/ owner' \in NewChords(k)
      BY FrameFacts
    <2>2. CASE owner' \in NewChords(k)
      BY <2>1, <2>2 DEF NewChords
    <2>3. CASE owner' = owner /\ s.visible = menu.visible /\ s.previous = held[owner]
      BY <2>1, <2>3 DEF Effect, Opened, NewChord
    <2> QED BY <2>1, <2>2, <2>3
  <1> QED BY <1>1, MenuStrengthened, PTL DEF Spec, OpensByChord

\* Nothing but the release of a MINUS that the player in control pressed in the
\* open menu and held alone removes a figure, whatever keys the players press
\* together (menu_input).
THEOREM RemovalsAreMeant == Spec => SafeRemove
  <1> DEFINE A == act' = "remove" => /\ lone /\ owner' = owner
                                     /\ held'[owner] \cap {"PLUS", "MINUS"} = {}
  <1>1. MenuStrength /\ [Next]_vars => [A]_vars
    <2> SUFFICES ASSUME MenuStrength, NEW k \in Held, NEW n \in Counts,
                        NEW answered \in BOOLEAN, Frame(k, n, answered), act' = "remove"
                 PROVE  /\ lone /\ owner' = owner
                        /\ held'[owner] \cap {"PLUS", "MINUS"} = {}
      BY DEF Next
    <2>1. PICK s \in States :
              /\ held' = k /\ Effect(s, k[owner'], n, menu', act')
              /\ \/ /\ owner' = owner
                    /\ s.previous = held[owner] /\ s.armed = menu.armed
                 \/ ~s.armed
      BY FrameFacts
    <2>2. /\ s.armed /\ "MINUS" \in s.previous /\ k[owner'] \cap {"PLUS", "MINUS"} = {}
      BY <2>1 DEF Effect
    <2> QED BY <2>1, <2>2 DEF MenuStrength, ControlInv
  <1> QED BY <1>1, MenuStrengthened, PTL DEF Spec, SafeRemove
=============================================================================
