------------------------------- MODULE Input -------------------------------
(***************************************************************************)
(* A viewer's hand on the live view (vmette-daemon/rfb.rs):                *)
(* pointer_actions and key_action, which turn the pointer and key events   *)
(* of one connection into actions of the guest's agent, and the guest's    *)
(* own pointer (external), on which those actions have their effect.  The  *)
(* agent clicks where its pointer is: only MouseMove, Scroll and           *)
(* LeftClickDrag say where.  No one else moves it here.                    *)
(*                                                                         *)
(* Left out: text of keys (a key is a modifier, a named key, a character,  *)
(* or one that is neither and is dropped), two of the four modifiers, and  *)
(* the four directions of the wheel, of which any moves the guest's        *)
(* pointer in the same way.                                                *)
(***************************************************************************)
EXTENDS Integers, FiniteSets

CONSTANTS
  Columns,    \* where the viewer's pointer can be, on one line of the screen
  Threshold   \* DRAG_THRESHOLD_PX

InputAssumption == Columns \subseteq Int /\ Threshold \in Nat

Buttons == {"left", "middle", "right", "wheel"}
Modifiers == [Shift_L |-> "shift", Shift_R |-> "shift", Control_L |-> "ctrl"]
Named == {"Tab"}
Characters == {"a"}
Unmapped == {"Clear"}
Keys == Named \cup Characters \cup Unmapped \cup DOMAIN Modifiers

VARIABLES
  lastMask,    \* PointerState.last_mask, as a set of buttons
  lastPos,     \* PointerState.last_pos, a set of at most one column
  leftDownAt,  \* PointerState.left_down_at, likewise
  mods,        \* KeyState: the modifier flags that are up
  guest,       \* the column of the guest's pointer
  acted,       \* the clicks the last event made there, or the chord it pressed
  astray,      \* history: where a click left the guest's pointer that was
               \* released beside it, until the viewer's moves in the open
  wheeled,     \* history: where the wheel was turned since the left press
  down,        \* history: the keys the viewer holds
  split        \* history: the modifiers of which it released one key while it
               \* held the other, which it still holds

pointerVars == <<lastMask, lastPos, leftDownAt, guest, astray, wheeled>>
keyVars == <<mods, down, split>>
vars == <<pointerVars, keyVars, acted>>

Init ==
  /\ lastMask = {} /\ lastPos = {} /\ leftDownAt = {}
  /\ mods = {} /\ down = {} /\ split = {}
  /\ guest \in Columns
  /\ acted = {}
  /\ astray = {} /\ wheeled = {}

-----------------------------------------------------------------------------
(* pointer_actions.                                                        *)

Far(x, y) == x - y > Threshold \/ y - x > Threshold

\* Mutant: moves are followed while the left button is held.
FollowsHeld(mask, x) == {x} # lastPos /\ "wheel" \notin mask \ lastMask

\* A hover move: not while the left button is held, whose anchor it would
\* shift, and not when a scroll has brought the pointer here.
Follows(mask, x) ==
  /\ {x} # lastPos
  /\ "left" \notin mask
  /\ "wheel" \notin mask \ lastMask

\* Where a drag that ends now began.
Start == IF wheeled # {} THEN wheeled ELSE IF astray # {} THEN astray ELSE leftDownAt

\* The event of a viewer with the buttons in mask down and the pointer at x.
PointerEvent(mask, x) ==
  LET pressed  == mask \ lastMask
      released == lastMask \ mask
      scrolled == IF "wheel" \in pressed THEN x ELSE guest
      anchor   == IF leftDownAt = {} THEN x ELSE CHOOSE a \in leftDownAt : TRUE
      drags    == "left" \in released /\ Far(x, anchor)
      at == CASE "left" \in pressed  -> IF {x} # lastPos THEN x ELSE scrolled
              [] "left" \in released -> IF drags THEN x ELSE scrolled
              [] OTHER               -> IF Follows(mask, x) THEN x ELSE scrolled
  IN /\ lastMask' = mask
     /\ lastPos' = {x}
     /\ leftDownAt' = CASE "left" \in pressed  -> {x}
                        [] "left" \in released -> {}
                        [] OTHER               -> leftDownAt
     /\ guest' = at
     /\ acted' = IF drags THEN {"drag"} ELSE released \ {"wheel"}
     /\ astray' = IF "left" \in mask \cap lastMask THEN astray
                  ELSE IF "wheel" \in pressed THEN {}
                  ELSE IF "left" \in released THEN (IF drags \/ Start = {x} THEN {} ELSE Start)
                  ELSE IF {x} = lastPos THEN astray ELSE {}
     /\ wheeled' = IF "left" \notin mask \cap lastMask THEN {}
                   ELSE IF "wheel" \in pressed THEN {x} ELSE wheeled
     /\ UNCHANGED keyVars

-----------------------------------------------------------------------------
(* key_action.                                                             *)

\* Mutant: only a press of a modifier is noted.
ModifierSticky(k, isDown) ==
  mods' = IF isDown THEN mods \cup {Modifiers[k]} ELSE mods

\* The left and the right key of a pair share a flag.
Modifier(k, isDown) ==
  mods' = IF isDown THEN mods \cup {Modifiers[k]} ELSE mods \ {Modifiers[k]}

\* Mutant: Shift is left out of every chord.
ChordUnshifted(k) == {k} \cup (mods \ {"shift"})

\* Shift is passed with named keys only: the viewer has folded it into a
\* character.
Chord(k) == {k} \cup (IF k \in Named THEN mods ELSE mods \ {"shift"})

\* A key that is held may come down again, repeated.
KeyEvent(k, isDown) ==
  /\ isDown \/ k \in down
  /\ down' = IF isDown THEN down \cup {k} ELSE down \ {k}
  /\ IF k \in DOMAIN Modifiers
       THEN /\ Modifier(k, isDown)
            /\ acted' = {}
            /\ split' = IF ~isDown /\ \E other \in (down \ {k}) \cap DOMAIN Modifiers :
                                       Modifiers[other] = Modifiers[k]
                        THEN split \cup {Modifiers[k]} ELSE split \ {Modifiers[k]}
       ELSE /\ acted' = IF isDown /\ k \notin Unmapped THEN Chord(k) ELSE {}
            /\ UNCHANGED <<mods, split>>
  /\ UNCHANGED pointerVars

-----------------------------------------------------------------------------
\* The viewer moves, or has one button, or the wheel, go down or up.
Masks == {m \in SUBSET Buttons : Cardinality((m \ lastMask) \cup (lastMask \ m)) <= 1}

PointerNext == \E mask \in Masks, x \in Columns : PointerEvent(mask, x)
KeyNext     == \E k \in Keys, isDown \in BOOLEAN : KeyEvent(k, isDown)

Next == PointerNext \/ KeyNext

Spec == Init /\ [][Next]_vars

-----------------------------------------------------------------------------
(* Type invariant. *)
TypeOK ==
  /\ lastMask \in SUBSET Buttons
  /\ lastPos \in SUBSET Columns /\ Cardinality(lastPos) <= 1
  /\ leftDownAt \in SUBSET Columns /\ Cardinality(leftDownAt) <= 1
  /\ mods \in SUBSET {"shift", "ctrl"} /\ split \in SUBSET {"shift", "ctrl"}
  /\ guest \in Columns
  /\ astray \in SUBSET Columns /\ wheeled \in SUBSET Columns
  /\ down \in SUBSET Keys

(* While the left button is held the guest's pointer stays where it was     *)
(* pressed, whatever the pointer and the other buttons do, so that a drag   *)
(* starts there ("Intermediate moves are suppressed while held so the       *)
(* drag's from point stays the anchor").  In two cases the code loses the   *)
(* anchor, and the drag starts elsewhere: where the wheel was turned last,  *)
(* if it was since the press; and where an earlier click was pressed that   *)
(* was released a little beside it, if the new press is on the spot of that *)
(* release, when no move is sent.                                           *)
AnchorHeld == leftDownAt # {} => {guest} = Start

(* A key that is pressed reaches the guest as a chord with exactly the      *)
(* modifiers whose keys the viewer holds at that moment, Shift apart where  *)
(* it is in the character already, after any overlapping presses, releases  *)
(* and repeats ("Held-modifier state for assembling key chords"; test       *)
(* key_shift_tab_keeps_shift_for_special_keys) -- but for a modifier of     *)
(* which one key of the pair was let go while the other is held.            *)
HeldModifiers == {Modifiers[k] : k \in down \cap DOMAIN Modifiers}
Pressed == acted \cap (Named \cup Characters)

ChordAsHeld == \A k \in Pressed :
  /\ k \in down
  /\ acted = {k} \cup ((HeldModifiers \ split) \ (IF k \in Named THEN {} ELSE {"shift"}))
=============================================================================
