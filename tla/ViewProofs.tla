----------------------------- MODULE ViewProofs -----------------------------
(* Proofs about the live view: the server's accounts of its connections,    *)
(* the service of one connection, and the viewer's hand, for any number of  *)
(* connections, tiles, outstanding requests and columns; the rectangles and *)
(* the pixels of an update, for any screen and any format.                  *)
EXTENDS MCView, Counting, FiniteSetTheorems, SequenceTheorems, TLAPS

-----------------------------------------------------------------------------
(* The server.                                                              *)

\* The accept loop has one connection in its hands, or none.
InHand ==
  /\ setup # "none" <=> acceptor \in {"insert", "spawn"}
  /\ \A c \in Conns : thread[c] = "accepted" <=> c = setup
  /\ acceptor = "spawn" /\ closing \in {"no", "flagged"} => setup \in conns

\* Until the map is drained it has every connection that is served.
MapHasServed ==
  closing \in {"no", "flagged"} => \A c \in Conns : VS!Serving(c) => c \in conns

Strays == {c \in Conns : VS!Serving(c) /\ connSocket[c] = "open"}

\* A loop that passed the flag before it was set takes one connection more.
OneMore ==
  closing \in {"drained", "closed"} =>
    /\ acceptor \in {"accept", "insert", "spawn"} => Strays = {}
    /\ \A c, d \in Strays : c = d

ServerInv ==
  /\ VS!TypeOK /\ InHand /\ MapHasServed /\ OneMore
  /\ active = Cardinality(VS!Counted)
  /\ \A c \in conns : c = setup \/ thread[c] \in {"serving", "ending", "pruning"}

(* The server's module and the library's speak of the same cardinality.     *)
LEMMA SameCardinality ==
  \A S : /\ VS!Cardinality(S) = Cardinality(S)
         /\ VS!IsFiniteSet(S) <=> IsFiniteSet(S)
<1>1. \A S : VS!IsFiniteSet(S) <=> IsFiniteSet(S)
  BY DEF VS!IsFiniteSet, IsFiniteSet
<1>2. \A S : VS!Cardinality(S) = Cardinality(S)
  BY <1>1 DEF VS!Cardinality, Cardinality
<1>3. QED BY <1>1, <1>2

LEMMA ConnsFinite == IsFiniteSet(Conns) /\ "none" \notin Conns
BY ViewAssumption, SameCardinality DEF VS!ViewServerAssumption

LEMMA CountedFinite == IsFiniteSet(VS!Counted) /\ Cardinality(VS!Counted) \in Nat
<1>1. VS!Counted \subseteq Conns BY DEF VS!Counted
<1>2. QED BY <1>1, FS_Subset, ConnsFinite, FS_CardinalityType

\* How the number of the counted connections moves with one thread.
LEMMA CountMoves ==
  ASSUME VS!TypeOK, NEW c \in Conns, VS!TypeOK',
         \A d \in Conns : d # c => thread'[d] = thread[d]
  PROVE  LET before == thread[c] \in {"serving", "ending"}
             after  == thread'[c] \in {"serving", "ending"}
         IN /\ ~before /\ after =>
                 Cardinality(VS!Counted)' = Cardinality(VS!Counted) + 1
            /\ before /\ ~after =>
                 Cardinality(VS!Counted)' = Cardinality(VS!Counted) - 1
            /\ (before <=> after) =>
                 Cardinality(VS!Counted)' = Cardinality(VS!Counted)
<1>1. CASE c \notin VS!Counted /\ thread'[c] \in {"serving", "ending"}
  <2>1. VS!Counted' = VS!Counted \cup {c} BY <1>1 DEF VS!Counted, VS!TypeOK
  <2>2. QED BY <1>1, <2>1, CountedFinite, FS_AddElement DEF VS!Counted
<1>2. CASE c \in VS!Counted /\ thread'[c] \notin {"serving", "ending"}
  <2>1. VS!Counted' = VS!Counted \ {c} BY <1>2 DEF VS!Counted, VS!TypeOK
  <2>2. thread[c] \in {"serving", "ending"} BY <1>2 DEF VS!Counted
  <2>3. QED BY <1>2, <2>1, <2>2, CountedFinite, FS_RemoveElement
<1>3. CASE c \in VS!Counted <=> thread'[c] \in {"serving", "ending"}
  <2>1. VS!Counted' = VS!Counted BY <1>3 DEF VS!Counted, VS!TypeOK
  <2>2. thread[c] \in {"serving", "ending"} <=> thread'[c] \in {"serving", "ending"}
    BY <1>3 DEF VS!Counted
  <2>3. QED BY <2>1, <2>2
<1>4. QED BY <1>1, <1>2, <1>3

LEMMA ServerInit == VS!Init \/ NoServer => ServerInv
<1> SUFFICES ASSUME VS!Init \/ NoServer PROVE ServerInv
  OBVIOUS
<1> USE ViewAssumption DEF VS!ViewServerAssumption, VS!Init, NoServer
<1>1. VS!TypeOK BY DEF VS!TypeOK
<1>2. InHand /\ MapHasServed /\ OneMore
  BY DEF InHand, MapHasServed, OneMore, Strays, VS!Serving
<1>3. VS!Counted = {} BY DEF VS!Counted
<1>4. QED BY <1>1, <1>2, <1>3, FS_EmptySet DEF ServerInv

LEMMA ServerTypeStep == ServerInv /\ [VS!Next]_VS!vars => VS!TypeOK'
<1> SUFFICES ASSUME ServerInv, [VS!Next]_VS!vars PROVE VS!TypeOK'
  OBVIOUS
<1> USE ViewAssumption DEF VS!ViewServerAssumption, VS!TypeOK, VS!Serving
<1>1. VS!TypeOK /\ InHand /\ active = Cardinality(VS!Counted)
  BY DEF ServerInv
<1>2. CASE VS!AcceptStep \/ VS!AcceptFails
  BY <1>1, <1>2
  DEF VS!AcceptStep, VS!CheckFlag, VS!Accept, VS!WouldBlock, VS!AcceptFails, VS!Insert,
      VS!Spawn, VS!SpawnFails, InHand
<1>3. ASSUME NEW c \in Conns, VS!Connect(c) \/ VS!ViewerLeaves(c) \/ VS!ServeEnds(c)
      PROVE  VS!TypeOK'
  BY <1>1, <1>3 DEF VS!Connect, VS!ViewerLeaves, VS!ServeEnds
<1>4. ASSUME NEW c \in Conns, VS!GuardCounts(c) PROVE VS!TypeOK'
  <2>1. c \in VS!Counted
    BY <1>4 DEF VS!GuardCounts, VS!Counted
  <2>2. active - 1 \in Nat
    BY <1>1, <2>1, CountedFinite, FS_EmptySet
  <2>3. QED BY <1>1, <1>4, <2>2 DEF VS!GuardCounts
<1>5. ASSUME NEW c \in Conns, VS!GuardPrunes(c) PROVE VS!TypeOK'
  BY <1>1, <1>5 DEF VS!GuardPrunes
<1>6. CASE VS!ShutdownFlag \/ VS!ShutdownStep
  BY <1>1, <1>6 DEF VS!ShutdownFlag, VS!ShutdownStep, VS!ShutdownDrain, VS!ShutdownJoin
<1>7. CASE VS!Closed \/ UNCHANGED VS!vars
  BY <1>1, <1>7 DEF VS!Closed, VS!vars
<1>8. QED
  BY <1>2, <1>3, <1>4, <1>5, <1>6, <1>7 DEF VS!Next, VS!GuardStep

\* The count goes up with a thread and down with its guard.
LEMMA CountStep ==
  ServerInv /\ [VS!Next]_VS!vars => active' = Cardinality(VS!Counted)'
<1> SUFFICES ASSUME ServerInv, [VS!Next]_VS!vars PROVE active' = Cardinality(VS!Counted)'
  OBVIOUS
<1>1. VS!TypeOK /\ VS!TypeOK' /\ InHand /\ active = Cardinality(VS!Counted)
  BY ServerTypeStep DEF ServerInv
<1>2. CASE UNCHANGED <<active, thread>>
  BY <1>1, <1>2 DEF VS!Counted
<1>3. CASE VS!Spawn
  <2>1. setup \in Conns /\ thread[setup] = "accepted"
    BY <1>1, <1>3 DEF VS!Spawn, InHand, VS!TypeOK
  <2>2. /\ active' = active + 1 /\ thread'[setup] = "serving"
        /\ \A d \in Conns : d # setup => thread'[d] = thread[d]
    BY <1>1, <1>3, <2>1 DEF VS!Spawn, VS!TypeOK
  <2>3. QED BY <1>1, <2>1, <2>2, CountMoves
<1>4. CASE VS!SpawnFails
  <2>1. setup \in Conns /\ thread[setup] = "accepted"
    BY <1>1, <1>4 DEF VS!SpawnFails, InHand, VS!TypeOK
  <2>2. /\ active' = active /\ thread'[setup] = "ended"
        /\ \A d \in Conns : d # setup => thread'[d] = thread[d]
    BY <1>1, <1>4, <2>1 DEF VS!SpawnFails, VS!TypeOK
  <2>3. QED BY <1>1, <2>1, <2>2, CountMoves
<1>5. ASSUME NEW c \in Conns, VS!Accept(c) \/ VS!Connect(c) \/ VS!ServeEnds(c)
      PROVE  active' = Cardinality(VS!Counted)'
  <2>1. /\ active' = active
        /\ thread[c] \in {"serving", "ending"} <=> thread'[c] \in {"serving", "ending"}
        /\ \A d \in Conns : d # c => thread'[d] = thread[d]
    BY <1>1, <1>5 DEF VS!Accept, VS!Connect, VS!ServeEnds, VS!Serving, VS!TypeOK
  <2>2. QED BY <1>1, <2>1, CountMoves
<1>6. ASSUME NEW c \in Conns, VS!GuardStep(c)
      PROVE  active' = Cardinality(VS!Counted)'
  <2>1. CASE VS!GuardCounts(c)
    <3>1. /\ thread[c] = "ending" /\ thread'[c] = "pruning" /\ active' = active - 1
          /\ \A d \in Conns : d # c => thread'[d] = thread[d]
      BY <1>1, <2>1 DEF VS!GuardCounts, VS!TypeOK
    <3>2. QED BY <1>1, <3>1, CountMoves
  <2>2. CASE VS!GuardPrunes(c)
    <3>1. /\ thread[c] = "pruning" /\ thread'[c] = "ended" /\ active' = active
          /\ \A d \in Conns : d # c => thread'[d] = thread[d]
      BY <1>1, <2>2 DEF VS!GuardPrunes, VS!TypeOK
    <3>2. QED BY <1>1, <3>1, CountMoves
  <2>3. QED BY <1>6, <2>1, <2>2 DEF VS!GuardStep
<1>7. CASE VS!CheckFlag \/ VS!WouldBlock \/ VS!AcceptFails \/ VS!Insert
  BY <1>2, <1>7 DEF VS!CheckFlag, VS!WouldBlock, VS!AcceptFails, VS!Insert
<1>8. CASE VS!ShutdownFlag \/ VS!ShutdownStep \/ VS!Closed \/ UNCHANGED VS!vars
  BY <1>2, <1>8
  DEF VS!ShutdownFlag, VS!ShutdownStep, VS!ShutdownDrain, VS!ShutdownJoin, VS!Closed, VS!vars
<1>9. ASSUME NEW c \in Conns, VS!ViewerLeaves(c) PROVE active' = Cardinality(VS!Counted)'
  BY <1>2, <1>9 DEF VS!ViewerLeaves
<1>10. QED
  BY <1>3, <1>4, <1>5, <1>6, <1>7, <1>8, <1>9 DEF VS!Next, VS!AcceptStep

LEMMA ServerStep == ServerInv /\ [VS!Next]_VS!vars => ServerInv'
<1> SUFFICES ASSUME ServerInv, [VS!Next]_VS!vars PROVE ServerInv'
  OBVIOUS
<1> DEFINE Entries == \A c \in conns : c = setup \/ thread[c] \in {"serving", "ending", "pruning"}
           All     == InHand' /\ MapHasServed' /\ OneMore' /\ Entries'
<1>1. VS!TypeOK' /\ active' = Cardinality(VS!Counted)'
  BY ServerTypeStep, CountStep
<1>2. VS!TypeOK /\ InHand /\ MapHasServed /\ OneMore /\ Entries
  BY DEF ServerInv
<1> USE ViewAssumption
    DEF VS!ViewServerAssumption, VS!TypeOK, InHand, MapHasServed, OneMore, Strays, VS!Serving
<1>3. ASSUME VS!CheckFlag \/ VS!WouldBlock \/ VS!AcceptFails \/ VS!Insert PROVE All
  BY <1>2, <1>3 DEF VS!CheckFlag, VS!WouldBlock, VS!AcceptFails, VS!Insert
<1>4. ASSUME NEW c \in Conns, VS!Accept(c) \/ VS!Connect(c) PROVE All
  BY <1>2, <1>4 DEF VS!Accept, VS!Connect
<1>5. ASSUME VS!Spawn PROVE All
  BY <1>2, <1>5 DEF VS!Spawn
<1>6. ASSUME VS!SpawnFails PROVE All
  BY <1>2, <1>6 DEF VS!SpawnFails
<1>7. ASSUME NEW c \in Conns, VS!ViewerLeaves(c) \/ VS!ServeEnds(c) PROVE All
  BY <1>2, <1>7 DEF VS!ViewerLeaves, VS!ServeEnds
<1>8. ASSUME NEW c \in Conns, VS!GuardStep(c) PROVE All
  BY <1>2, <1>8 DEF VS!GuardStep, VS!GuardCounts, VS!GuardPrunes
<1>9. ASSUME VS!ShutdownFlag \/ VS!ShutdownJoin PROVE All
  BY <1>2, <1>9 DEF VS!ShutdownFlag, VS!ShutdownJoin
<1>10. ASSUME VS!ShutdownDrain PROVE All
  BY <1>2, <1>10 DEF VS!ShutdownDrain
<1>11. ASSUME VS!Closed \/ UNCHANGED VS!vars PROVE All
  BY <1>2, <1>11 DEF VS!Closed, VS!vars
<1>12. All
  BY <1>3, <1>4, <1>5, <1>6, <1>7, <1>8, <1>9, <1>10, <1>11
  DEF VS!Next, VS!AcceptStep, VS!ShutdownStep
<1>13. QED BY <1>1, <1>12 DEF ServerInv

LEMMA ServerSafe == ServerInv => VS!ConnsAccounted
<1> SUFFICES ASSUME ServerInv PROVE VS!GuardExact /\ VS!OneStraggler
  BY DEF VS!ConnsAccounted
<1>1. VS!GuardExact
  BY SameCardinality DEF ServerInv, VS!GuardExact, MapHasServed
<1>2. VS!OneStraggler
  <2> SUFFICES ASSUME closing = "closed" PROVE Cardinality(Strays) <= 1
    BY SameCardinality DEF VS!OneStraggler, Strays
  <2>1. \A c, d \in Strays : c = d
    BY DEF ServerInv, OneMore
  <2>2. CASE Strays = {}
    BY <2>2, FS_EmptySet
  <2>3. ASSUME NEW c \in Strays PROVE Cardinality(Strays) <= 1
    <3>1. Strays = {c} BY <2>1, <2>3
    <3>2. QED BY <3>1, FS_Singleton
  <2>4. QED BY <2>2, <2>3
<1>3. QED BY <1>1, <1>2

-----------------------------------------------------------------------------
(* The viewer's hand.                                                       *)

\* The anchor is there while the left button is down; and with the button up
\* the guest's pointer is where the viewer's was last seen, but after a click
\* that was released beside it.
PointerInv ==
  /\ lastMask \in SUBSET HD!Buttons /\ guest \in Columns
  /\ astray = {} \/ \E x \in Columns : astray = {x}
  /\ wheeled = {} \/ \E x \in Columns : wheeled = {x}
  /\ lastPos = {} \/ \E x \in Columns : lastPos = {x}
  /\ leftDownAt = {} \/ \E x \in Columns : leftDownAt = {x}
  /\ "left" \in lastMask <=> leftDownAt # {}
  /\ "left" \notin lastMask /\ lastPos # {} =>
       {guest} = IF astray = {} THEN lastPos ELSE astray
  /\ lastPos = {} => astray = {}
  /\ HD!AnchorHeld

\* The flags that are up are those of the modifiers that are held, but for the
\* split pairs.
KeyInv ==
  /\ mods \in SUBSET {"shift", "ctrl"} /\ split \in SUBSET {"shift", "ctrl"}
  /\ down \in SUBSET HD!Keys
  /\ mods = HD!HeldModifiers \ split
  /\ split \subseteq HD!HeldModifiers

HandInv == PointerInv /\ KeyInv /\ HD!ChordAsHeld

LEMMA HandInit == HD!Init => HandInv
BY DEF HD!Init, HandInv, PointerInv, KeyInv, HD!HeldModifiers, HD!AnchorHeld, HD!ChordAsHeld,
       HD!Pressed

LEMMA SameHandCardinality == \A S : HD!Cardinality(S) = Cardinality(S)
<1>1. \A S : HD!IsFiniteSet(S) <=> IsFiniteSet(S)
  BY DEF HD!IsFiniteSet, IsFiniteSet
<1>2. QED BY <1>1 DEF HD!Cardinality, Cardinality

(* A pointer event keeps the anchor, and the guest's pointer near the       *)
(* viewer's, whatever buttons it changes at once.                           *)
LEMMA PointerStep ==
  ASSUME PointerInv, NEW mask \in SUBSET HD!Buttons, NEW x \in Columns,
         HD!PointerEvent(mask, x)
  PROVE  PointerInv'
<1> DEFINE anchor   == IF leftDownAt = {} THEN x ELSE CHOOSE a \in leftDownAt : TRUE
           scrolled == IF "wheel" \in mask \ lastMask THEN x ELSE guest
<1>1. /\ PointerInv /\ HD!AnchorHeld
      /\ lastMask' = mask /\ lastPos' = {x}
      /\ "left" \in lastMask => leftDownAt = {anchor} /\ anchor \in Columns
  BY DEF HD!PointerEvent, PointerInv
<1> HIDE DEF anchor
<1>2. CASE "left" \in mask \ lastMask
  <2>1. /\ leftDownAt' = {x} /\ guest' = (IF {x} # lastPos THEN x ELSE scrolled)
        /\ astray' = (IF "wheel" \in mask \ lastMask THEN {}
                      ELSE IF {x} = lastPos THEN astray ELSE {})
        /\ wheeled' = {}
    BY <1>2 DEF HD!PointerEvent
  <2>2. QED BY <1>1, <1>2, <2>1 DEF PointerInv, HD!AnchorHeld, HD!Start
<1>3. CASE "left" \in lastMask \ mask
  <2>1. /\ leftDownAt' = {} /\ wheeled' = {}
        /\ guest' = (IF HD!Far(x, anchor) THEN x ELSE scrolled)
    BY <1>3 DEF HD!PointerEvent, anchor
  <2>2. HD!Start = {guest} /\ guest \in Columns
    BY <1>1, <1>3 DEF PointerInv, HD!AnchorHeld
  <2>3. astray' = IF "wheel" \in mask \ lastMask THEN {}
                  ELSE IF HD!Far(x, anchor) \/ guest = x THEN {} ELSE {guest}
    <3>1. HD!Start = {x} <=> guest = x BY <2>2
    <3>2. CASE HD!Far(x, anchor)
      BY <1>3, <2>2, <3>1, <3>2 DEF HD!PointerEvent, anchor
    <3>3. CASE ~HD!Far(x, anchor)
      BY <1>3, <2>2, <3>1, <3>3 DEF HD!PointerEvent, anchor
    <3>4. QED BY <3>2, <3>3
  <2>4. {guest'} = IF astray' = {} THEN {x} ELSE astray'
    BY <2>1, <2>3
  <2>5. astray' = {} \/ astray' = {guest}
    BY <2>3
  <2>6. QED BY <1>1, <1>3, <2>1, <2>2, <2>4, <2>5 DEF PointerInv, HD!AnchorHeld
<1>4. CASE "left" \in lastMask <=> "left" \in mask
  <2>1. /\ leftDownAt' = leftDownAt
        /\ guest' = (IF HD!Follows(mask, x) THEN x ELSE scrolled)
        /\ astray' = (IF "left" \in mask THEN astray
                      ELSE IF "wheel" \in mask \ lastMask THEN {}
                      ELSE IF {x} = lastPos THEN astray ELSE {})
        /\ wheeled' = (IF "left" \notin mask THEN {}
                       ELSE IF "wheel" \in mask \ lastMask THEN {x} ELSE wheeled)
    BY <1>4 DEF HD!PointerEvent
  <2>2. QED BY <1>1, <1>4, <2>1 DEF PointerInv, HD!AnchorHeld, HD!Follows, HD!Start
<1>5. QED BY <1>2, <1>3, <1>4

(* A modifier key changes what is held, what is up and what is split        *)
(* together; any other key is passed with what is up.                       *)
LEMMA KeyStep ==
  ASSUME KeyInv, NEW k \in HD!Keys, NEW isDown \in BOOLEAN, HD!KeyEvent(k, isDown)
  PROVE  KeyInv' /\ HD!ChordAsHeld'
<1> DEFINE M == DOMAIN HD!Modifiers
           m == HD!Modifiers[k]
<1>1. /\ M = {"Shift_L", "Shift_R", "Control_L"}
      /\ \A j \in M : HD!Modifiers[j] \in {"shift", "ctrl"}
      /\ M \cap (HD!Named \cup HD!Characters) = {}
  BY DEF HD!Modifiers, HD!Named, HD!Characters
<1>2. down' = (IF isDown THEN down \cup {k} ELSE down \ {k}) /\ (isDown \/ k \in down)
  BY DEF HD!KeyEvent
<1>3. down' \in SUBSET HD!Keys
  BY <1>2 DEF KeyInv
<1>4. CASE k \in M
  <2>1. /\ acted' = {} /\ mods' = (IF isDown THEN mods \cup {m} ELSE mods \ {m})
        /\ split' = IF ~isDown /\ \E other \in (down \ {k}) \cap M : HD!Modifiers[other] = m
                    THEN split \cup {m} ELSE split \ {m}
    BY <1>4 DEF HD!KeyEvent, HD!Modifier
  <2>2. HD!ChordAsHeld'
    BY <2>1 DEF HD!ChordAsHeld, HD!Pressed
  <2>3. m \in {"shift", "ctrl"}
    BY <1>1, <1>4
  <2>4. HD!HeldModifiers = {HD!Modifiers[j] : j \in down \cap M}
        /\ HD!HeldModifiers' = {HD!Modifiers[j] : j \in down' \cap M}
    BY DEF HD!HeldModifiers
  <2> HIDE DEF m, M
  <2>5. CASE isDown
    <3>1. HD!HeldModifiers' = HD!HeldModifiers \cup {m}
      BY <1>2, <1>4, <2>4, <2>5 DEF m
    <3> QED BY <1>3, <2>1, <2>2, <2>3, <2>5, <3>1 DEF KeyInv
  <2>6. CASE ~isDown /\ \E other \in (down \ {k}) \cap M : HD!Modifiers[other] = m
    <3>1. HD!HeldModifiers' = HD!HeldModifiers /\ m \in HD!HeldModifiers
      BY <1>2, <1>4, <2>4, <2>6 DEF m
    <3> QED BY <1>3, <2>1, <2>2, <2>3, <2>6, <3>1 DEF KeyInv
  <2>7. CASE ~isDown /\ ~\E other \in (down \ {k}) \cap M : HD!Modifiers[other] = m
    <3>1. HD!HeldModifiers' = HD!HeldModifiers \ {m}
      BY <1>2, <1>4, <2>4, <2>7 DEF m
    <3> QED BY <1>3, <2>1, <2>2, <2>3, <2>7, <3>1 DEF KeyInv
  <2> QED BY <2>5, <2>6, <2>7
<1>5. CASE k \notin M
  <2>1. /\ acted' = (IF isDown /\ k \notin HD!Unmapped THEN HD!Chord(k) ELSE {})
        /\ UNCHANGED <<mods, split>>
    BY <1>5 DEF HD!KeyEvent
  <2>2. down' \cap M = down \cap M
    BY <1>2, <1>5
  <2>3. HD!HeldModifiers' = HD!HeldModifiers
    BY <2>2 DEF HD!HeldModifiers
  <2>4. KeyInv'
    BY <1>3, <2>1, <2>3 DEF KeyInv
  <2>5. ASSUME NEW j \in HD!Pressed'
        PROVE  /\ j = k /\ k \in down'
               /\ acted' = {k} \cup ((HD!HeldModifiers' \ split')
                                       \ (IF k \in HD!Named THEN {} ELSE {"shift"}))
    <3>1. isDown /\ acted' = HD!Chord(k) /\ j \in acted' /\ j \in {"Tab", "a"}
      BY <2>1, <2>5 DEF HD!Pressed, HD!Named, HD!Characters
    <3>2. mods \subseteq {"shift", "ctrl"}
      BY DEF KeyInv
    <3>3. j = k
      BY <3>1, <3>2 DEF HD!Chord
    <3>4. mods = HD!HeldModifiers' \ split'
      BY <2>1, <2>3 DEF KeyInv
    <3> QED BY <1>2, <3>1, <3>3, <3>4 DEF HD!Chord
  <2> QED BY <2>4, <2>5 DEF HD!ChordAsHeld
<1> QED BY <1>4, <1>5

LEMMA HandStep ==
  HandInv /\ (HD!PointerNext \/ HD!KeyNext \/ UNCHANGED handVars) => HandInv'
<1> SUFFICES ASSUME HandInv, HD!PointerNext \/ HD!KeyNext \/ UNCHANGED handVars
             PROVE  HandInv'
  OBVIOUS
<1>1. PointerInv /\ KeyInv /\ HD!ChordAsHeld BY DEF HandInv
<1>2. CASE HD!PointerNext
  <2>1. PICK mask \in HD!Masks, x \in Columns : HD!PointerEvent(mask, x)
    BY <1>2 DEF HD!PointerNext
  <2>2. mask \in SUBSET HD!Buttons BY DEF HD!Masks
  <2>3. PointerInv' BY <1>1, <2>1, <2>2, PointerStep
  <2>4. KeyInv'
    BY <1>1, <2>1 DEF HD!PointerEvent, HD!keyVars, KeyInv, HD!HeldModifiers
  <2>5. acted' \subseteq HD!Buttons \cup {"drag"}
    BY <2>1, <1>1 DEF HD!PointerEvent, PointerInv
  <2>6. HD!ChordAsHeld'
    BY <2>5 DEF HD!ChordAsHeld, HD!Pressed, HD!Buttons, HD!Named, HD!Characters
  <2>7. QED BY <2>3, <2>4, <2>6 DEF HandInv
<1>3. CASE HD!KeyNext
  <2>1. PICK k \in HD!Keys, isDown \in BOOLEAN : HD!KeyEvent(k, isDown)
    BY <1>3 DEF HD!KeyNext
  <2>2. KeyInv' /\ HD!ChordAsHeld' BY <1>1, <2>1, KeyStep
  <2>3. UNCHANGED HD!pointerVars BY <2>1 DEF HD!KeyEvent
  <2>4. PointerInv' BY <1>1, <2>3 DEF HD!pointerVars, PointerInv, HD!AnchorHeld, HD!Start
  <2>5. QED BY <2>2, <2>4 DEF HandInv
<1>4. CASE UNCHANGED handVars
  BY <1>1, <1>4
  DEF handVars, HandInv, PointerInv, KeyInv, HD!HeldModifiers, HD!AnchorHeld, HD!ChordAsHeld,
      HD!Start, HD!Pressed
<1>5. QED BY <1>2, <1>3, <1>4

-----------------------------------------------------------------------------
(* One connection.                                                          *)

\* What the writer noted before its capture is still at the head of the
\* queue, and the capture saw all of it.
NotedHolds ==
  writer \in {"capture", "compare", "send", "mark"} =>
    /\ noted.n <= Len(asks)
    /\ noted.incr => \A i \in 1..noted.n : ~asks[i]
CapturedLater ==
  /\ writer \in {"compare", "send", "mark"} => noted.n <= arrived /\ frame \in Frames
  /\ writer = "mark" => shown = frame

ThreadsTyped ==
  /\ reader \in {"handshake", "reading", "leaving", "joining", "over"}
  /\ writer \in {"none", "look", "parking", "parked", "capture", "compare",
                 "send", "mark", "done"}
  /\ alive \in BOOLEAN /\ stalled \in BOOLEAN
  /\ socket \in {"open", "left", "shut"} /\ session \in {"up", "down"}
Notings == [n : 0..MaxAsks, incr : BOOLEAN]
QueueTyped ==
  /\ asks \in Seq(BOOLEAN) /\ Len(asks) <= MaxAsks /\ incr \in BOOLEAN
  /\ noted \in Notings /\ arrived \in 0..MaxAsks
FramesTyped ==
  /\ {frame, lastPng, last, shown} \subseteq Frames \cup {Blank}
  /\ screen \in Frames

ConnInv ==
  /\ ThreadsTyped /\ QueueTyped /\ FramesTyped /\ NotedHolds /\ CapturedLater
  /\ shown = last
  /\ incr => \A i \in 1..Len(asks) : ~asks[i]

LEMMA ConnTyped == ThreadsTyped /\ QueueTyped /\ FramesTyped => TypeOK
BY DEF ThreadsTyped, QueueTyped, FramesTyped, TypeOK, Notings

LEMMA NotedTyped ==
  /\ Nothing \in Notings
  /\ QueueTyped => [n |-> Len(asks), incr |-> incr] \in Notings
<1>1. 0 \in 0..MaxAsks BY ViewConnAssumption
<1>2. QueueTyped => Len(asks) \in 0..MaxAsks /\ incr \in BOOLEAN
  BY ViewConnAssumption DEF QueueTyped
<1>3. \A n \in 0..MaxAsks, b \in BOOLEAN :
        [n |-> n, incr |-> b] \in Notings
  BY Zenon DEF Notings
<1>4. QED BY <1>1, <1>2, <1>3, Zenon DEF Nothing

LEMMA ConnInit == Init => ConnInv
<1> SUFFICES ASSUME Init PROVE ConnInv
  OBVIOUS
<1> USE ViewConnAssumption DEF Init
<1>1. ThreadsTyped BY DEF ThreadsTyped
<1>2. QueueTyped BY NotedTyped DEF QueueTyped
<1>3. FramesTyped BY DEF FramesTyped
<1>4. NotedHolds /\ CapturedLater BY DEF NotedHolds, CapturedLater
<1>5. shown = last /\ \A i \in 1..Len(asks) : ~asks[i]
  OBVIOUS
<1>6. QED BY <1>1, <1>2, <1>3, <1>4, <1>5 DEF ConnInv

(* The requests that Mark takes out of the queue are those noted.           *)
LEMMA MarkTakes ==
  ASSUME QueueTyped, NotedHolds, Mark
  PROVE  /\ noted.n \in 0..Len(asks)
         /\ asks' \in Seq(BOOLEAN) /\ Len(asks') = Len(asks) - noted.n
         /\ \A i \in 1..Len(asks') : asks'[i] = asks[noted.n + i]
<1> DEFINE n == noted.n
<1>1. asks \in Seq(BOOLEAN) /\ n \in Nat /\ n <= Len(asks)
  <2>1. writer \in {"capture", "compare", "send", "mark"} BY DEF Mark
  <2>2. n \in 0..MaxAsks BY DEF QueueTyped, Notings
  <2>3. n \in Nat BY <2>2
  <2>4. QED BY <2>1, <2>3 DEF NotedHolds, QueueTyped
<1>2. asks' = SubSeq(asks, n + 1, Len(asks))
  BY DEF Mark
<1> HIDE DEF n
<1>3. n + 1 \in 1..Len(asks) + 1 /\ Len(asks) \in (n + 1) - 1..Len(asks)
  BY <1>1
<1>4. /\ asks' \in Seq(BOOLEAN)
      /\ Len(asks') = Len(asks) - (n + 1) + 1
      /\ \A i \in 1..Len(asks') : asks'[i] = asks[n + 1 + i - 1]
  BY <1>1, <1>2, <1>3, SubSeqProperties
<1>5. /\ Len(asks') = Len(asks) - n
      /\ \A i \in 1..Len(asks') : asks'[i] = asks[n + i]
  BY <1>1, <1>4
<1>6. QED BY <1>1, <1>4, <1>5 DEF n

\* The steps of Next, of which most leave the queue and the frames alone.
QuietStep ==
  \/ Handshake \/ HandshakeFails \/ DispatchFails \/ ReaderLeaves \/ ReaderKills
  \/ ReaderJoins \/ Park \/ ViewerStalls \/ SocketCloses \/ SessionEnds \/ Over
  \/ UNCHANGED vars
IdleStep == CaptureUnusable \/ CaptureFails \/ SendFails \/ (Compare /\ Unchanged)

LEMMA ConnSteps ==
  [Next]_vars =>
    \/ QuietStep \/ IdleStep \/ Paint \/ Look \/ CaptureScreen \/ Send \/ Mark
    \/ (Compare /\ ~Unchanged)
    \/ \E full \in BOOLEAN : Ask(full)
BY DEF Next, WriterStep, QuietStep, IdleStep

LEMMA QuietKeeps ==
  QuietStep =>
    /\ UNCHANGED <<asks, incr, local, drawn, screen>>
    /\ writer' \in {"capture", "compare", "send", "mark"} => writer' = writer
BY DEF QuietStep, Handshake, HandshakeFails, DispatchFails, ReaderLeaves, ReaderKills,
       ReaderJoins, Park, ViewerStalls, SocketCloses, SessionEnds, Over, vars, Kill,
       Woken, peers

LEMMA IdleForgets ==
  IdleStep =>
    /\ UNCHANGED <<asks, incr, last, shown, screen>> /\ lastPng' \in {lastPng, frame}
    /\ noted' = Nothing /\ frame' = Blank /\ arrived' = 0
    /\ writer' \in {"look", "done"}
BY DEF IdleStep, CaptureUnusable, CaptureFails, SendFails, Compare, Forget, drawn, peers

LEMMA LookNotes ==
  Look =>
    /\ writer' \in {"done", "parking", "capture"}
    /\ writer' = "capture" => noted' = [n |-> Len(asks), incr |-> incr]
    /\ writer' # "capture" => noted' = noted
    /\ UNCHANGED <<reader, alive, asks, incr, frame, arrived, lastPng, last, shown, screen>>
    /\ UNCHANGED peers
<1> SUFFICES ASSUME Look
             PROVE  /\ writer' \in {"done", "parking", "capture"}
                    /\ writer' = "capture" => noted' = [n |-> Len(asks), incr |-> incr]
                    /\ writer' # "capture" => noted' = noted
  BY DEF Look, drawn, peers
<1>1. CASE ~alive
  <2>1. writer' = "done" /\ UNCHANGED noted BY <1>1, Zenon DEF Look
  <2>2. QED BY <2>1
<1>2. CASE alive /\ asks = <<>>
  <2>1. writer' = "parking" /\ UNCHANGED noted BY <1>2, Zenon DEF Look
  <2>2. QED BY <2>1
<1>3. CASE alive /\ asks # <<>>
  <2>1. writer' = "capture" /\ noted' = [n |-> Len(asks), incr |-> incr]
    BY <1>3, Zenon DEF Look
  <2>2. QED BY <2>1
<1>4. QED BY <1>1, <1>2, <1>3

LEMMA ThreadsStep == ThreadsTyped /\ [Next]_vars => ThreadsTyped'
<1> SUFFICES ASSUME ThreadsTyped, [Next]_vars PROVE ThreadsTyped'
  OBVIOUS
<1> USE DEF ThreadsTyped, peers
<1>1. ASSUME QuietStep PROVE ThreadsTyped'
  BY <1>1
  DEF QuietStep, Handshake, HandshakeFails, DispatchFails, ReaderLeaves, ReaderKills,
      ReaderJoins, Park, ViewerStalls, SocketCloses, SessionEnds, Over, vars, Kill, Woken
<1>2. ASSUME NEW full \in BOOLEAN, Ask(full) PROVE ThreadsTyped'
  BY <1>2 DEF Ask, Woken
<1>3. ASSUME IdleStep \/ Paint \/ CaptureScreen \/ Send \/ Mark \/ Compare
      PROVE  ThreadsTyped'
  BY <1>3
  DEF IdleStep, CaptureUnusable, CaptureFails, SendFails, Paint, CaptureScreen, Send,
      Mark, Compare
<1>4. ASSUME Look PROVE ThreadsTyped'
  BY <1>4, LookNotes
<1>5. QED BY <1>1, <1>2, <1>3, <1>4, ConnSteps

LEMMA QueueStep == QueueTyped /\ NotedHolds /\ [Next]_vars => QueueTyped'
<1> SUFFICES ASSUME QueueTyped, NotedHolds, [Next]_vars PROVE QueueTyped'
  OBVIOUS
<1> USE ViewConnAssumption DEF QueueTyped
<1>1. ASSUME QuietStep PROVE QueueTyped'
  BY <1>1, QuietKeeps DEF local
<1>2. ASSUME IdleStep PROVE QueueTyped'
  BY <1>2, IdleForgets, NotedTyped
<1>3. ASSUME NEW full \in BOOLEAN, Ask(full) PROVE QueueTyped'
  BY <1>3 DEF Ask, local
<1>4. ASSUME Look PROVE QueueTyped'
  <2>1. noted' \in Notings
    BY <1>4, LookNotes, NotedTyped
  <2>2. QED BY <1>4, <2>1, LookNotes
<1>5. ASSUME CaptureScreen PROVE QueueTyped'
  BY <1>5 DEF CaptureScreen
<1>6. ASSUME Mark PROVE QueueTyped'
  <2>1. /\ asks' \in Seq(BOOLEAN) /\ Len(asks') <= MaxAsks
        /\ noted' \in Notings /\ arrived' = 0
    BY <1>6, MarkTakes, NotedTyped DEF Mark, Forget
  <2>2. incr' \in BOOLEAN
    BY <1>6 DEF Mark
  <2>3. QED BY <2>1, <2>2
<1>7. ASSUME Paint \/ Send \/ (Compare /\ ~Unchanged) PROVE QueueTyped'
  BY <1>7 DEF Paint, Send, Compare, local
<1>8. QED BY <1>1, <1>2, <1>3, <1>4, <1>5, <1>6, <1>7, ConnSteps

(* An update, full or incremental, makes the viewer's picture the frame.    *)
LEMMA SendShows == FramesTyped /\ CapturedLater /\ shown = last /\ Send => shown' = frame
<1> SUFFICES ASSUME FramesTyped, CapturedLater, shown = last, Send PROVE shown' = frame
  OBVIOUS
<1>1. frame \in Frames BY DEF CapturedLater, Send
<1>2. \A t \in Tiles : t \notin Rects => shown[t] = frame[t]
  BY DEF Rects
<1>3. shown' = [t \in Tiles |-> frame[t]]
  BY <1>2 DEF Send
<1>4. QED BY <1>1, <1>3 DEF Frames

LEMMA FramesStep ==
  FramesTyped /\ CapturedLater /\ shown = last /\ [Next]_vars =>
    FramesTyped' /\ shown' = last'
<1> SUFFICES ASSUME FramesTyped, CapturedLater, shown = last, [Next]_vars
             PROVE  FramesTyped' /\ shown' = last'
  OBVIOUS
<1> USE DEF FramesTyped, local, drawn, peers
<1>1. ASSUME QuietStep PROVE FramesTyped' /\ shown' = last'
  BY <1>1, QuietKeeps
<1>2. ASSUME IdleStep PROVE FramesTyped' /\ shown' = last'
  <2>1. frame' = Blank /\ lastPng' \in {lastPng, frame} /\ UNCHANGED <<last, shown, screen>>
    BY <1>2, IdleForgets
  <2>2. QED BY <2>1
<1>3. ASSUME Send PROVE FramesTyped' /\ shown' = last'
  <2>1. shown' = frame BY <1>3, SendShows
  <2>2. QED BY <1>3, <2>1 DEF Send
<1>4. ASSUME Mark PROVE FramesTyped' /\ shown' = last'
  BY <1>4 DEF Mark, Forget
<1>5. ASSUME Paint \/ Look \/ CaptureScreen \/ (Compare /\ ~Unchanged)
      PROVE  FramesTyped' /\ shown' = last'
  BY <1>5, LookNotes DEF Paint, CaptureScreen, Compare
<1>6. ASSUME NEW full \in BOOLEAN, Ask(full) PROVE FramesTyped' /\ shown' = last'
  BY <1>6 DEF Ask
<1>7. QED BY <1>1, <1>2, <1>3, <1>4, <1>5, <1>6, ConnSteps

(* Requests that arrive go to the tail, so what was noted stays the head.   *)
LEMMA QueueKept ==
  ASSUME QueueTyped, NotedHolds, shown = last, FramesTyped, CapturedLater,
         incr => \A i \in 1..Len(asks) : ~asks[i],
         [Next]_vars
  PROVE  /\ NotedHolds' /\ CapturedLater'
         /\ incr' => \A i \in 1..Len(asks') : ~asks'[i]
<1> DEFINE Plain == incr => \A i \in 1..Len(asks) : ~asks[i]
           All == NotedHolds' /\ CapturedLater' /\ Plain'
<1>1. /\ NotedHolds /\ CapturedLater /\ Plain
      /\ asks \in Seq(BOOLEAN) /\ Len(asks) \in Nat /\ noted.n \in Nat
  <2>1. noted.n \in 0..MaxAsks BY DEF QueueTyped, Notings
  <2>2. QED BY <2>1 DEF QueueTyped
<1> USE DEF NotedHolds, CapturedLater
<1>2. ASSUME QuietStep PROVE All
  BY <1>1, <1>2, QuietKeeps DEF local, drawn
<1>3. ASSUME IdleStep PROVE All
  BY <1>1, <1>3, IdleForgets
<1>4. ASSUME NEW full \in BOOLEAN, Ask(full) PROVE All
  <2>1. /\ asks' = Append(asks, full) /\ incr' = (incr /\ ~full)
        /\ UNCHANGED <<noted, frame, arrived, shown>>
        /\ writer' \in {"capture", "compare", "send", "mark"} => writer' = writer
    BY <1>4 DEF Ask, Woken, local, drawn
  <2>2. /\ Len(asks') = Len(asks) + 1
        /\ \A i \in 1..Len(asks) : asks'[i] = asks[i]
        /\ asks'[Len(asks) + 1] = full
    BY <1>1, <2>1
  <2>3. NotedHolds' BY <1>1, <2>1, <2>2
  <2>4. CapturedLater' BY <1>1, <2>1
  <2>5. ASSUME incr', NEW i \in 1..Len(asks') PROVE ~asks'[i]
    <3>1. incr /\ ~full BY <2>1, <2>5, Zenon
    <3>2. \A j \in 1..Len(asks) : ~asks[j] BY <1>1, <3>1
    <3>3. CASE i = Len(asks) + 1 BY <2>2, <3>1, <3>3
    <3>4. CASE i \in 1..Len(asks) BY <2>2, <3>2, <3>4
    <3>5. QED BY <1>1, <2>2, <2>5, <3>3, <3>4
  <2>6. QED BY <2>3, <2>4, <2>5
<1>5. ASSUME Look PROVE All
  <2>1. CapturedLater' /\ Plain' BY <1>1, <1>5, LookNotes
  <2>2. writer' = "capture" => noted'.n = Len(asks) /\ noted'.incr = incr
    BY <1>5, LookNotes
  <2>3. NotedHolds' BY <1>1, <1>5, <2>2, LookNotes
  <2>4. QED BY <2>1, <2>3
<1>6. ASSUME CaptureScreen PROVE All
  BY <1>1, <1>6 DEF CaptureScreen, FramesTyped, drawn
<1>7. ASSUME Send PROVE All
  BY <1>1, <1>7, SendShows DEF Send, local
<1>8. ASSUME Mark PROVE All
  <2>1. NotedHolds' /\ CapturedLater' BY <1>8 DEF Mark
  <2>2. /\ Len(asks') = Len(asks) - noted.n
        /\ \A i \in 1..Len(asks') : asks'[i] = asks[noted.n + i]
    BY <1>8, MarkTakes
  <2>3. Plain'
    <3>1. CASE incr
      BY <1>1, <2>2, <3>1
    <3>2. CASE ~incr
      <4>1. incr' => Len(asks) = noted.n BY <1>8, <3>2, Zenon DEF Mark
      <4>2. incr' => Len(asks') = 0 BY <1>1, <2>2, <4>1
      <4>3. QED BY <4>2
    <3>3. QED BY <3>1, <3>2
  <2>4. QED BY <2>1, <2>3
<1>9. ASSUME Paint \/ (Compare /\ ~Unchanged) PROVE All
  BY <1>1, <1>9 DEF Paint, Compare, local, drawn
<1>10. All
  BY <1>2, <1>3, <1>4, <1>5, <1>6, <1>7, <1>8, <1>9, ConnSteps
<1>11. QED BY <1>10

LEMMA ConnStep == ConnInv /\ [Next]_vars => ConnInv'
<1> SUFFICES ASSUME ConnInv, [Next]_vars PROVE ConnInv'
  OBVIOUS
<1>1. /\ ThreadsTyped /\ QueueTyped /\ FramesTyped /\ NotedHolds /\ CapturedLater
      /\ shown = last
      /\ incr => \A i \in 1..Len(asks) : ~asks[i]
  BY DEF ConnInv
<1>2. ThreadsTyped' /\ QueueTyped' /\ FramesTyped' /\ shown' = last'
  BY <1>1, ThreadsStep, QueueStep, FramesStep
<1>3. /\ NotedHolds' /\ CapturedLater'
      /\ incr' => \A i \in 1..Len(asks') : ~asks'[i]
  BY <1>1, QueueKept
<1>4. QED BY <1>2, <1>3 DEF ConnInv

\* The step that ServedByLaterFrame asks for.
Serves ==
  LET served == Len(asks) - Len(asks')
  IN served > 0 =>
       /\ served <= arrived
       /\ shown = frame
       /\ (\E i \in 1..served : asks[i]) => ~noted.incr

(* Only Mark serves, and what it serves was there before the capture.       *)
LEMMA OnlyMarkServes == ConnInv /\ [Next]_vars => Serves
<1> SUFFICES ASSUME ConnInv, [Next]_vars PROVE Serves
  OBVIOUS
<1>1. /\ QueueTyped /\ NotedHolds /\ CapturedLater
      /\ asks \in Seq(BOOLEAN) /\ Len(asks) \in Nat
  BY DEF ConnInv, QueueTyped
<1>2. CASE Mark
  <2>1. writer = "mark" /\ Len(asks) - Len(asks') = noted.n /\ noted.n \in Nat
    BY <1>1, <1>2, MarkTakes DEF Mark
  <2>2. noted.n <= arrived /\ shown = frame
    BY <1>1, <2>1 DEF CapturedLater
  <2>3. (\E i \in 1..noted.n : asks[i]) => ~noted.incr
    BY <1>1, <2>1 DEF NotedHolds
  <2>4. QED BY <2>1, <2>2, <2>3 DEF Serves
<1>3. ASSUME NEW full \in BOOLEAN, Ask(full) PROVE Serves
  <2>1. Len(asks') = Len(asks) + 1 BY <1>1, <1>3 DEF Ask
  <2>2. QED BY <1>1, <2>1 DEF Serves
<1>4. ASSUME QuietStep \/ IdleStep \/ Paint \/ Look \/ CaptureScreen \/ Send \/ Compare
      PROVE  Serves
  <2>1. asks' = asks
    BY <1>4, QuietKeeps, IdleForgets, LookNotes DEF Paint, CaptureScreen, Send, Compare
  <2>2. QED BY <1>1, <2>1 DEF Serves
<1>5. QED BY <1>2, <1>3, <1>4, ConnSteps

-----------------------------------------------------------------------------
(* The rectangles of an update.  Screens are covered by tiles, row by row,  *)
(* and what the rectangles cover grows with the tiles passed.               *)

LEMMA RoundedUp ==
  ASSUME NEW n \in Nat, NEW d \in Nat \ {0}
  PROVE  LET k == (n + d - 1) \div d
         IN k \in Nat /\ n <= k * d /\ k * d < n + d
<1> DEFINE m == n + d - 1
           k == m \div d
<1>1. m \in Nat OBVIOUS
<1>2. k \in Int /\ k >= 0 BY <1>1
<1>3. d * k <= m /\ m < d * k + d BY <1>1
<1>4. QED BY <1>2, <1>3

\* How far n pixels are covered after each of the tiles.
Reach(n, tile) ==
  LET edges == RF!Edges(n, tile)
  IN [i \in 0..Len(edges) |-> IF i = 0 THEN 0
                              ELSE edges[i] + RF!Smaller(tile, n - edges[i])]

LEMMA TilesCover ==
  ASSUME NEW n \in Nat, NEW tile \in Nat \ {0}
  PROVE  LET edges == RF!Edges(n, tile)
             reach == Reach(n, tile)
             N     == Len(edges)
         IN /\ N \in Nat /\ edges \in [1..N -> Nat]
            /\ reach \in [0..N -> 0..n] /\ reach[0] = 0 /\ reach[N] = n
            /\ \A i \in 1..N : /\ edges[i] = reach[i - 1] /\ edges[i] < reach[i]
                               /\ reach[i] = edges[i] + RF!Smaller(tile, n - edges[i])
<1> DEFINE edges == RF!Edges(n, tile)
           reach == Reach(n, tile)
           K == (n + tile - 1) \div tile
           e(i) == (i - 1) * tile
<1>1. K \in Nat /\ n <= K * tile /\ K * tile < n + tile BY RoundedUp
<1> HIDE DEF K
<1>2. Len(edges) = K /\ edges = [i \in 1..K |-> e(i)]
  BY <1>1 DEF RF!Edges, K
<1>3. \A i \in 1..K : e(i) \in Nat /\ e(i) < n /\ e(i + 1) = e(i) + tile
  <2> SUFFICES ASSUME NEW i \in 1..K
               PROVE  e(i) \in Nat /\ e(i) < n /\ e(i + 1) = e(i) + tile
    OBVIOUS
  <2>1. i - 1 \in Nat /\ K - i \in Nat BY <1>1
  <2>2. (K - i) * tile \in Nat /\ (i - 1) * tile \in Nat BY <2>1
  <2>3. K * tile = (K - i) * tile + i * tile BY <1>1
  <2>4. i * tile = (i - 1) * tile + tile OBVIOUS
  <2>5. QED BY <1>1, <2>2, <2>3, <2>4
<1>4. e(1) = 0 /\ e(K + 1) = K * tile BY <1>1
<1>5. /\ DOMAIN edges = 1..K /\ \A i \in 1..K : edges[i] = e(i) BY <1>2
<1> HIDE DEF e, edges
<1> DEFINE r(i) == IF i = 0 THEN 0 ELSE e(i) + RF!Smaller(tile, n - e(i))
<1>6. reach = [i \in 0..K |-> r(i)] BY <1>2, <1>5 DEF Reach, edges
<1>7. \A i \in 1..K : /\ r(i) = IF i = K THEN n ELSE e(i + 1)
                      /\ r(i) \in 0..n /\ e(i) < r(i)
  <2> SUFFICES ASSUME NEW i \in 1..K
               PROVE  /\ r(i) = IF i = K THEN n ELSE e(i + 1)
                      /\ r(i) \in 0..n /\ e(i) < r(i)
    OBVIOUS
  <2>1. e(i) \in Nat /\ e(i) < n /\ e(i + 1) = e(i) + tile /\ i # 0 BY <1>3
  <2>2. CASE i = K
    <3>1. e(i) + tile >= n BY <1>1, <1>4, <2>1, <2>2
    <3>2. r(i) = n BY <2>1, <3>1 DEF RF!Smaller
    <3>3. QED BY <2>1, <2>2, <3>2
  <2>3. CASE i # K
    <3>1. i + 1 \in 1..K BY <1>1, <2>3
    <3>2. e(i) + tile < n BY <1>3, <2>1, <3>1
    <3>3. r(i) = e(i) + tile BY <2>1, <3>2 DEF RF!Smaller
    <3>4. QED BY <2>1, <2>3, <3>2, <3>3
  <2>4. QED BY <2>2, <2>3
<1> HIDE DEF r, reach
<1>8. r(0) = 0 BY DEF r
<1>9. ASSUME NEW i \in 1..K PROVE edges[i] = r(i - 1)
  <2>1. CASE i = 1 BY <1>4, <1>5, <1>8, <2>1
  <2>2. CASE i # 1
    <3>1. i - 1 \in 1..K /\ i - 1 # K /\ (i - 1) + 1 = i BY <1>1, <2>2
    <3>2. r(i - 1) = e(i) BY <1>7, <3>1
    <3>3. QED BY <1>5, <3>2
  <2>3. QED BY <2>1, <2>2
<1>10. r(K) = n
  <2>1. CASE K = 0
    <3>1. n <= 0 BY <1>1, <2>1
    <3>2. QED BY <1>8, <2>1, <3>1
  <2>2. CASE K # 0 BY <1>1, <1>7, <2>2
  <2>3. QED BY <2>1, <2>2
<1>11. /\ reach \in [0..K -> 0..n] /\ reach[0] = 0 /\ reach[K] = n
       /\ \A i \in 0..K : reach[i] = r(i)
  <2>1. \A i \in 0..K : i = 0 \/ i \in 1..K OBVIOUS
  <2>2. \A i \in 0..K : r(i) \in 0..n BY <1>7, <1>8, <2>1
  <2>3. 0 \in 0..K /\ K \in 0..K BY <1>1
  <2>4. QED BY <1>6, <1>8, <1>10, <2>2, <2>3
<1>12. edges \in [1..K -> Nat] BY <1>2, <1>3
<1>13. ASSUME NEW i \in 1..K
       PROVE  /\ edges[i] = reach[i - 1] /\ edges[i] < reach[i]
              /\ reach[i] = edges[i] + RF!Smaller(tile, n - edges[i])
  <2>1. i - 1 \in 0..K /\ i \in 0..K /\ i # 0 BY <1>1
  <2>2. edges[i] = reach[i - 1] BY <1>9, <1>11, <2>1
  <2>3. edges[i] < reach[i] BY <1>5, <1>7, <1>11, <2>1
  <2>4. reach[i] = edges[i] + RF!Smaller(tile, n - edges[i])
    BY <1>5, <1>11, <2>1 DEF r
  <2>5. QED BY <2>2, <2>3, <2>4
<1>14. QED BY <1>1, <1>2, <1>11, <1>12, <1>13 DEF edges, reach

Areas == [x : Int, y : Int, w : Int, h : Int]
Spans(r, x) == r.x <= x /\ x < r.x + r.w

\* The rectangles of a row of tiles once its tiles up to X are passed, of
\* which the columns in D have changed; a run that is still open has begun
\* with a changed tile.
RowState(rects, run, X, ty, th, D) ==
  /\ rects \in Seq(Areas)
  /\ run # {} => \E s \in 0..(X - 1) : /\ run = {s}
                                       /\ \E x \in D : s <= x /\ x < X
  /\ \A i \in 1..Len(rects) :
       /\ rects[i].x >= 0 /\ rects[i].y = ty /\ rects[i].h = th
       /\ \E x \in D : Spans(rects[i], x)
       /\ rects[i].x + rects[i].w < X
       /\ \A s \in run : rects[i].x + rects[i].w < s
  /\ \A i, j \in 1..Len(rects) : i < j => rects[i].x + rects[i].w < rects[j].x
  /\ \A x \in D : 0 <= x /\ x < X =>
       (\E i \in 1..Len(rects) : Spans(rects[i], x)) \/ \E s \in run : s <= x

\* A row that is done.
RowDone(rects, width, ty, th, D) ==
  /\ rects \in Seq(Areas)
  /\ \A i \in 1..Len(rects) :
       /\ rects[i].x >= 0 /\ rects[i].x + rects[i].w <= width
       /\ rects[i].y = ty /\ rects[i].h = th
       /\ \E x \in D : Spans(rects[i], x)
  /\ \A i, j \in 1..Len(rects) : i < j => rects[i].x + rects[i].w < rects[j].x
  /\ \A x \in D : 0 <= x /\ x < width => \E i \in 1..Len(rects) : Spans(rects[i], x)

\* The run from s to e joins the rectangles.
LEMMA RunJoins ==
  ASSUME NEW rects, NEW s \in Nat, NEW X \in Nat, NEW ty \in Nat, NEW th \in Nat, NEW D \in SUBSET Int,
         RowState(rects, {s}, X, ty, th, D)
  PROVE  RowDone(Append(rects, RF!Area(s, ty, X - s, th)), X, ty, th, D)
<1> DEFINE r == RF!Area(s, ty, X - s, th)
           all == Append(rects, r)
           N == Len(rects)
<1>1. /\ r \in Areas /\ r.x = s /\ r.y = ty /\ r.w = X - s /\ r.h = th
  BY DEF RF!Area, Areas
<1>2. /\ rects \in Seq(Areas)
      /\ s < X
      /\ \E x \in D : s <= x /\ x < X
      /\ \A i \in 1..N :
           /\ rects[i].x >= 0 /\ rects[i].y = ty /\ rects[i].h = th
           /\ \E x \in D : Spans(rects[i], x)
           /\ rects[i].x + rects[i].w < X
           /\ rects[i].x + rects[i].w < s
      /\ \A i, j \in 1..N : i < j => rects[i].x + rects[i].w < rects[j].x
      /\ \A x \in D : 0 <= x /\ x < X =>
           (\E i \in 1..N : Spans(rects[i], x)) \/ s <= x
  <2> DEFINE run == {s}
  <2>1. s \in run /\ run # {} OBVIOUS
  <2>2. \A t : t \in run <=> t = s OBVIOUS
  <2> HIDE DEF run
  <2>3. RowState(rects, run, X, ty, th, D) BY DEF run
  <2>4. PICK t \in 0..(X - 1) : run = {t} /\ \E x \in D : t <= x /\ x < X
    BY <2>1, <2>3 DEF RowState
  <2>5. t = s BY <2>1, <2>4
  <2>6. s < X /\ \E x \in D : s <= x /\ x < X BY <2>4, <2>5
  <2>7. \A i \in 1..N :
          /\ rects[i].x >= 0 /\ rects[i].y = ty /\ rects[i].h = th
          /\ \E x \in D : Spans(rects[i], x)
          /\ rects[i].x + rects[i].w < X
          /\ rects[i].x + rects[i].w < s
    BY <2>1, <2>3 DEF RowState
  <2>8. \A x \in D : 0 <= x /\ x < X =>
          (\E i \in 1..N : Spans(rects[i], x)) \/ s <= x
    BY <2>2, <2>3 DEF RowState
  <2>9. QED BY <2>3, <2>6, <2>7, <2>8 DEF RowState
<1>3. s + (X - s) = X /\ N \in Nat BY <1>2
<1> HIDE DEF r
<1>4. /\ all \in Seq(Areas) /\ Len(all) = N + 1
      /\ \A i \in 1..N : all[i] = rects[i]
      /\ all[N + 1] = r
  BY <1>1, <1>2, AppendProperties
<1> HIDE DEF all, N
<1>5. \A i \in 1..(N + 1) : i \in 1..N \/ i = N + 1 BY <1>3
<1>6. \A x \in D : Spans(r, x) <=> s <= x /\ x < X BY <1>1, <1>3 DEF Spans
<1>7. ASSUME NEW i \in 1..(N + 1)
      PROVE  /\ all[i].x >= 0 /\ all[i].x + all[i].w <= X
             /\ all[i].y = ty /\ all[i].h = th
             /\ \E x \in D : Spans(all[i], x)
  <2>1. CASE i \in 1..N
    <3>1. rects[i] \in Areas BY <1>2, <2>1 DEF N
    <3>2. rects[i].x \in Int /\ rects[i].w \in Int BY <3>1 DEF Areas
    <3>3. rects[i].x + rects[i].w <= X BY <1>2, <2>1, <3>2
    <3>4. QED BY <1>2, <1>4, <2>1, <3>3
  <2>2. CASE i = N + 1 BY <1>1, <1>2, <1>3, <1>4, <1>6, <2>2
  <2>3. QED BY <1>5, <2>1, <2>2
<1>8. ASSUME NEW i \in 1..(N + 1), NEW j \in 1..(N + 1), i < j
      PROVE  all[i].x + all[i].w < all[j].x
  <2>1. i \in 1..N BY <1>3, <1>8
  <2>2. CASE j \in 1..N BY <1>2, <1>4, <1>8, <2>1, <2>2
  <2>3. CASE j = N + 1 BY <1>1, <1>2, <1>4, <2>1, <2>3
  <2>4. QED BY <1>5, <2>2, <2>3
<1>9. ASSUME NEW x \in D, 0 <= x, x < X PROVE \E i \in 1..(N + 1) : Spans(all[i], x)
  <2>1. CASE \E i \in 1..N : Spans(rects[i], x)
    <3>1. PICK i \in 1..N : Spans(rects[i], x) BY <2>1
    <3>2. i \in 1..(N + 1) /\ Spans(all[i], x) BY <1>3, <1>4, <3>1
    <3>3. QED BY <3>2
  <2>2. CASE s <= x
    <3>1. N + 1 \in 1..(N + 1) /\ Spans(all[N + 1], x) BY <1>3, <1>4, <1>6, <1>9, <2>2
    <3>2. QED BY <3>1
  <2>3. QED BY <1>2, <1>9, <2>1, <2>2
<1>10. QED BY <1>4, <1>7, <1>8, <1>9 DEF RowDone, all, r

\* A tile from X to Y is passed: changed says whether a column of it has.
LEMMA TilePassed ==
  ASSUME NEW acc, acc = [rects |-> acc.rects, run |-> acc.run],
         NEW X \in Nat, NEW Y \in Nat, X < Y, NEW ty \in Nat, NEW th \in Nat,
         NEW D \in SUBSET Int, NEW changed \in BOOLEAN,
         changed <=> \E x \in D : X <= x /\ x < Y,
         RowState(acc.rects, acc.run, X, ty, th, D)
  PROVE  LET next == RF!NextTile(acc, changed, X, ty, th)
         IN /\ next = [rects |-> next.rects, run |-> next.run]
            /\ RowState(next.rects, next.run, Y, ty, th, D)
<1> DEFINE next == RF!NextTile(acc, changed, X, ty, th)
           rects == acc.rects
           N == Len(rects)
<1>1. /\ rects \in Seq(Areas)
      /\ acc.run # {} => \E s \in 0..(X - 1) : /\ acc.run = {s}
                                              /\ \E x \in D : s <= x /\ x < X
      /\ \A i \in 1..N :
           /\ rects[i].x >= 0 /\ rects[i].y = ty /\ rects[i].h = th
           /\ \E x \in D : Spans(rects[i], x)
           /\ rects[i].x + rects[i].w < X
           /\ \A s \in acc.run : rects[i].x + rects[i].w < s
      /\ \A i, j \in 1..N : i < j => rects[i].x + rects[i].w < rects[j].x
      /\ \A x \in D : 0 <= x /\ x < X =>
           (\E i \in 1..N : Spans(rects[i], x)) \/ \E s \in acc.run : s <= x
  BY DEF RowState
<1>2. \A i \in 1..N : rects[i].x \in Int /\ rects[i].w \in Int
  <2>1. \A i \in 1..N : rects[i] \in Areas BY <1>1
  <2>2. QED BY <2>1 DEF Areas
<1>3. \A i \in 1..N : rects[i].x + rects[i].w < Y BY <1>1, <1>2
<1>4. CASE changed /\ acc.run = {}
  <2>1. next = [acc EXCEPT !.run = {X}] BY <1>4 DEF RF!NextTile
  <2>2. next.rects = rects /\ next.run = {X} /\ next = [rects |-> rects, run |-> {X}]
    BY <2>1
  <2>3. X \in 0..(Y - 1) OBVIOUS
  <2>4. \A x \in D : 0 <= x /\ x < Y =>
          (\E i \in 1..N : Spans(rects[i], x)) \/ \E s \in {X} : s <= x
    BY <1>1, <1>4
  <2>5. RowState(rects, {X}, Y, ty, th, D)
    BY <1>1, <1>3, <1>4, <2>3, <2>4 DEF RowState
  <2>6. QED BY <2>2, <2>5
<1>5. CASE ~changed /\ acc.run # {}
  <2>1. PICK s \in 0..(X - 1) : acc.run = {s} BY <1>1, <1>5
  <2>2. s = CHOOSE t \in acc.run : TRUE BY <2>1
  <2> DEFINE all == Append(rects, RF!Area(s, ty, X - s, th))
  <2>3. next = [rects |-> all, run |-> {}] BY <1>5, <2>2 DEF RF!NextTile
  <2>4. RowDone(all, X, ty, th, D)
    <3>1. RowState(rects, {s}, X, ty, th, D) BY <2>1
    <3>2. s \in Nat OBVIOUS
    <3>3. QED BY <3>1, <3>2, RunJoins
  <2> HIDE DEF all, next
  <2>5. /\ all \in Seq(Areas)
        /\ \A i \in 1..Len(all) :
             /\ all[i].x >= 0 /\ all[i].x + all[i].w <= X
             /\ all[i].y = ty /\ all[i].h = th
             /\ \E x \in D : Spans(all[i], x)
        /\ \A i, j \in 1..Len(all) : i < j => all[i].x + all[i].w < all[j].x
        /\ \A x \in D : 0 <= x /\ x < X => \E i \in 1..Len(all) : Spans(all[i], x)
    BY <2>4 DEF RowDone
  <2>6. \A i \in 1..Len(all) : all[i].x + all[i].w < Y
    <3>1. \A i \in 1..Len(all) : all[i] \in Areas BY <2>5
    <3>2. \A i \in 1..Len(all) : all[i].x \in Int /\ all[i].w \in Int BY <3>1 DEF Areas
    <3>3. QED BY <2>5, <3>2
  <2>7. \A x \in D : 0 <= x /\ x < Y => \E i \in 1..Len(all) : Spans(all[i], x)
    BY <1>5, <2>5
  <2>8. RowState(all, {}, Y, ty, th, D) BY <2>5, <2>6, <2>7 DEF RowState
  <2>9. next.rects = all /\ next.run = {} BY <2>3
  <2>10. QED BY <2>3, <2>8, <2>9 DEF next
<1>6. CASE changed /\ acc.run # {}
  <2>1. next = acc BY <1>6 DEF RF!NextTile
  <2>2. PICK s \in 0..(X - 1) : acc.run = {s} /\ \E x \in D : s <= x /\ x < X
    BY <1>1, <1>6
  <2>3. s \in 0..(Y - 1) /\ \E x \in D : s <= x /\ x < Y
    <3>1. PICK x \in D : s <= x /\ x < X BY <2>2
    <3>2. x \in Int /\ x < Y BY <3>1
    <3>3. QED BY <3>1, <3>2
  <2>4. \A x \in D : 0 <= x /\ x < Y =>
          (\E i \in 1..N : Spans(rects[i], x)) \/ \E t \in acc.run : t <= x
    <3> SUFFICES ASSUME NEW x \in D, 0 <= x, x < Y, ~(x < X) PROVE s <= x
      BY <1>1, <2>2
    <3>1. QED OBVIOUS
  <2> HIDE DEF next
  <2>5. RowState(rects, acc.run, Y, ty, th, D)
    BY <1>1, <1>3, <2>2, <2>3, <2>4 DEF RowState
  <2>6. QED BY <2>1, <2>5 DEF next
<1>7. CASE ~changed /\ acc.run = {}
  <2>1. next = acc BY <1>7 DEF RF!NextTile
  <2>2. \A x \in D : 0 <= x /\ x < Y =>
          (\E i \in 1..N : Spans(rects[i], x)) \/ \E t \in acc.run : t <= x
    BY <1>1, <1>7
  <2> HIDE DEF next
  <2>3. RowState(rects, acc.run, Y, ty, th, D) BY <1>1, <1>3, <1>7, <2>2 DEF RowState
  <2>4. QED BY <2>1, <2>3 DEF next
<1>8. QED BY <1>4, <1>5, <1>6, <1>7

\* What a row of tiles carries from tile to tile.
Runs == [rects : Seq(Areas), run : SUBSET Nat]
NoRuns == [rects |-> <<>>, run |-> {}]

\* The n-th tile of a row, of w pixels, at ty.
PassTile(acc, n, prev, cur, w, tile, ty, th) ==
  LET tx == RF!Edges(w, tile)[n]
  IN RF!NextTile(acc, RF!TileChanged(prev, cur, tx, ty, RF!Smaller(tile, w - tx), th),
                 tx, ty, th)

ByTiles(r, prev, cur, w, h, tile, ty) ==
  LET N  == Len(RF!Edges(w, tile))
      th == RF!Smaller(tile, h - ty)
  IN /\ r \in [0..N -> Runs]
     /\ RF!RowRects(prev, cur, w, h, tile, ty) = RF!Flush(r[N], w, ty, th)
     /\ r[0] = NoRuns
     /\ \A n \in 0..(N - 1) :
          r[n + 1] = PassTile(r[n], n + 1, prev, cur, w, tile, ty, th)

LEMMA NextTileTyped ==
  ASSUME NEW acc \in Runs, NEW changed \in BOOLEAN, NEW tx \in Nat, NEW ty \in Nat, NEW th \in Int
  PROVE  RF!NextTile(acc, changed, tx, ty, th) \in Runs
<1> DEFINE start == CHOOSE s \in acc.run : TRUE
           next == RF!NextTile(acc, changed, tx, ty, th)
<1>1. acc.rects \in Seq(Areas) /\ acc.run \in SUBSET Nat
      /\ acc = [rects |-> acc.rects, run |-> acc.run]
  BY DEF Runs
<1>2. CASE changed /\ acc.run = {}
  <2>1. next = [rects |-> acc.rects, run |-> {tx}] BY <1>1, <1>2 DEF RF!NextTile
  <2>2. {tx} \in SUBSET Nat OBVIOUS
  <2>3. QED BY <1>1, <2>1, <2>2 DEF Runs
<1>3. CASE ~changed /\ acc.run # {}
  <2>1. start \in Nat BY <1>1, <1>3
  <2>2. next = [rects |-> Append(acc.rects, RF!Area(start, ty, tx - start, th)), run |-> {}]
    BY <1>3 DEF RF!NextTile
  <2> HIDE DEF start
  <2>3. RF!Area(start, ty, tx - start, th) \in Areas BY <2>1 DEF RF!Area, Areas
  <2>4. Append(acc.rects, RF!Area(start, ty, tx - start, th)) \in Seq(Areas)
    BY <1>1, <2>3, AppendProperties
  <2>5. QED BY <2>2, <2>4 DEF Runs
<1>4. CASE ~(changed /\ acc.run = {}) /\ ~(~changed /\ acc.run # {})
  BY <1>4 DEF RF!NextTile
<1>5. QED BY <1>2, <1>3, <1>4

LEMMA RowByTiles ==
  ASSUME NEW prev, NEW cur, NEW w \in Nat, NEW h \in Nat, NEW tile \in Nat \ {0},
         NEW ty \in Nat, ty < h
  PROVE  \E r : ByTiles(r, prev, cur, w, h, tile, ty)
<1> DEFINE edges == RF!Edges(w, tile)
           N == Len(edges)
           th == RF!Smaller(tile, h - ty)
           Pass(acc, n) == PassTile(acc, n, prev, cur, w, tile, ty, th)
           F == [x \in (1..N) \X Runs |-> Pass(x[2], x[1])]
           Is(c) == c = [i \in 0..N |-> IF i = 0 THEN NoRuns ELSE Pass(c[i - 1], i)]
           r == CHOOSE c : Is(c)
<1>1. N \in Nat /\ edges \in [1..N -> Nat] BY TilesCover
<1>2. th \in Int BY DEF RF!Smaller
<1> HIDE DEF N, th
<1>3. \A n \in 1..N : \A acc \in Runs : Pass(acc, n) \in Runs
  <2> SUFFICES ASSUME NEW n \in 1..N, NEW acc \in Runs PROVE Pass(acc, n) \in Runs
    OBVIOUS
  <2> DEFINE changed == RF!TileChanged(prev, cur, edges[n], ty,
                                       RF!Smaller(tile, w - edges[n]), th)
  <2>1. edges[n] \in Nat BY <1>1
  <2>2. changed \in BOOLEAN BY DEF RF!TileChanged
  <2>3. Pass(acc, n) = RF!NextTile(acc, changed, edges[n], ty, th) BY DEF PassTile
  <2> HIDE DEF changed, edges, Pass
  <2>4. QED BY <1>2, <2>1, <2>2, <2>3, NextTileTyped
<1> HIDE DEF Pass
<1>4. F \in [(1..N) \X Runs -> Runs] BY <1>3
<1>5. \A n \in 1..N : \A acc \in Runs : F[<<n, acc>>] = Pass(acc, n) OBVIOUS
<1>6. NoRuns \in Runs BY DEF NoRuns, Runs
<1> HIDE DEF F
<1>7. PICK c \in [0..N -> Runs] : Recursion(c, N, NoRuns, F)
  BY <1>1, <1>4, <1>6, RecursionExists
<1>8. Is(c)
  <2>1. c = [n \in 0..N |-> IF n = 0 THEN NoRuns ELSE F[<<n, c[n - 1]>>]]
    BY <1>7 DEF Recursion
  <2>2. ASSUME NEW n \in 0..N, n # 0 PROVE F[<<n, c[n - 1]>>] = Pass(c[n - 1], n)
    <3>1. n \in 1..N /\ n - 1 \in 0..N BY <1>1, <2>2
    <3>2. QED BY <1>5, <1>7, <3>1
  <2>3. \A n \in 0..N : (IF n = 0 THEN NoRuns ELSE F[<<n, c[n - 1]>>]) =
                        (IF n = 0 THEN NoRuns ELSE Pass(c[n - 1], n))
    BY <2>2
  <2>4. QED BY <2>1, <2>3
<1>9. Is(r)
  <2> HIDE DEF Is
  <2>1. QED BY <1>8
<1>10. RF!RowRects(prev, cur, w, h, tile, ty) = RF!Flush(r[N], w, ty, th)
  BY DEF RF!RowRects, N, th, NoRuns, Pass, PassTile
<1>11. DOMAIN r = 0..N /\ \A n \in 0..N : r[n] = IF n = 0 THEN NoRuns ELSE Pass(r[n - 1], n)
  BY <1>9
<1>12. r = [n \in 0..N |-> r[n]] BY <1>9
<1> HIDE DEF r
<1>13. r[0] = NoRuns /\ \A n \in 0..(N - 1) : r[n + 1] = Pass(r[n], n + 1)
  <2>1. 0 \in 0..N BY <1>1
  <2>2. \A n \in 0..(N - 1) : n + 1 \in 0..N /\ n + 1 # 0 /\ (n + 1) - 1 = n BY <1>1
  <2>3. QED BY <1>11, <2>1, <2>2
<1> DEFINE Typed == {n \in 0..N : r[n] \in Runs}
<1>14. r \in [0..N -> Runs]
  <2>1. 0 \in Typed BY <1>1, <1>6, <1>13
  <2>2. ASSUME NEW n \in 0..(N - 1), n \in Typed PROVE n + 1 \in Typed
    <3>1. n + 1 \in 1..N /\ n + 1 \in 0..N BY <1>1
    <3>2. QED BY <1>3, <1>13, <2>2, <3>1
  <2> HIDE DEF Typed
  <2>3. \A n \in 0..N : n \in Typed BY <1>1, <2>1, <2>2, Onward
  <2>4. QED BY <1>12, <2>3 DEF Typed
<1>15. ByTiles(r, prev, cur, w, h, tile, ty)
  BY <1>10, <1>13, <1>14 DEF ByTiles, N, th, Pass
<1>16. QED BY <1>15

LEMMA Flushed ==
  ASSUME NEW acc, NEW X \in Nat, NEW ty \in Nat, NEW th \in Nat, NEW D \in SUBSET Int,
         RowState(acc.rects, acc.run, X, ty, th, D)
  PROVE  RowDone(RF!Flush(acc, X, ty, th), X, ty, th, D)
<1> DEFINE rects == acc.rects
           run == acc.run
           all == RF!Flush(acc, X, ty, th)
           start == CHOOSE s \in run : TRUE
<1>1. CASE run = {}
  <2>1. all = rects BY <1>1 DEF RF!Flush
  <2>2. RowState(rects, {}, X, ty, th, D) BY <1>1
  <2> HIDE DEF rects, all
  <2>3. \A i \in 1..Len(rects) : rects[i].x \in Int /\ rects[i].w \in Int
    <3>1. \A i \in 1..Len(rects) : rects[i] \in Areas BY <2>2 DEF RowState
    <3>2. QED BY <3>1 DEF Areas
  <2>4. \A i \in 1..Len(rects) : rects[i].x + rects[i].w <= X BY <2>2, <2>3 DEF RowState
  <2>5. RowDone(rects, X, ty, th, D) BY <2>2, <2>4 DEF RowState, RowDone
  <2>6. QED BY <2>1, <2>5 DEF all
<1>2. CASE run # {}
  <2>1. PICK s \in 0..(X - 1) : run = {s} BY <1>2 DEF RowState
  <2>2. start = s /\ s \in Nat BY <2>1
  <2>3. all = Append(rects, RF!Area(start, ty, X - start, th)) BY <1>2 DEF RF!Flush
  <2>4. RowState(rects, {s}, X, ty, th, D) BY <2>1
  <2> HIDE DEF rects, all, start, run
  <2>5. RowDone(Append(rects, RF!Area(s, ty, X - s, th)), X, ty, th, D)
    BY <2>2, <2>4, RunJoins
  <2>6. QED BY <2>2, <2>3, <2>5 DEF all
<1>3. QED BY <1>1, <1>2

\* The columns of a row of tiles in which the frames differ.
Differ(prev, cur, w, ty, th) ==
  {x \in 0..(w - 1) : \E y \in ty..(ty + th - 1) : prev[<<x, y>>] # cur[<<x, y>>]}

LEMMA RowExact ==
  ASSUME NEW prev, NEW cur, NEW w \in Nat, NEW h \in Nat, NEW tile \in Nat \ {0},
         NEW ty \in Nat, ty < h
  PROVE  LET th == RF!Smaller(tile, h - ty)
         IN RowDone(RF!RowRects(prev, cur, w, h, tile, ty), w, ty, th,
                    Differ(prev, cur, w, ty, th))
<1> DEFINE edges == RF!Edges(w, tile)
           reach == Reach(w, tile)
           N == Len(edges)
           th == RF!Smaller(tile, h - ty)
           D == Differ(prev, cur, w, ty, th)
<1>1. /\ N \in Nat /\ edges \in [1..N -> Nat]
      /\ reach \in [0..N -> 0..w] /\ reach[0] = 0 /\ reach[N] = w
      /\ \A i \in 1..N : /\ edges[i] = reach[i - 1] /\ edges[i] < reach[i]
                         /\ reach[i] = edges[i] + RF!Smaller(tile, w - edges[i])
  BY TilesCover
<1>2. th \in Nat BY DEF RF!Smaller
<1>3. D \in SUBSET Int /\ D = {x \in 0..(w - 1) : \E y \in ty..(ty + th - 1) : prev[<<x, y>>] # cur[<<x, y>>]}
  BY DEF Differ
<1>4. PICK r : ByTiles(r, prev, cur, w, h, tile, ty) BY RowByTiles
<1>5. /\ r \in [0..N -> Runs]
      /\ RF!RowRects(prev, cur, w, h, tile, ty) = RF!Flush(r[N], w, ty, th)
      /\ r[0] = NoRuns
      /\ \A n \in 0..(N - 1) : r[n + 1] = PassTile(r[n], n + 1, prev, cur, w, tile, ty, th)
  BY <1>4 DEF ByTiles
<1> HIDE DEF N, th, D, reach
<1> DEFINE Passed == {n \in 0..N : RowState(r[n].rects, r[n].run, reach[n], ty, th, D)}
<1>6. 0 \in Passed
  <2>1. <<>> \in Seq(Areas) /\ Len(<<>>) = 0 OBVIOUS
  <2>2. D \in SUBSET Int /\ \A x \in D : ~(0 <= x /\ x < 0) BY <1>3
  <2> DEFINE none == <<>>
             closed == {}
  <2>3. none \in Seq(Areas) /\ (\A i : i \notin 1..Len(none)) /\ closed = {} BY <2>1
  <2>4. NoRuns.rects = none /\ NoRuns.run = closed BY DEF NoRuns
  <2> HIDE DEF none, closed
  <2>5. RowState(none, closed, 0, ty, th, D) BY <2>2, <2>3 DEF RowState
  <2>6. 0 \in 0..N BY <1>1
  <2>7. QED BY <1>1, <1>5, <2>4, <2>5, <2>6
<1>7. ASSUME NEW n \in 0..(N - 1), n \in Passed PROVE n + 1 \in Passed
  <2>1. n \in 0..N /\ n + 1 \in 1..N /\ n + 1 \in 0..N /\ (n + 1) - 1 = n BY <1>1
  <2> DEFINE X == reach[n]
             Y == reach[n + 1]
             acc == r[n]
             changed == RF!TileChanged(prev, cur, X, ty, RF!Smaller(tile, w - X), th)
             next == RF!NextTile(acc, changed, X, ty, th)
  <2>2. X \in Nat /\ Y \in Nat /\ X < Y /\ Y <= w /\ edges[n + 1] = X
        /\ Y = X + RF!Smaller(tile, w - X)
    BY <1>1, <2>1
  <2>3. acc = [rects |-> acc.rects, run |-> acc.run]
    <3>1. acc \in Runs BY <1>5, <2>1
    <3> HIDE DEF acc
    <3>2. QED BY <3>1 DEF Runs
  <2>4. r[n + 1] = next BY <1>5, <2>2 DEF PassTile
  <2>5. RowState(acc.rects, acc.run, X, ty, th, D) BY <1>7
  <2>6. changed \in BOOLEAN /\ (changed <=> \E x \in D : X <= x /\ x < Y)
    <3>1. changed <=> \E x \in X..(Y - 1), y \in ty..(ty + th - 1) : prev[<<x, y>>] # cur[<<x, y>>]
      <4> DEFINE tw == RF!Smaller(tile, w - X)
      <4>1. tw \in Int /\ Y - 1 = X + tw - 1 BY <2>2 DEF RF!Smaller
      <4>2. changed <=> \E x \in X..(X + tw - 1), y \in ty..(ty + th - 1) :
                          prev[<<x, y>>] # cur[<<x, y>>]
        BY DEF RF!TileChanged
      <4> HIDE DEF tw, changed, X, Y
      <4>3. QED BY <4>1, <4>2
    <3>2. \A x : x \in X..(Y - 1) <=> x \in 0..(w - 1) /\ X <= x /\ x < Y BY <2>2
    <3>3. changed \in BOOLEAN BY DEF RF!TileChanged
    <3> HIDE DEF changed, X, Y
    <3>4. QED BY <1>3, <3>1, <3>2, <3>3
  <2> HIDE DEF changed, X, Y, acc
  <2>7. RowState(next.rects, next.run, Y, ty, th, D)
    BY <1>2, <1>3, <2>2, <2>3, <2>5, <2>6, TilePassed
  <2> HIDE DEF next
  <2>8. QED BY <2>1, <2>4, <2>7 DEF Y
<1>8. RowState(r[N].rects, r[N].run, w, ty, th, D)
  <2> HIDE DEF Passed
  <2>1. \A n \in 0..N : n \in Passed BY <1>1, <1>6, <1>7, Onward
  <2>2. N \in Passed BY <1>1, <2>1
  <2>3. QED BY <1>1, <2>2 DEF Passed
<1>9. RowDone(RF!Flush(r[N], w, ty, th), w, ty, th, D)
  BY <1>2, <1>3, <1>8, Flushed
<1>10. QED BY <1>5, <1>9 DEF D, th

\* The rectangles of the rows of tiles above Y.
ScreenDone(rects, prev, cur, w, Y) ==
  /\ rects \in Seq(Areas)
  /\ \A i \in 1..Len(rects) :
       /\ rects[i].x >= 0 /\ rects[i].x + rects[i].w <= w
       /\ rects[i].y >= 0 /\ rects[i].h > 0 /\ rects[i].y + rects[i].h <= Y
       /\ \E x \in Differ(prev, cur, w, rects[i].y, rects[i].h) : Spans(rects[i], x)
  /\ \A i, j \in 1..Len(rects) : i < j =>
       \/ rects[i].y + rects[i].h <= rects[j].y
       \/ rects[i].y = rects[j].y /\ rects[i].x + rects[i].w < rects[j].x
  /\ \A x \in 0..(w - 1), y \in 0..(Y - 1) : prev[<<x, y>>] # cur[<<x, y>>] =>
       \E i \in 1..Len(rects) : /\ Spans(rects[i], x)
                                /\ rects[i].y <= y /\ y < rects[i].y + rects[i].h

LEMMA RowAdded ==
  ASSUME NEW prev, NEW cur, NEW w \in Nat, NEW Y \in Nat, NEW th \in Nat \ {0},
         NEW rects, NEW row, ScreenDone(rects, prev, cur, w, Y),
         RowDone(row, w, Y, th, Differ(prev, cur, w, Y, th))
  PROVE  ScreenDone(rects \o row, prev, cur, w, Y + th)
<1> DEFINE all == rects \o row
           N == Len(rects)
           M == Len(row)
           D == Differ(prev, cur, w, Y, th)
<1>1. /\ rects \in Seq(Areas) /\ row \in Seq(Areas) /\ N \in Nat /\ M \in Nat
      /\ \A i \in 1..N : rects[i] \in Areas
      /\ \A i \in 1..M : row[i] \in Areas
  BY DEF ScreenDone, RowDone
<1>2. /\ all \in Seq(Areas) /\ Len(all) = N + M
      /\ \A i \in 1..N : all[i] = rects[i]
      /\ \A i \in 1..M : all[N + i] = row[i]
  <2>1. all \in Seq(Areas) /\ Len(all) = N + M BY <1>1, ConcatProperties
  <2>2. \A i \in 1..(N + M) : all[i] = IF i <= N THEN rects[i] ELSE row[i - N]
    BY <1>1, ConcatProperties
  <2> HIDE DEF all
  <2>3. \A i \in 1..N : all[i] = rects[i] BY <1>1, <2>2
  <2>4. ASSUME NEW i \in 1..M PROVE all[N + i] = row[i]
    <3>1. N + i \in 1..(N + M) /\ ~(N + i <= N) /\ (N + i) - N = i BY <1>1
    <3>2. QED BY <2>2, <3>1
  <2>5. QED BY <2>1, <2>3, <2>4
<1> HIDE DEF all
<1>3. \A i \in 1..N : /\ rects[i].x \in Int /\ rects[i].y \in Int
                      /\ rects[i].w \in Int /\ rects[i].h \in Int
  BY <1>1 DEF Areas
<1>4. /\ \A i \in 1..N :
           /\ rects[i].x >= 0 /\ rects[i].x + rects[i].w <= w
           /\ rects[i].y >= 0 /\ rects[i].h > 0 /\ rects[i].y + rects[i].h <= Y
           /\ \E x \in Differ(prev, cur, w, rects[i].y, rects[i].h) : Spans(rects[i], x)
      /\ \A i, j \in 1..N : i < j =>
           \/ rects[i].y + rects[i].h <= rects[j].y
           \/ rects[i].y = rects[j].y /\ rects[i].x + rects[i].w < rects[j].x
      /\ \A x \in 0..(w - 1), y \in 0..(Y - 1) : prev[<<x, y>>] # cur[<<x, y>>] =>
           \E i \in 1..N : /\ Spans(rects[i], x)
                           /\ rects[i].y <= y /\ y < rects[i].y + rects[i].h
  BY DEF ScreenDone
<1>5. /\ \A i \in 1..M :
           /\ row[i].x >= 0 /\ row[i].x + row[i].w <= w
           /\ row[i].y = Y /\ row[i].h = th
           /\ \E x \in D : Spans(row[i], x)
      /\ \A i, j \in 1..M : i < j => row[i].x + row[i].w < row[j].x
      /\ \A x \in D : 0 <= x /\ x < w => \E i \in 1..M : Spans(row[i], x)
  BY DEF RowDone
<1>6. \A i \in 1..(N + M) : i \in 1..N \/ (i - N \in 1..M /\ i = N + (i - N)) BY <1>1
<1>7. ASSUME NEW i \in 1..(N + M)
      PROVE  /\ all[i].x >= 0 /\ all[i].x + all[i].w <= w
             /\ all[i].y >= 0 /\ all[i].h > 0 /\ all[i].y + all[i].h <= Y + th
             /\ \E x \in Differ(prev, cur, w, all[i].y, all[i].h) : Spans(all[i], x)
  <2>1. CASE i \in 1..N
    <3>1. all[i] = rects[i] BY <1>2, <2>1
    <3>2. rects[i].y + rects[i].h <= Y + th BY <1>3, <1>4, <2>1
    <3>3. QED BY <1>4, <2>1, <3>1, <3>2
  <2>2. CASE i - N \in 1..M /\ i = N + (i - N)
    <3>1. PICK k \in 1..M : i = N + k BY <2>2
    <3>2. all[i] = row[k] BY <1>2, <3>1
    <3>3. row[k].y >= 0 /\ row[k].h > 0 /\ row[k].y + row[k].h <= Y + th BY <1>5
    <3>4. \E x \in Differ(prev, cur, w, row[k].y, row[k].h) : Spans(row[k], x) BY <1>5
    <3>5. QED BY <1>5, <3>2, <3>3, <3>4
  <2>3. QED BY <1>6, <2>1, <2>2
<1>8. ASSUME NEW i \in 1..(N + M), NEW j \in 1..(N + M), i < j
      PROVE  \/ all[i].y + all[i].h <= all[j].y
             \/ all[i].y = all[j].y /\ all[i].x + all[i].w < all[j].x
  <2>1. CASE j \in 1..N
    <3>1. i \in 1..N BY <1>1, <1>8, <2>1
    <3>2. QED BY <1>2, <1>4, <1>8, <2>1, <3>1
  <2>2. CASE i \in 1..N /\ j - N \in 1..M /\ j = N + (j - N)
    <3>1. PICK k \in 1..M : j = N + k BY <2>2
    <3>2. all[i] = rects[i] /\ all[j] = row[k] BY <1>2, <2>2, <3>1
    <3>3. QED BY <1>4, <1>5, <2>2, <3>2
  <2>3. CASE i - N \in 1..M /\ i = N + (i - N) /\ j - N \in 1..M /\ j = N + (j - N)
    <3>1. PICK k \in 1..M : i = N + k BY <2>3
    <3>2. PICK l \in 1..M : j = N + l BY <2>3
    <3>3. k < l BY <1>1, <1>8, <3>1, <3>2
    <3>4. all[i] = row[k] /\ all[j] = row[l] BY <1>2, <3>1, <3>2
    <3>5. row[k].y = row[l].y /\ row[k].x + row[k].w < row[l].x BY <1>5, <3>3
    <3>6. QED BY <3>4, <3>5
  <2>4. QED BY <1>6, <1>8, <2>1, <2>2, <2>3
<1>9. ASSUME NEW x \in 0..(w - 1), NEW y \in 0..(Y + th - 1), prev[<<x, y>>] # cur[<<x, y>>]
      PROVE  \E i \in 1..(N + M) : /\ Spans(all[i], x)
                                   /\ all[i].y <= y /\ y < all[i].y + all[i].h
  <2>1. CASE y < Y
    <3>1. y \in 0..(Y - 1) BY <2>1
    <3>2. PICK i \in 1..N : Spans(rects[i], x) /\ rects[i].y <= y /\ y < rects[i].y + rects[i].h
      BY <1>4, <1>9, <3>1
    <3>3. i \in 1..(N + M) /\ all[i] = rects[i] BY <1>1, <1>2
    <3>4. QED BY <3>2, <3>3
  <2>2. CASE ~(y < Y)
    <3>1. y \in Y..(Y + th - 1) BY <2>2
    <3>2. x \in D /\ 0 <= x /\ x < w BY <1>9, <3>1 DEF Differ
    <3>3. PICK i \in 1..M : Spans(row[i], x) BY <1>5, <3>2
    <3>4. N + i \in 1..(N + M) /\ all[N + i] = row[i] BY <1>1, <1>2
    <3>5. row[i].y <= y /\ y < row[i].y + row[i].h BY <1>5, <3>1
    <3>6. QED BY <3>3, <3>4, <3>5
  <2>3. QED BY <2>1, <2>2
<1> DEFINE L == N + M
<1>10. Len(all) = L BY <1>2
<1>11. /\ \A i \in 1..L :
            /\ all[i].x >= 0 /\ all[i].x + all[i].w <= w
            /\ all[i].y >= 0 /\ all[i].h > 0 /\ all[i].y + all[i].h <= Y + th
            /\ \E x \in Differ(prev, cur, w, all[i].y, all[i].h) : Spans(all[i], x)
       /\ \A i, j \in 1..L : i < j =>
            \/ all[i].y + all[i].h <= all[j].y
            \/ all[i].y = all[j].y /\ all[i].x + all[i].w < all[j].x
       /\ \A x \in 0..(w - 1), y \in 0..(Y + th - 1) : prev[<<x, y>>] # cur[<<x, y>>] =>
            \E i \in 1..L : /\ Spans(all[i], x)
                            /\ all[i].y <= y /\ y < all[i].y + all[i].h
  BY <1>7, <1>8, <1>9
<1> HIDE DEF L
<1>12. ScreenDone(all, prev, cur, w, Y + th) BY <1>2, <1>10, <1>11 DEF ScreenDone
<1>13. QED BY <1>12 DEF all

ByRows(c, prev, cur, w, h, tile) ==
  LET rows == RF!Edges(h, tile)
      N == Len(rows)
  IN /\ RF!ChangedRects(prev, cur, w, h, tile) = c[N]
     /\ c[0] = <<>>
     /\ \A n \in 0..(N - 1) :
          c[n + 1] = c[n] \o RF!RowRects(prev, cur, w, h, tile, rows[n + 1])

LEMMA ScreenByRows ==
  ASSUME NEW prev, NEW cur, NEW w \in Nat, NEW h \in Nat, NEW tile \in Nat \ {0}
  PROVE  \E c : ByRows(c, prev, cur, w, h, tile)
<1> DEFINE rows == RF!Edges(h, tile)
           N == Len(rows)
           Row(n) == RF!RowRects(prev, cur, w, h, tile, rows[n])
           F == [x \in (1..N) \X Seq(Areas) |-> x[2] \o Row(x[1])]
           Is(f) == f = [i \in 0..N |-> IF i = 0 THEN <<>> ELSE f[i - 1] \o Row(i)]
           c == CHOOSE f : Is(f)
<1>1. N \in Nat /\ \A n \in 1..N : rows[n] \in Nat /\ rows[n] < h
  <2> DEFINE reach == Reach(h, tile)
  <2>1. /\ N \in Nat /\ rows \in [1..N -> Nat] /\ reach \in [0..N -> 0..h]
        /\ \A i \in 1..N : rows[i] < reach[i]
    BY TilesCover
  <2> HIDE DEF N, rows, reach
  <2>2. ASSUME NEW n \in 1..N PROVE rows[n] \in Nat /\ rows[n] < h
    <3>1. n \in 0..N /\ rows[n] \in Nat BY <2>1
    <3>2. reach[n] \in 0..h BY <2>1, <3>1
    <3>3. QED BY <2>1, <3>1, <3>2
  <2>3. QED BY <2>1, <2>2
<1> HIDE DEF N
<1>2. ASSUME NEW n \in 1..N PROVE Row(n) \in Seq(Areas)
  <2> DEFINE ty == rows[n]
             th == RF!Smaller(tile, h - ty)
             row == RF!RowRects(prev, cur, w, h, tile, ty)
  <2>1. ty \in Nat /\ ty < h BY <1>1
  <2> HIDE DEF ty
  <2>2. RowDone(row, w, ty, th, Differ(prev, cur, w, ty, th)) BY <2>1, RowExact
  <2> HIDE DEF row
  <2>3. row \in Seq(Areas) BY <2>2 DEF RowDone
  <2>4. QED BY <2>3 DEF row, ty
<1> HIDE DEF Row
<1>3. \A n \in 1..N : \A s \in Seq(Areas) : s \o Row(n) \in Seq(Areas)
  BY <1>2, ConcatProperties
<1>4. F \in [(1..N) \X Seq(Areas) -> Seq(Areas)] BY <1>3
<1>5. \A n \in 1..N : \A s \in Seq(Areas) : F[<<n, s>>] = s \o Row(n) OBVIOUS
<1>6. <<>> \in Seq(Areas) OBVIOUS
<1> HIDE DEF F
<1>7. PICK f \in [0..N -> Seq(Areas)] : Recursion(f, N, <<>>, F)
  BY <1>1, <1>4, <1>6, RecursionExists
<1>8. Is(f)
  <2>1. f = [n \in 0..N |-> IF n = 0 THEN <<>> ELSE F[<<n, f[n - 1]>>]]
    BY <1>7 DEF Recursion
  <2>2. ASSUME NEW n \in 0..N, n # 0 PROVE F[<<n, f[n - 1]>>] = f[n - 1] \o Row(n)
    <3>1. n \in 1..N /\ n - 1 \in 0..N BY <1>1, <2>2
    <3>2. f[n - 1] \in Seq(Areas) BY <1>7, <3>1
    <3>3. QED BY <1>5, <3>1, <3>2
  <2>3. \A n \in 0..N : (IF n = 0 THEN <<>> ELSE F[<<n, f[n - 1]>>]) =
                        (IF n = 0 THEN <<>> ELSE f[n - 1] \o Row(n))
    BY <2>2
  <2>4. QED BY <2>1, <2>3
<1>9. Is(c)
  <2> HIDE DEF Is
  <2>1. QED BY <1>8
<1>10. RF!ChangedRects(prev, cur, w, h, tile) = c[N]
  BY DEF RF!ChangedRects, N, Row
<1>11. \A n \in 0..N : c[n] = IF n = 0 THEN <<>> ELSE c[n - 1] \o Row(n) BY <1>9
<1> HIDE DEF c
<1>12. c[0] = <<>> /\ \A n \in 0..(N - 1) : c[n + 1] = c[n] \o Row(n + 1)
  <2>1. 0 \in 0..N BY <1>1
  <2>2. \A n \in 0..(N - 1) : n + 1 \in 0..N /\ n + 1 # 0 /\ (n + 1) - 1 = n BY <1>1
  <2>3. QED BY <1>11, <2>1, <2>2
<1>13. ByRows(c, prev, cur, w, h, tile) BY <1>10, <1>12 DEF ByRows, N, Row
<1>14. QED BY <1>13

LEMMA ScreenExact ==
  ASSUME NEW prev, NEW cur, NEW w \in Nat, NEW h \in Nat, NEW tile \in Nat \ {0}
  PROVE  ScreenDone(RF!ChangedRects(prev, cur, w, h, tile), prev, cur, w, h)
<1> DEFINE rows == RF!Edges(h, tile)
           reach == Reach(h, tile)
           N == Len(rows)
<1>1. /\ N \in Nat /\ rows \in [1..N -> Nat]
      /\ reach \in [0..N -> 0..h] /\ reach[0] = 0 /\ reach[N] = h
      /\ \A i \in 1..N : /\ rows[i] = reach[i - 1] /\ rows[i] < reach[i]
                         /\ reach[i] = rows[i] + RF!Smaller(tile, h - rows[i])
  BY TilesCover
<1>2. PICK c : ByRows(c, prev, cur, w, h, tile) BY ScreenByRows
<1>3. /\ RF!ChangedRects(prev, cur, w, h, tile) = c[N]
      /\ c[0] = <<>>
      /\ \A n \in 0..(N - 1) :
           c[n + 1] = c[n] \o RF!RowRects(prev, cur, w, h, tile, rows[n + 1])
  BY <1>2 DEF ByRows
<1> HIDE DEF N, rows, reach
<1> DEFINE Done == {n \in 0..N : ScreenDone(c[n], prev, cur, w, reach[n])}
<1>4. 0 \in Done
  <2> DEFINE none == <<>>
  <2>1. none \in Seq(Areas) /\ \A i : i \notin 1..Len(none) OBVIOUS
  <2>2. \A y : y \notin 0..(0 - 1) OBVIOUS
  <2> HIDE DEF none
  <2>3. ScreenDone(none, prev, cur, w, 0) BY <2>1, <2>2 DEF ScreenDone
  <2>4. 0 \in 0..N BY <1>1
  <2>5. QED BY <1>1, <1>3, <2>3, <2>4 DEF none
<1>5. ASSUME NEW n \in 0..(N - 1), n \in Done PROVE n + 1 \in Done
  <2>1. n \in 0..N /\ n + 1 \in 1..N /\ n + 1 \in 0..N /\ (n + 1) - 1 = n BY <1>1
  <2> DEFINE Y == rows[n + 1]
             th == RF!Smaller(tile, h - Y)
             row == RF!RowRects(prev, cur, w, h, tile, Y)
  <2>2. Y = reach[n] /\ Y \in Nat /\ Y < reach[n + 1] /\ reach[n + 1] = Y + th
        /\ reach[n + 1] \in 0..h
    BY <1>1, <2>1
  <2>3. Y < h /\ th \in Nat \ {0}
    <3>1. th \in Int BY <2>2 DEF RF!Smaller
    <3> HIDE DEF Y, th
    <3>2. QED BY <2>2, <3>1
  <2>4. ScreenDone(c[n], prev, cur, w, Y) BY <1>5, <2>2
  <2>5. c[n + 1] = c[n] \o row BY <1>3
  <2> HIDE DEF Y
  <2>6. RowDone(row, w, Y, th, Differ(prev, cur, w, Y, th)) BY <2>2, <2>3, RowExact
  <2> HIDE DEF row, th
  <2>7. ScreenDone(c[n] \o row, prev, cur, w, Y + th)
    BY <2>2, <2>3, <2>4, <2>6, RowAdded
  <2>8. QED BY <2>1, <2>2, <2>5, <2>7
<1>6. N \in Done
  <2> HIDE DEF Done
  <2>1. \A n \in 0..N : n \in Done BY <1>1, <1>4, <1>5, Onward
  <2>2. QED BY <1>1, <2>1
<1>7. QED BY <1>1, <1>3, <1>6

-----------------------------------------------------------------------------
(* The bits of a pixel.  A number is that of its ones, which a shift moves  *)
(* and a mask picks, so that what the channels put into a pixel where they  *)
(* do not overlap comes out of it again.                                    *)

LEMMA TwoDoubles ==
  /\ RF!Two(0) = 1
  /\ \A i \in 0..31 : RF!Two(i + 1) = 2 * RF!Two(i)
<1>1. /\ RF!Two(0) = 1            /\ RF!Two(1) = 2 * RF!Two(0)
      /\ RF!Two(2) = 2 * RF!Two(1)   /\ RF!Two(3) = 2 * RF!Two(2)
      /\ RF!Two(4) = 2 * RF!Two(3)   /\ RF!Two(5) = 2 * RF!Two(4)
      /\ RF!Two(6) = 2 * RF!Two(5)   /\ RF!Two(7) = 2 * RF!Two(6)
      /\ RF!Two(8) = 2 * RF!Two(7)   /\ RF!Two(9) = 2 * RF!Two(8)
      /\ RF!Two(10) = 2 * RF!Two(9)  /\ RF!Two(11) = 2 * RF!Two(10)
      /\ RF!Two(12) = 2 * RF!Two(11) /\ RF!Two(13) = 2 * RF!Two(12)
      /\ RF!Two(14) = 2 * RF!Two(13) /\ RF!Two(15) = 2 * RF!Two(14)
      /\ RF!Two(16) = 2 * RF!Two(15) /\ RF!Two(17) = 2 * RF!Two(16)
      /\ RF!Two(18) = 2 * RF!Two(17) /\ RF!Two(19) = 2 * RF!Two(18)
      /\ RF!Two(20) = 2 * RF!Two(19) /\ RF!Two(21) = 2 * RF!Two(20)
      /\ RF!Two(22) = 2 * RF!Two(21) /\ RF!Two(23) = 2 * RF!Two(22)
      /\ RF!Two(24) = 2 * RF!Two(23) /\ RF!Two(25) = 2 * RF!Two(24)
      /\ RF!Two(26) = 2 * RF!Two(25) /\ RF!Two(27) = 2 * RF!Two(26)
      /\ RF!Two(28) = 2 * RF!Two(27) /\ RF!Two(29) = 2 * RF!Two(28)
      /\ RF!Two(30) = 2 * RF!Two(29) /\ RF!Two(31) = 2 * RF!Two(30)
      /\ RF!Two(32) = 2 * RF!Two(31)
  BY SMT DEF RF!Two
<1>2. ASSUME NEW i \in 0..31 PROVE RF!Two(i + 1) = 2 * RF!Two(i)
  BY <1>1, SMT
<1>3. QED BY <1>1, <1>2

LEMMA TwoPositive == \A i \in 0..32 : RF!Two(i) \in Nat /\ RF!Two(i) >= 1
<1> DEFINE S == {i \in 0..32 : RF!Two(i) \in Nat /\ RF!Two(i) >= 1}
<1>1. 0 \in S BY TwoDoubles
<1>2. ASSUME NEW i \in 0..(32 - 1), i \in S PROVE i + 1 \in S
  BY <1>2, TwoDoubles
<1> HIDE DEF S
<1>3. \A i \in 0..32 : i \in S BY <1>1, <1>2, Onward
<1>4. QED BY <1>3 DEF S

LEMMA TwoAdds ==
  ASSUME NEW a \in Nat, NEW b \in Nat, a + b <= 32
  PROVE  RF!Two(a + b) = RF!Two(a) * RF!Two(b)
<1> DEFINE S == {n \in 0..b : RF!Two(a + n) = RF!Two(a) * RF!Two(n)}
<1>1. 0 \in S
  <2>1. a \in 0..32 /\ a + 0 = a /\ RF!Two(a) \in Nat BY TwoPositive
  <2>2. QED BY <2>1, TwoDoubles
<1>2. ASSUME NEW n \in 0..(b - 1), n \in S PROVE n + 1 \in S
  <2>1. /\ a + n \in 0..31 /\ n \in 0..31 /\ a \in 0..32 /\ n \in 0..32
        /\ a + (n + 1) = (a + n) + 1 /\ n + 1 \in 0..b
    OBVIOUS
  <2> DEFINE x == RF!Two(a)
             y == RF!Two(n)
  <2>2. x \in Nat /\ y \in Nat BY <2>1, TwoPositive
  <2>3. RF!Two(a + (n + 1)) = 2 * RF!Two(a + n) BY <2>1, TwoDoubles
  <2>4. RF!Two(a + n) = x * y BY <1>2
  <2>5. RF!Two(n + 1) = 2 * y BY <2>1, TwoDoubles
  <2> HIDE DEF x, y
  <2>6. 2 * (x * y) = x * (2 * y) BY <2>2
  <2>7. RF!Two(a + (n + 1)) = x * RF!Two(n + 1) BY <2>3, <2>4, <2>5, <2>6
  <2>8. QED BY <2>1, <2>7 DEF x
<1> HIDE DEF S
<1>3. \A n \in 0..b : n \in S BY <1>1, <1>2, Onward
<1>4. b \in S BY <1>3
<1>5. QED BY <1>4 DEF S

LEMMA TwoGrows ==
  ASSUME NEW a \in 0..32, NEW b \in 0..32, a <= b
  PROVE  RF!Two(a) <= RF!Two(b)
<1>1. b - a \in Nat /\ b - a \in 0..32 /\ a + (b - a) = b OBVIOUS
<1>2. RF!Two(b) = RF!Two(a) * RF!Two(b - a) BY <1>1, TwoAdds
<1> DEFINE x == RF!Two(a)
           y == RF!Two(b - a)
<1>3. x \in Nat /\ y \in Nat /\ y >= 1 BY <1>1, TwoPositive
<1> HIDE DEF x, y
<1>4. x <= x * y BY <1>3
<1>5. QED BY <1>2, <1>4 DEF x, y

\* A quotient and a remainder are the only ones.
LEMMA Divided ==
  ASSUME NEW n \in Int, NEW d \in Nat \ {0}, NEW q \in Int, NEW r \in 0..(d - 1),
         n = d * q + r
  PROVE  n \div d = q /\ n % d = r
<1> DEFINE e == n \div d
           s == n % d
<1>1. e \in Int /\ s \in 0..(d - 1) /\ n = d * e + s OBVIOUS
<1> HIDE DEF e, s
<1>2. d * (e - q) = r - s BY <1>1
<1>3. ~(e >= q + 1)
  <2>1. SUFFICES ASSUME e >= q + 1 PROVE FALSE OBVIOUS
  <2>2. d * (e - q) >= d BY <1>1, <2>1
  <2>3. QED BY <1>1, <1>2, <2>2
<1>4. ~(e <= q - 1)
  <2>1. SUFFICES ASSUME e <= q - 1 PROVE FALSE OBVIOUS
  <2>2. d * (e - q) <= 0 - d BY <1>1, <2>1
  <2>3. QED BY <1>1, <1>2, <2>2
<1>5. e = q BY <1>1, <1>3, <1>4
<1>6. s = r BY <1>1, <1>2, <1>5
<1>7. QED BY <1>5, <1>6 DEF e, s

\* A number of n bits is the sum of its ones, and below 2^n.
LEMMA NumberSteps ==
  ASSUME NEW ones
  PROVE  /\ RF!Number(ones, 0) = 0
         /\ \A n \in 0..31 :
              RF!Number(ones, n + 1) =
                RF!Number(ones, n) + (IF n \in ones THEN RF!Two(n) ELSE 0)
         /\ \A n \in 0..32 :
              RF!Number(ones, n) \in Nat /\ RF!Number(ones, n) < RF!Two(n)
<1> DEFINE Bit(k) == IF k - 1 \in ones THEN RF!Two(k - 1) ELSE 0
           F == [x \in (1..32) \X Nat |-> x[2] + Bit(x[1])]
           Is(c) == c = [k \in 0..32 |-> IF k = 0 THEN 0 ELSE c[k - 1] + Bit(k)]
           sum == CHOOSE c : Is(c)
<1>1. \A k \in 1..32 : Bit(k) \in Nat
  <2>1. \A k \in 1..32 : k - 1 \in 0..32 OBVIOUS
  <2>2. QED BY <2>1, TwoPositive
<1> HIDE DEF Bit
<1>2. F \in [(1..32) \X Nat -> Nat] BY <1>1
<1>3. \A k \in 1..32 : \A m \in Nat : F[<<k, m>>] = m + Bit(k) OBVIOUS
<1> HIDE DEF F
<1>4. PICK c \in [0..32 -> Nat] : Recursion(c, 32, 0, F) BY <1>2, RecursionExists
<1>5. Is(c)
  <2>1. c = [k \in 0..32 |-> IF k = 0 THEN 0 ELSE F[<<k, c[k - 1]>>]] BY <1>4 DEF Recursion
  <2>2. ASSUME NEW k \in 0..32, k # 0 PROVE F[<<k, c[k - 1]>>] = c[k - 1] + Bit(k)
    <3>1. k \in 1..32 /\ k - 1 \in 0..32 BY <2>2
    <3>2. QED BY <1>3, <1>4, <3>1
  <2>3. \A k \in 0..32 : (IF k = 0 THEN 0 ELSE F[<<k, c[k - 1]>>]) =
                         (IF k = 0 THEN 0 ELSE c[k - 1] + Bit(k))
    BY <2>2
  <2>4. QED BY <2>1, <2>3
<1>6. Is(sum)
  <2> HIDE DEF Is
  <2>1. QED BY <1>5
<1>7. \A n : RF!Number(ones, n) = sum[n]
  BY DEF RF!Number, RF!PixelBits, Bit
<1> HIDE DEF sum
<1>8. sum[0] = 0 /\ \A n \in 0..31 : sum[n + 1] = sum[n] + Bit(n + 1)
  <2>1. \A k \in 0..32 : sum[k] = IF k = 0 THEN 0 ELSE sum[k - 1] + Bit(k) BY <1>6
  <2>2. \A n \in 0..31 : n + 1 \in 0..32 /\ n + 1 # 0 /\ (n + 1) - 1 = n OBVIOUS
  <2>3. 0 \in 0..32 OBVIOUS
  <2>4. QED BY <2>1, <2>2, <2>3
<1>9. \A n \in 0..31 : Bit(n + 1) = IF n \in ones THEN RF!Two(n) ELSE 0
  BY DEF Bit
<1> DEFINE S == {n \in 0..32 : sum[n] \in Nat /\ sum[n] < RF!Two(n)}
<1>10. 0 \in S BY <1>8, TwoDoubles
<1>11. ASSUME NEW n \in 0..(32 - 1), n \in S PROVE n + 1 \in S
  <2>1. n \in 0..31 /\ n \in 0..32 /\ n + 1 \in 0..32 OBVIOUS
  <2>2. RF!Two(n) \in Nat /\ RF!Two(n + 1) = 2 * RF!Two(n) BY <2>1, TwoPositive, TwoDoubles
  <2>3. sum[n + 1] = sum[n] + (IF n \in ones THEN RF!Two(n) ELSE 0) BY <1>8, <1>9, <2>1
  <2>4. sum[n] \in Nat /\ sum[n] < RF!Two(n) BY <1>11
  <2>5. sum[n + 1] \in Nat /\ sum[n + 1] < RF!Two(n + 1) BY <2>2, <2>3, <2>4
  <2>6. QED BY <2>1, <2>5
<1> HIDE DEF S
<1>12. \A n \in 0..32 : n \in S BY <1>10, <1>11, Onward
<1>13. \A n \in 0..32 : sum[n] \in Nat /\ sum[n] < RF!Two(n) BY <1>12 DEF S
<1>14. QED BY <1>7, <1>8, <1>9, <1>13

\* Its lower and upper bits are numbers.
LEMMA NumberSplits ==
  ASSUME NEW ones, NEW a \in Nat, NEW b \in Nat, a + b <= 32,
         NEW above, \A k \in 0..(b - 1) : k \in above <=> a + k \in ones
  PROVE  RF!Number(ones, a + b) = RF!Number(ones, a) + RF!Two(a) * RF!Number(above, b)
<1> DEFINE low == RF!Number(ones, a)
           t == RF!Two(a)
           High(n) == RF!Number(above, n)
           S == {n \in 0..b : RF!Number(ones, a + n) = low + t * High(n)}
<1>1. a \in 0..32 /\ low \in Nat /\ t \in Nat BY TwoPositive, NumberSteps
<1>2. High(0) = 0 /\ \A n \in 0..b : High(n) \in Nat
  <2>1. \A n \in 0..b : n \in 0..32 OBVIOUS
  <2>2. QED BY <2>1, NumberSteps
<1>3. 0 \in S
  <2>1. a + 0 = a /\ t * 0 = 0 /\ 0 \in 0..b BY <1>1
  <2> HIDE DEF High, t
  <2>2. QED BY <1>1, <1>2, <2>1
<1>4. ASSUME NEW n \in 0..(b - 1), n \in S PROVE n + 1 \in S
  <2>1. /\ n \in 0..31 /\ n \in 0..b /\ n + 1 \in 0..b /\ a + n \in 0..31
        /\ a + (n + 1) = (a + n) + 1
    OBVIOUS
  <2> DEFINE two == RF!Two(n)
  <2>2. two \in Nat
    <3>1. n \in 0..32 BY <2>1
    <3>2. QED BY <3>1, TwoPositive
  <2>3. RF!Two(a + n) = t * two BY <2>1, TwoAdds
  <2>4. High(n + 1) = High(n) + (IF n \in above THEN two ELSE 0) BY <2>1, NumberSteps
  <2>5. RF!Number(ones, a + (n + 1)) =
          RF!Number(ones, a + n) + (IF a + n \in ones THEN RF!Two(a + n) ELSE 0)
    BY <2>1, NumberSteps
  <2>6. n \in above <=> a + n \in ones OBVIOUS
  <2>7. RF!Number(ones, a + n) = low + t * High(n) BY <1>4
  <2>8. High(n) \in Nat BY <1>2, <2>1
  <2> HIDE DEF t, two, low, High
  <2>9. t * (High(n) + two) = t * High(n) + t * two BY <1>1, <2>2, <2>8
  <2>10. t * High(n) \in Nat /\ t * two \in Nat BY <1>1, <2>2, <2>8
  <2>11. RF!Number(ones, a + (n + 1)) = low + t * High(n + 1)
    <3>1. CASE n \in above
      BY <1>1, <2>3, <2>4, <2>5, <2>6, <2>7, <2>9, <2>10, <3>1
    <3>2. CASE n \notin above
      <4>1. RF!Number(ones, a + (n + 1)) = low + t * High(n)
        BY <1>1, <2>5, <2>6, <2>7, <2>10, <3>2
      <4>2. High(n + 1) = High(n) BY <2>4, <2>8, <3>2
      <4>3. QED BY <4>1, <4>2
    <3>3. QED BY <3>1, <3>2
  <2>12. QED BY <2>1, <2>11
<1> HIDE DEF S
<1>5. \A n \in 0..b : n \in S BY <1>3, <1>4, Onward
<1>6. b \in S BY <1>5
<1>7. QED BY <1>6 DEF S

LEMMA NumberSame ==
  ASSUME NEW n \in 0..32, NEW ones, NEW others,
         \A k \in 0..(n - 1) : k \in ones <=> k \in others
  PROVE  RF!Number(ones, n) = RF!Number(others, n)
<1>1. RF!Number(ones, 0 + n) = RF!Number(ones, 0) + RF!Two(0) * RF!Number(others, n)
  <2>1. \A k \in 0..(n - 1) : k \in others <=> 0 + k \in ones OBVIOUS
  <2>2. QED BY <2>1, NumberSplits
<1>2. /\ RF!Number(ones, 0) = 0 /\ RF!Two(0) = 1 /\ RF!Number(others, n) \in Nat
      /\ RF!Number(ones, n) \in Nat
  BY NumberSteps, TwoDoubles
<1>3. QED BY <1>1, <1>2

\* A number of n bits is that of its ones, which are among the n.
LEMMA OnesGiven ==
  ASSUME NEW n \in 0..16, NEW l \in Nat, l < RF!Two(n)
  PROVE  RF!Number(RF!Ones(l), n) = l /\ RF!Ones(l) \in SUBSET (0..(n - 1))
<1> DEFINE ones == RF!Ones(l)
           Low(k) == RF!Number(ones, k)
           S == {k \in 0..n : \E q \in Nat : l = RF!Two(k) * q + Low(k)}
<1>1. 0 \in S
  <2>1. RF!Two(0) = 1 /\ Low(0) = 0 BY TwoDoubles, NumberSteps
  <2> HIDE DEF Low
  <2>2. l = RF!Two(0) * l + Low(0) BY <2>1
  <2>3. QED BY <2>2
<1>2. ASSUME NEW k \in 0..(n - 1), k \in S PROVE k + 1 \in S
  <2>1. k \in 0..31 /\ k \in 0..32 /\ k \in 0..15 /\ k + 1 \in 0..n OBVIOUS
  <2>2. PICK q \in Nat : l = RF!Two(k) * q + Low(k) BY <1>2
  <2> DEFINE t == RF!Two(k)
  <2>3. t \in Nat \ {0} BY <2>1, TwoPositive
  <2>4. Low(k) \in 0..(t - 1) BY <2>1, <2>3, NumberSteps
  <2>5. l \div t = q BY <2>2, <2>3, <2>4, Divided
  <2>6. k \in ones <=> q % 2 = 1 BY <2>1, <2>5 DEF RF!Ones
  <2>7. RF!Two(k + 1) = 2 * t BY <2>1, TwoDoubles
  <2>8. Low(k + 1) = Low(k) + (IF k \in ones THEN t ELSE 0) BY <2>1, NumberSteps
  <2> HIDE DEF t, Low, ones
  <2>9. PICK h \in Nat : q = 2 * h + (q % 2) /\ q % 2 \in {0, 1}
    <3>1. q \div 2 \in Nat /\ q = 2 * (q \div 2) + (q % 2) /\ q % 2 \in {0, 1} OBVIOUS
    <3>2. QED BY <3>1
  <2>10. l = RF!Two(k + 1) * h + Low(k + 1)
    <3>1. t * q = (2 * t) * h + t * (q % 2)
      <4> DEFINE r == q % 2
      <4>1. q = 2 * h + r /\ r \in Nat BY <2>9
      <4> HIDE DEF r
      <4>2. t * (2 * h + r) = (2 * t) * h + t * r BY <2>3, <4>1
      <4>3. QED BY <4>1, <4>2 DEF r
    <3>2. CASE q % 2 = 1
      <4>1. Low(k + 1) = Low(k) + t BY <2>6, <2>8, <3>2
      <4>2. t * (q % 2) = t BY <2>3, <3>2
      <4>3. (2 * t) * h \in Nat BY <2>3
      <4>4. QED BY <2>2, <2>3, <2>4, <2>7, <3>1, <4>1, <4>2, <4>3 DEF t
    <3>3. CASE q % 2 = 0
      <4>1. Low(k + 1) = Low(k)
        BY <2>3, <2>4, <2>6, <2>8, <3>3
      <4>2. t * (q % 2) = 0 BY <2>3, <3>3
      <4>3. (2 * t) * h \in Nat BY <2>3
      <4>4. QED BY <2>2, <2>3, <2>4, <2>7, <3>1, <4>1, <4>2, <4>3 DEF t
    <3>4. QED BY <2>9, <3>2, <3>3
  <2>11. QED BY <2>1, <2>10
<1> HIDE DEF S
<1>3. \A k \in 0..n : k \in S BY <1>1, <1>2, Onward
<1>4. PICK q \in Nat : l = RF!Two(n) * q + Low(n)
  <2>1. n \in S BY <1>3
  <2>2. QED BY <2>1 DEF S
<1>5. Low(n) = l
  <2> DEFINE t == RF!Two(n)
  <2>1. n \in 0..32 OBVIOUS
  <2>2. t \in Nat \ {0} /\ Low(n) \in 0..(t - 1) BY <2>1, TwoPositive, NumberSteps
  <2>3. l \in 0..(t - 1) BY <2>2
  <2>4. l = t * 0 + l BY <2>2
  <2> HIDE DEF t
  <2>5. l % t = l
    <3>1. 0 \in Int /\ l \in Int OBVIOUS
    <3>2. QED BY <2>2, <2>3, <2>4, <3>1, Divided
  <2>6. l % t = Low(n) BY <1>4, <2>2, Divided DEF t
  <2>7. QED BY <2>5, <2>6
<1>6. ASSUME NEW k \in ones PROVE k \in 0..(n - 1)
  <2>1. k \in 0..15 /\ (l \div RF!Two(k)) % 2 = 1 BY DEF RF!Ones
  <2>2. SUFFICES ASSUME ~(k < n) PROVE FALSE BY <2>1
  <2> DEFINE t == RF!Two(k)
  <2>3. t \in Nat \ {0} /\ RF!Two(n) <= t
    <3>1. k \in 0..32 /\ n \in 0..32 /\ n <= k BY <2>1, <2>2
    <3>2. QED BY <3>1, TwoPositive, TwoGrows
  <2>4. RF!Two(n) \in Nat
    <3>1. n \in 0..32 OBVIOUS
    <3>2. QED BY <3>1, TwoPositive
  <2> HIDE DEF t
  <2>5. l \in 0..(t - 1) /\ l = t * 0 + l BY <2>3, <2>4
  <2>6. l \div t = 0 BY <2>3, <2>5, Divided
  <2>7. QED BY <2>1, <2>6 DEF t
<1>7. QED BY <1>5, <1>6

\* Bits that are put together byte by byte are those of the number.
LEMMA BytesJoin ==
  ASSUME NEW ones, NEW N \in 0..4, NEW little,
         little = [i \in 1..N |-> RF!Number({k \in 0..7 : 8 * (i - 1) + k \in ones}, 8)]
  PROVE  Len(little) = N /\ RF!Joined(little) = RF!Number(ones, 8 * N)
<1>1. N \in Nat /\ DOMAIN little = 1..N /\ little \in Seq(Nat) /\ Len(little) = N
  <2>1. \A s : RF!Number(s, 8) \in Nat
    <3>1. 8 \in 0..32 OBVIOUS
    <3>2. QED BY <3>1, NumberSteps
  <2>2. little \in [1..N -> Nat] BY <2>1
  <2>3. little \in Seq(Nat) /\ Len(little) = N BY <2>2
  <2>4. QED BY <2>3
<1> DEFINE Body(i, x) == x + RF!Two(8 * (i - 1)) * little[i]
           F == [x \in (1..N) \X Nat |-> Body(x[1], x[2])]
           Is(c) == c = [i \in 0..N |-> IF i = 0 THEN 0
                                        ELSE c[i - 1] + RF!Two(8 * (i - 1)) * little[i]]
           sum == CHOOSE c : Is(c)
<1>2. \A i \in 1..N : /\ little[i] \in Nat /\ RF!Two(8 * (i - 1)) \in Nat
                      /\ 8 * (i - 1) \in Nat /\ 8 * (i - 1) + 8 <= 32
                      /\ 8 * (i - 1) + 8 = 8 * i
  <2> SUFFICES ASSUME NEW i \in 1..N
               PROVE  /\ little[i] \in Nat /\ RF!Two(8 * (i - 1)) \in Nat
                      /\ 8 * (i - 1) \in Nat /\ 8 * (i - 1) + 8 <= 32
                      /\ 8 * (i - 1) + 8 = 8 * i
    OBVIOUS
  <2>1. 8 * (i - 1) \in 0..32 /\ 8 * (i - 1) + 8 <= 32 /\ 8 * (i - 1) + 8 = 8 * i OBVIOUS
  <2>2. little[i] \in Nat BY <1>1
  <2>3. RF!Two(8 * (i - 1)) \in Nat BY <2>1, TwoPositive
  <2>4. QED BY <2>1, <2>2, <2>3
<1>3. \A i \in 1..N : \A x \in Nat : Body(i, x) \in Nat
  <2> SUFFICES ASSUME NEW i \in 1..N, NEW x \in Nat PROVE Body(i, x) \in Nat OBVIOUS
  <2> DEFINE y == RF!Two(8 * (i - 1))
             z == little[i]
  <2>1. y \in Nat /\ z \in Nat BY <1>2
  <2> HIDE DEF y, z
  <2>2. x + y * z \in Nat BY <2>1
  <2>3. QED BY <2>2 DEF y, z
<1> HIDE DEF Body
<1>4. F \in [(1..N) \X Nat -> Nat] BY <1>3
<1>5. \A i \in 1..N : \A x \in Nat : F[<<i, x>>] = Body(i, x) OBVIOUS
<1> HIDE DEF F
<1>6. PICK c \in [0..N -> Nat] : Recursion(c, N, 0, F) BY <1>1, <1>4, RecursionExists
<1>7. Is(c)
  <2>1. c = [i \in 0..N |-> IF i = 0 THEN 0 ELSE F[<<i, c[i - 1]>>]] BY <1>6 DEF Recursion
  <2>2. ASSUME NEW i \in 0..N, i # 0
        PROVE  F[<<i, c[i - 1]>>] = c[i - 1] + RF!Two(8 * (i - 1)) * little[i]
    <3>1. i \in 1..N /\ i - 1 \in 0..N BY <2>2
    <3>2. F[<<i, c[i - 1]>>] = Body(i, c[i - 1]) BY <1>5, <1>6, <3>1
    <3>3. QED BY <3>2 DEF Body
  <2>3. \A i \in 0..N : (IF i = 0 THEN 0 ELSE F[<<i, c[i - 1]>>]) =
                        (IF i = 0 THEN 0 ELSE c[i - 1] + RF!Two(8 * (i - 1)) * little[i])
    BY <2>2
  <2>4. QED BY <2>1, <2>3
<1>8. Is(sum)
  <2> HIDE DEF Is
  <2>1. QED BY <1>7
<1>9. RF!Joined(little) = sum[N] BY <1>1 DEF RF!Joined
<1>10. \A i \in 0..N : sum[i] = IF i = 0 THEN 0
                               ELSE sum[i - 1] + RF!Two(8 * (i - 1)) * little[i]
  BY <1>8
<1> HIDE DEF sum
<1> DEFINE S == {i \in 0..N : sum[i] = RF!Number(ones, 8 * i)}
<1>11. 0 \in S
  <2>1. 0 \in 0..N /\ 8 * 0 = 0 OBVIOUS
  <2>2. QED BY <1>10, <2>1, NumberSteps
<1>12. ASSUME NEW i \in 0..(N - 1), i \in S PROVE i + 1 \in S
  <2>1. i + 1 \in 1..N /\ i + 1 \in 0..N /\ i + 1 # 0 /\ (i + 1) - 1 = i OBVIOUS
  <2> DEFINE above == {k \in 0..7 : 8 * i + k \in ones}
             low == 8 * i
  <2>2. sum[i + 1] = sum[i] + RF!Two(low) * little[i + 1] BY <1>10, <2>1
  <2>3. little[i + 1] = RF!Number(above, 8) BY <2>1
  <2>4. low \in Nat /\ low + 8 <= 32 /\ 8 * (i + 1) = low + 8 BY <1>2, <2>1
  <2>5. \A k \in 0..(8 - 1) : k \in above <=> low + k \in ones OBVIOUS
  <2> HIDE DEF above, low
  <2>6. RF!Number(ones, low + 8) = RF!Number(ones, low) + RF!Two(low) * RF!Number(above, 8)
    <3> DEFINE width == 8
    <3>1. width \in Nat /\ low + width <= 32 BY <2>4
    <3>2. \A k \in 0..(width - 1) : k \in above <=> low + k \in ones BY <2>5
    <3> HIDE DEF width
    <3>3. RF!Number(ones, low + width) =
            RF!Number(ones, low) + RF!Two(low) * RF!Number(above, width)
      BY <2>4, <3>1, <3>2, NumberSplits
    <3>4. QED BY <3>3 DEF width
  <2>7. sum[i] = RF!Number(ones, low) BY <1>12 DEF low
  <2>8. sum[i + 1] = RF!Number(ones, 8 * (i + 1)) BY <2>2, <2>3, <2>4, <2>6, <2>7
  <2>9. QED BY <2>1, <2>8
<1> HIDE DEF S
<1>13. \A i \in 0..N : i \in S BY <1>1, <1>11, <1>12, Onward
<1>14. N \in S BY <1>1, <1>13
<1>15. sum[N] = RF!Number(ones, 8 * N) BY <1>14 DEF S
<1>16. QED BY <1>1, <1>9, <1>15

\* The records a format is read into.
PixelFormats ==
  [bpp : Nat, depth : Nat, bigEndian : BOOLEAN, trueColor : BOOLEAN,
   max : [RF!Channels -> Nat], shift : [RF!Channels -> Nat]]

\* The other byte order, twice, is the same.
LEMMA ReversedTwice ==
  ASSUME NEW s, s \in Seq(Nat)
  PROVE  RF!Reverse(RF!Reverse(s)) = s /\ Len(RF!Reverse(s)) = Len(s)
<1> DEFINE N == Len(s)
           r == RF!Reverse(s)
<1>1. N \in Nat /\ s = [i \in 1..N |-> s[i]] OBVIOUS
<1>2. r = [i \in 1..N |-> s[N - i + 1]] BY DEF RF!Reverse
<1> HIDE DEF N, r
<1>3. Len(r) = N /\ \A i \in 1..N : r[i] = s[N - i + 1] BY <1>1, <1>2
<1>4. RF!Reverse(r) = [i \in 1..N |-> r[N - i + 1]] BY <1>3 DEF RF!Reverse
<1>5. \A i \in 1..N : r[N - i + 1] = s[i]
  <2> SUFFICES ASSUME NEW i \in 1..N PROVE r[N - i + 1] = s[i] OBVIOUS
  <2>1. N - i + 1 \in 1..N /\ N - (N - i + 1) + 1 = i BY <1>1
  <2>2. r[N - i + 1] = s[N - (N - i + 1) + 1] BY <1>3, <2>1
  <2>3. QED BY <2>1, <2>2
<1>6. [i \in 1..N |-> r[N - i + 1]] = [i \in 1..N |-> s[i]] BY <1>5
<1>7. QED BY <1>1, <1>3, <1>4, <1>6 DEF r, N

\* What a format that is sound and supported means for one of its channels.
LEMMA ChannelFits ==
  ASSUME NEW pf \in PixelFormats, RF!Sound(pf), RF!Supported(pf), NEW c \in RF!Channels
  PROVE  \E n \in 1..16 :
           /\ pf.max[c] = RF!Two(n) - 1 /\ pf.max[c] \in Nat /\ pf.max[c] >= 1
           /\ pf.shift[c] \in Nat /\ pf.shift[c] + n <= pf.bpp
           /\ \A i \in 0..(n - 1), d \in RF!Channels, j \in 0..15 :
                d # c /\ RF!Two(j) <= pf.max[d] => pf.shift[c] + i # pf.shift[d] + j
<1> DEFINE max == pf.max[c]
           shift == pf.shift[c]
           Bits(d) == {pf.shift[d] + i : i \in {j \in 0..15 : RF!Two(j) <= pf.max[d]}}
<1>1. /\ max \in Nat /\ shift \in Nat BY DEF PixelFormats
<1>2. max >= 1 BY <1>1 DEF RF!Supported
<1>3. PICK n \in 0..16 : max = RF!Two(n) - 1 BY DEF RF!Sound
<1>4. n # 0 BY <1>1, <1>2, <1>3, TwoDoubles
<1>5. \A i \in 0..(n - 1) : i \in 0..15 /\ RF!Two(i) <= max
  <2> SUFFICES ASSUME NEW i \in 0..(n - 1) PROVE i \in 0..15 /\ RF!Two(i) <= max OBVIOUS
  <2>1. i \in 0..15 /\ i + 1 \in 0..32 /\ n \in 0..32 /\ i + 1 <= n /\ i \in 0..31 /\ i \in 0..32
    OBVIOUS
  <2>2. RF!Two(i + 1) <= RF!Two(n) BY <2>1, TwoGrows
  <2>3. RF!Two(i + 1) = 2 * RF!Two(i) /\ RF!Two(i) \in Nat /\ RF!Two(i) >= 1
        /\ RF!Two(n) \in Nat
    BY <2>1, TwoDoubles, TwoPositive
  <2>4. QED BY <1>3, <2>1, <2>2, <2>3
<1>6. \A i \in 0..(n - 1) : shift + i \in Bits(c) BY <1>5
<1>7. /\ \A b \in Bits(c) : b < pf.bpp
      /\ \A d \in RF!Channels : d # c => Bits(c) \cap Bits(d) = {}
  BY DEF RF!Sound
<1>8. ASSUME NEW i \in 0..(n - 1), NEW d \in RF!Channels, NEW j \in 0..15,
             d # c, RF!Two(j) <= pf.max[d]
      PROVE  shift + i # pf.shift[d] + j
  <2>1. shift + i \in Bits(c) BY <1>6
  <2>2. pf.shift[d] + j \in Bits(d) BY <1>8
  <2>3. Bits(c) \cap Bits(d) = {} BY <1>7, <1>8
  <2> HIDE DEF Bits
  <2>4. QED BY <2>1, <2>2, <2>3
<1>9. shift + n <= pf.bpp
  <2>1. n - 1 \in 0..(n - 1) /\ n \in Nat BY <1>4
  <2>2. shift + (n - 1) < pf.bpp BY <1>6, <1>7, <2>1
  <2>3. pf.bpp \in Nat BY DEF PixelFormats
  <2>4. QED BY <1>1, <2>1, <2>2, <2>3
<1>10. n \in 1..16 BY <1>4
<1>11. QED BY <1>1, <1>2, <1>3, <1>8, <1>9, <1>10

\* A level of a channel of n bits is scaled to n bits, and nearly in proportion.
LEMMA Scaled ==
  ASSUME NEW level \in 0..255, NEW max \in Nat \ {0}
  PROVE  LET scaled == RF!Scale(level, max)
         IN /\ scaled \in 0..max
            /\ 2 * (255 * scaled - level * max) <= 255
            /\ -2 * (255 * scaled - level * max) <= 255
<1> DEFINE scaled == RF!Scale(level, max)
           p == level * max
<1>1. p \in Nat /\ p <= 255 * max OBVIOUS
<1>2. CASE max = 255
  <2>1. scaled = level BY <1>2 DEF RF!Scale
  <2>2. p = 255 * level BY <1>2
  <2> HIDE DEF scaled, p
  <2>3. QED BY <1>2, <2>1, <2>2 DEF scaled, p
<1>3. CASE max # 255
  <2>1. scaled = (p + 127) \div 255 BY <1>3 DEF RF!Scale
  <2> HIDE DEF scaled, p
  <2>2. scaled \in Int /\ 255 * scaled <= p + 127 /\ p + 127 < 255 * scaled + 255
    BY <1>1, <2>1
  <2>3. scaled \in 0..max BY <1>1, <2>2
  <2>4. 2 * (255 * scaled - p) <= 255 /\ -2 * (255 * scaled - p) <= 255 BY <1>1, <2>2
  <2>5. QED BY <2>3, <2>4 DEF scaled, p
<1>4. QED BY <1>2, <1>3

\* A shift and a mask take a number apart.
LEMMA NumberParts ==
  ASSUME NEW ones, NEW a \in Nat, NEW b \in Nat, a + b <= 32,
         NEW above, \A k \in 0..(b - 1) : k \in above <=> a + k \in ones
  PROVE  /\ RF!Number(ones, a + b) \div RF!Two(a) = RF!Number(above, b)
         /\ RF!Number(ones, a + b) % RF!Two(a) = RF!Number(ones, a)
<1> DEFINE low == RF!Number(ones, a)
           high == RF!Number(above, b)
           t == RF!Two(a)
           value == RF!Number(ones, a + b)
<1>2. a \in 0..32 /\ b \in 0..32 /\ a + b <= 32 OBVIOUS
<1>3. RF!Number(ones, a + b) = RF!Number(ones, a) + RF!Two(a) * RF!Number(above, b)
  BY <1>2, NumberSplits
<1>4. value = low + t * high BY <1>3
<1>5. t \in Nat \ {0} BY <1>2, TwoPositive
<1>6. low \in Nat /\ low < t BY <1>2, NumberSteps
<1>7. high \in Nat BY <1>2, NumberSteps
<1> HIDE DEF t, low, high, value
<1>8. low \in 0..(t - 1) BY <1>5, <1>6
<1>9. value = t * high + low /\ value \in Int
  <2>1. t * high \in Nat BY <1>5, <1>7
  <2>2. QED BY <1>4, <1>6, <2>1
<1>10. high \in Int BY <1>7
<1>11. value \div t = high /\ value % t = low BY <1>5, <1>8, <1>9, <1>10, Divided
<1>12. QED BY <1>11 DEF value, t, high, low

\* The half of it that a shift alone needs.
LEMMA NumberUpper ==
  ASSUME NEW ones, NEW a \in Nat, NEW b \in Nat, a + b <= 32, NEW above,
         \A k \in 0..(b - 1) : k \in above <=> a + k \in ones
  PROVE  RF!Number(ones, a + b) \div RF!Two(a) = RF!Number(above, b)
BY NumberParts

\* The mask of a channel's width leaves its level.
LEMMA LevelMasked ==
  ASSUME NEW level \in Nat, NEW n \in 1..16, level < RF!Two(n),
         NEW rest \in 0..32, n <= rest,
         NEW above, \A i \in 0..(n - 1) : i \in above <=> i \in RF!Ones(level)
  PROVE  RF!Number(above, rest) % RF!Two(n) = level
<1> DEFINE over == rest - n
           top == {k \in 0..31 : n + k \in above}
<1>1. over \in Nat /\ rest = n + over /\ n + over <= 32 /\ n \in Nat /\ n \in 0..32 /\ n \in 0..16
  OBVIOUS
<1> HIDE DEF over
<1>2. \A k \in 0..(over - 1) : k \in top <=> n + k \in above
  <2>1. \A k \in 0..(over - 1) : k \in 0..31 BY <1>1
  <2>2. QED BY <2>1
<1> HIDE DEF top
<1>3. RF!Number(above, n + over) % RF!Two(n) = RF!Number(above, n)
  BY <1>1, <1>2, NumberParts
<1>4. RF!Number(above, n) = RF!Number(RF!Ones(level), n) BY <1>1, NumberSame
<1>5. RF!Number(RF!Ones(level), n) = level BY <1>1, OnesGiven
<1>6. QED BY <1>1, <1>3, <1>4, <1>5

\* The viewer takes out what was put in.
LEMMA LevelSeen ==
  ASSUME NEW pf \in PixelFormats, RF!Sound(pf), RF!Supported(pf),
         NEW rgb \in [RF!Channels -> 0..255]
  PROVE  LET bytes == RF!EncodePixel(pf, rgb)
         IN /\ Len(bytes) * 8 = pf.bpp
            /\ \A c \in RF!Channels :
                 RF!ViewerDecodes(pf, bytes)[c] = RF!Scale(rgb[c], pf.max[c])
<1> DEFINE ones == RF!PixelOnes(pf, rgb)
           N == pf.bpp \div 8
           little == [i \in 1..N |-> RF!Number({k \in 0..7 : 8 * (i - 1) + k \in ones}, 8)]
           bytes == RF!EncodePixel(pf, rgb)
           value == RF!Number(ones, pf.bpp)
<1>1. pf.bpp \in 0..32 /\ N \in 0..4 /\ pf.bpp = 8 * N BY DEF RF!Supported
<1> HIDE DEF N
<1>2. Len(little) = N /\ RF!Joined(little) = value
  <2> HIDE DEF ones
  <2>1. Len(little) = N /\ RF!Joined(little) = RF!Number(ones, 8 * N)
    BY <1>1, BytesJoin
  <2>2. QED BY <1>1, <2>1
<1>3. little \in Seq(Nat)
  <2>1. 8 \in 0..32 OBVIOUS
  <2>2. \A s : RF!Number(s, 8) \in Nat BY <2>1, NumberSteps
  <2>3. QED BY <1>1, <2>2
<1>4. bytes = IF pf.bigEndian THEN RF!Reverse(little) ELSE little
  BY DEF RF!EncodePixel, N
<1> HIDE DEF ones, little, bytes
<1>5. /\ Len(bytes) = N
      /\ (IF pf.bigEndian THEN RF!Reverse(bytes) ELSE bytes) = little
  BY <1>2, <1>3, <1>4, ReversedTwice
<1>6. ASSUME NEW c \in RF!Channels
      PROVE  RF!ViewerDecodes(pf, bytes)[c] = RF!Scale(rgb[c], pf.max[c])
  <2> DEFINE shift == pf.shift[c]
             level == RF!Scale(rgb[c], pf.max[c])
  <2>1. PICK n \in 1..16 :
          /\ pf.max[c] = RF!Two(n) - 1 /\ pf.max[c] \in Nat /\ pf.max[c] >= 1
          /\ shift \in Nat /\ shift + n <= pf.bpp
          /\ \A i \in 0..(n - 1), d \in RF!Channels, j \in 0..15 :
               d # c /\ RF!Two(j) <= pf.max[d] => shift + i # pf.shift[d] + j
    BY ChannelFits
  <2>2. level \in Nat /\ level < RF!Two(n)
    <3>1. rgb[c] \in 0..255 /\ pf.max[c] \in Nat \ {0} BY <2>1
    <3>2. level \in 0..pf.max[c] BY <3>1, Scaled
    <3> HIDE DEF level
    <3>3. RF!Two(n) \in Nat
      <4>1. n \in 0..32 OBVIOUS
      <4>2. QED BY <4>1, TwoPositive
    <3>4. QED BY <2>1, <3>2, <3>3
  <2>3. RF!Number(RF!Ones(level), n) = level /\ RF!Ones(level) \in SUBSET (0..(n - 1))
    <3>1. n \in 0..16 OBVIOUS
    <3> HIDE DEF level
    <3>2. QED BY <2>2, <3>1, OnesGiven
  <2>4. ASSUME NEW i \in 0..(n - 1) PROVE shift + i \in ones <=> i \in RF!Ones(level)
    <3>1. shift + i \in ones <=>
            \E d \in RF!Channels : \E j \in RF!Ones(RF!Scale(rgb[d], pf.max[d])) :
              shift + i = j + pf.shift[d]
      BY DEF RF!PixelOnes, ones
    <3>2. i \in RF!Ones(level) => shift + i \in ones
      <4>1. SUFFICES ASSUME i \in RF!Ones(level) PROVE shift + i = i + pf.shift[c] BY <3>1
      <4>2. QED BY <2>1
    <3>3. ASSUME shift + i \in ones PROVE i \in RF!Ones(level)
      <4>1. PICK d \in RF!Channels : \E j \in RF!Ones(RF!Scale(rgb[d], pf.max[d])) :
              shift + i = j + pf.shift[d]
        BY <3>1, <3>3
      <4>2. PICK j \in RF!Ones(RF!Scale(rgb[d], pf.max[d])) : shift + i = j + pf.shift[d]
        BY <4>1
      <4>3. j \in 0..15 BY DEF RF!Ones
      <4>4. CASE d = c
        <5>1. i = j BY <2>1, <4>2, <4>3, <4>4
        <5>2. QED BY <4>4, <5>1
      <4>5. CASE d # c
        <5>1. PICK m \in 1..16 : pf.max[d] = RF!Two(m) - 1 /\ pf.max[d] \in Nat
                                 /\ pf.max[d] >= 1 /\ pf.shift[d] \in Nat
          BY ChannelFits
        <5> DEFINE other == RF!Scale(rgb[d], pf.max[d])
        <5>2. other \in Nat /\ other < RF!Two(m)
          <6>1. rgb[d] \in 0..255 /\ pf.max[d] \in Nat \ {0} BY <5>1
          <6>2. other \in 0..pf.max[d] BY <6>1, Scaled
          <6> HIDE DEF other
          <6>3. RF!Two(m) \in Nat
            <7>1. m \in 0..32 OBVIOUS
            <7>2. QED BY <7>1, TwoPositive
          <6>4. QED BY <5>1, <6>2, <6>3
        <5>3. j \in 0..(m - 1)
          <6>1. m \in 0..16 /\ j \in RF!Ones(other) OBVIOUS
          <6> HIDE DEF other
          <6>2. QED BY <5>2, <6>1, OnesGiven
        <5>4. RF!Two(j) <= pf.max[d]
          <6>1. j + 1 \in 0..32 /\ m \in 0..32 /\ j + 1 <= m /\ j \in 0..31 /\ j \in 0..32
            BY <5>3
          <6>2. RF!Two(j + 1) <= RF!Two(m) BY <6>1, TwoGrows
          <6>3. RF!Two(j + 1) = 2 * RF!Two(j) /\ RF!Two(j) \in Nat /\ RF!Two(j) >= 1
                /\ RF!Two(m) \in Nat
            BY <6>1, TwoDoubles, TwoPositive
          <6>4. QED BY <5>1, <6>2, <6>3
        <5>5. shift + i # pf.shift[d] + j BY <2>1, <4>3, <4>5, <5>4
        <5>6. QED BY <4>2, <4>3, <5>1, <5>5
      <4>6. QED BY <4>4, <4>5
    <3>4. QED BY <3>2, <3>3
  <2>5. (value \div RF!Two(shift)) % RF!Two(n) = level
    <3>1. shift \in Nat /\ shift + n <= pf.bpp /\ pf.bpp \in 0..32 BY <1>1, <2>1
    <3> DEFINE width == pf.bpp
               rest == width - shift
               above == {k \in 0..31 : shift + k \in ones}
    <3> HIDE DEF level, shift, width
    <3>2. shift + n <= width /\ width \in 0..32 BY <3>1 DEF width
    <3>3. rest \in 0..32 /\ n <= rest /\ shift + rest = width BY <3>1, <3>2
    <3>4. shift \in Nat /\ rest \in Nat /\ shift + rest <= 32 BY <3>1, <3>2
    <3> HIDE DEF rest
    <3>5. \A k \in 0..(rest - 1) : k \in above <=> shift + k \in ones
      <4>1. \A k \in 0..(rest - 1) : k \in 0..31 BY <3>4
      <4>2. QED BY <4>1
    <3>6. \A k \in 0..(n - 1) : k \in above <=> k \in RF!Ones(level)
      <4>1. \A k \in 0..(n - 1) : k \in 0..31 OBVIOUS
      <4>2. QED BY <2>4, <4>1
    <3> HIDE DEF above
    <3>7. RF!Number(ones, shift + rest) \div RF!Two(shift) = RF!Number(above, rest)
      BY <3>4, <3>5, NumberUpper
    <3>8. RF!Number(above, rest) % RF!Two(n) = level BY <2>2, <3>3, <3>6, LevelMasked
    <3>9. value = RF!Number(ones, shift + rest) BY <3>3 DEF width
    <3>10. QED BY <3>7, <3>8, <3>9
  <2>6. pf.max[c] + 1 = RF!Two(n)
    <3>1. n \in 0..32 OBVIOUS
    <3>2. RF!Two(n) \in Nat BY <3>1, TwoPositive
    <3>3. QED BY <2>1, <3>2
  <2>7. RF!ViewerDecodes(pf, bytes)[c] = (value \div RF!Two(shift)) % (pf.max[c] + 1)
    <3>1. RF!Joined(IF pf.bigEndian THEN RF!Reverse(bytes) ELSE bytes) = value
      BY <1>2, <1>5
    <3> HIDE DEF value
    <3>2. QED BY <3>1 DEF RF!ViewerDecodes
  <2> HIDE DEF value, level, shift
  <2>8. QED BY <2>5, <2>6, <2>7 DEF level
<1>7. Len(bytes) * 8 = pf.bpp BY <1>1, <1>5
<1>8. QED BY <1>6, <1>7 DEF bytes

-----------------------------------------------------------------------------
(* The theorems.                                                            *)

ViewInv == ConnInv /\ ServerInv /\ HandInv

LEMMA ViewStep == ViewInv /\ [ViewNext]_allVars => ViewInv'
<1> SUFFICES ASSUME ViewInv, [ViewNext]_allVars PROVE ViewInv'
  OBVIOUS
<1>1. ConnInv /\ ServerInv /\ HandInv BY DEF ViewInv
<1>2. [Next]_vars BY DEF ViewNext, allVars
<1>3. [VS!Next]_VS!vars
  BY DEF ViewNext, allVars, serverVars, VS!vars
<1>4. HD!PointerNext \/ HD!KeyNext \/ UNCHANGED handVars
  BY DEF ViewNext, allVars
<1>5. QED BY <1>1, <1>2, <1>3, <1>4, ConnStep, ServerStep, HandStep DEF ViewInv

LEMMA ViewInductive == ViewSpec => []ViewInv
<1>1. ViewInit => ViewInv
  BY ConnInit, ServerInit, HandInit DEF ViewInit, ViewInv
<1>2. QED BY <1>1, ViewStep, PTL DEF ViewSpec

(* The states of a connection have their types in every behaviour of the    *)
(* two threads, the viewer and the guest (view.rs: Conn, ConnState).        *)
THEOREM ConnTypeCorrect == Spec => []TypeOK
<1>1. ConnInv => TypeOK BY ConnTyped DEF ConnInv
<1>2. QED BY <1>1, ConnInit, ConnStep, PTL DEF Spec

(* A request is counted as served only by a frame captured after it arrived *)
(* and, if it asks for all, by a full one, and the viewer's picture is then *)
(* that frame, whatever arrives while the writer captures and sends         *)
(* (writer_loop, ConnState::served_seq).                                    *)
THEOREM ConnServesLaterFrames == Spec => ServedByLaterFrame
<1>1. ConnInv /\ [Next]_vars => [Serves]_vars BY OnlyMarkServes
<1>2. QED BY <1>1, ConnInit, ConnStep, PTL DEF Spec, ServedByLaterFrame, Serves

(* The same in the behaviours of the composition.                           *)
THEOREM ViewServesLaterFrames == ViewSpec => ServedByLaterFrame
<1>1. ViewInv /\ [ViewNext]_allVars => [Serves]_vars
  BY OnlyMarkServes DEF ViewInv, ViewNext, allVars
<1>2. QED BY <1>1, ViewInductive, PTL DEF ViewSpec, ServedByLaterFrame, Serves

(* The server counts and maps the connections that are served, through      *)
(* spawns that fail and guards that drop in any order, and after shutdown() *)
(* one connection at most has an open socket (view.rs: accept_loop,         *)
(* ConnGuard, ViewServer::shutdown).                                        *)
THEOREM ServerAccounts == VS!Spec => [](VS!TypeOK /\ VS!ConnsAccounted)
<1>1. VS!Init => ServerInv BY ServerInit
<1>2. ServerInv => VS!TypeOK /\ VS!ConnsAccounted BY ServerSafe DEF ServerInv
<1>3. QED BY <1>1, <1>2, ServerStep, PTL DEF VS!Spec

(* The same in the behaviours of the composition.                           *)
THEOREM ViewAccounts == ViewSpec => []ConnsAccounted
<1>1. ViewInv => ConnsAccounted
  BY ServerSafe DEF ViewInv, ConnsAccounted
<1>2. QED BY <1>1, ViewInductive, PTL

(* While the left button is held the guest's pointer stays on the anchor    *)
(* unless the wheel or a click released beside its press has moved it, and  *)
(* a key is pressed with exactly the modifiers that are held, but for those *)
(* of which one key of the pair was let go, and for Shift with a character  *)
(* (rfb.rs: pointer_actions, key_action).                                   *)
THEOREM HandIsFaithful == HD!Spec => [](HD!TypeOK /\ HD!AnchorHeld /\ HD!ChordAsHeld)
<1>1. HandInv => HD!TypeOK /\ HD!AnchorHeld /\ HD!ChordAsHeld
  <2> SUFFICES ASSUME HandInv PROVE HD!TypeOK /\ HD!AnchorHeld /\ HD!ChordAsHeld
    OBVIOUS
  <2>1. PointerInv /\ KeyInv /\ HD!ChordAsHeld BY DEF HandInv
  <2>2. ASSUME NEW S, S = {} \/ \E x \in Columns : S = {x}
        PROVE  S \in SUBSET Columns /\ HD!Cardinality(S) <= 1
    <3>1. Cardinality(S) \in {0, 1} BY <2>2, FS_EmptySet, FS_Singleton
    <3>2. HD!Cardinality(S) = Cardinality(S) BY SameHandCardinality
    <3>3. S \in SUBSET Columns BY <2>2
    <3>4. QED BY <3>1, <3>2, <3>3
  <2>3. QED BY <2>1, <2>2 DEF PointerInv, KeyInv, HD!TypeOK
<1>2. HandInv /\ [HD!Next]_HD!vars => HandInv'
  BY HandStep DEF HD!Next, HD!vars, HD!pointerVars, HD!keyVars, handVars
<1>3. QED BY <1>1, <1>2, HandInit, PTL DEF HD!Spec

(* The same in the behaviours of the composition.                           *)
THEOREM ViewHandFaithful == ViewSpec => []HandFaithful
<1>1. ViewInv => HandFaithful
  BY DEF ViewInv, HandInv, PointerInv, KeyInv, HandFaithful
<1>2. QED BY <1>1, ViewInductive, PTL
\* An update of any screen, between any two frames of it, repaints exactly what
\* has changed (Rfb!Repaints): the viewer then shows the new frame, and its
\* rectangles do not overlap, lie on the screen, hold a change each, and are
\* kept apart by an unchanged tile within a row (changed_rects).
THEOREM UpdateRepaints ==
  ASSUME NEW w \in Nat, NEW h \in Nat, NEW tile \in Nat \ {0}, NEW Colours,
         NEW prev \in [RF!ScreenOf(w, h) -> Colours],
         NEW cur \in [RF!ScreenOf(w, h) -> Colours]
  PROVE  RF!Repaints(prev, cur, w, h, tile)
<1> DEFINE rects == RF!ChangedRects(prev, cur, w, h, tile)
           N == Len(rects)
           Shows(p) == \E i \in 1..N : p \in RF!Pixels(rects[i])
           painted == RF!ViewerPaints(prev, cur, rects)
<1>1. ScreenDone(rects, prev, cur, w, h) BY ScreenExact
<1> HIDE DEF rects
<1>2. /\ rects \in Seq(Areas) /\ N \in Nat /\ DOMAIN rects = 1..N
      /\ \A i \in 1..N : rects[i] \in Areas
  BY <1>1 DEF ScreenDone
<1>3. \A i \in 1..N : /\ rects[i].x \in Int /\ rects[i].y \in Int
                      /\ rects[i].w \in Int /\ rects[i].h \in Int
  BY <1>2 DEF Areas
<1>4. /\ \A i \in 1..N :
           /\ rects[i].x >= 0 /\ rects[i].x + rects[i].w <= w
           /\ rects[i].y >= 0 /\ rects[i].h > 0 /\ rects[i].y + rects[i].h <= h
           /\ \E x \in Differ(prev, cur, w, rects[i].y, rects[i].h) : Spans(rects[i], x)
      /\ \A i, j \in 1..N : i < j =>
           \/ rects[i].y + rects[i].h <= rects[j].y
           \/ rects[i].y = rects[j].y /\ rects[i].x + rects[i].w < rects[j].x
      /\ \A x \in 0..(w - 1), y \in 0..(h - 1) : prev[<<x, y>>] # cur[<<x, y>>] =>
           \E i \in 1..N : /\ Spans(rects[i], x)
                           /\ rects[i].y <= y /\ y < rects[i].y + rects[i].h
  BY <1>1 DEF ScreenDone
<1> HIDE DEF N
<1>5. \A i \in 1..N, x \in Int, y \in Int :
        <<x, y>> \in RF!Pixels(rects[i]) <=>
          /\ Spans(rects[i], x) /\ rects[i].y <= y /\ y < rects[i].y + rects[i].h
  BY <1>3 DEF RF!Pixels, Spans
<1>6. \A i \in 1..N : \A p \in RF!Pixels(rects[i]) :
        \E x \in Int, y \in Int :
          /\ p = <<x, y>> /\ Spans(rects[i], x)
          /\ rects[i].y <= y /\ y < rects[i].y + rects[i].h
  BY <1>3 DEF RF!Pixels, Spans
<1>7. painted = cur
  <2>1. ASSUME NEW p \in RF!ScreenOf(w, h) PROVE painted[p] = cur[p]
    <3>1. painted[p] = IF \E i \in DOMAIN rects : p \in RF!Pixels(rects[i]) THEN cur[p]
                       ELSE prev[p]
      BY DEF RF!ViewerPaints
    <3>2. painted[p] = IF Shows(p) THEN cur[p] ELSE prev[p] BY <1>2, <3>1
    <3>3. PICK x \in 0..(w - 1), y \in 0..(h - 1) : p = <<x, y>> BY DEF RF!ScreenOf
    <3>4. ASSUME prev[p] # cur[p] PROVE Shows(p)
      <4>1. PICK i \in 1..N : /\ Spans(rects[i], x)
                              /\ rects[i].y <= y /\ y < rects[i].y + rects[i].h
        BY <1>4, <3>3, <3>4
      <4>2. p \in RF!Pixels(rects[i]) BY <1>5, <3>3, <4>1
      <4>3. QED BY <4>2
    <3> HIDE DEF painted, Shows
    <3>5. QED BY <3>2, <3>4
  <2>2. painted = [p \in RF!ScreenOf(w, h) |-> painted[p]] BY DEF RF!ViewerPaints
  <2>3. cur = [p \in RF!ScreenOf(w, h) |-> cur[p]] OBVIOUS
  <2> HIDE DEF painted
  <2>4. QED BY <2>1, <2>2, <2>3
<1>8. ASSUME NEW i \in 1..N
      PROVE  /\ RF!Pixels(rects[i]) \subseteq RF!ScreenOf(w, h)
             /\ \E p \in RF!Pixels(rects[i]) : cur[p] # prev[p]
  <2>1. ASSUME NEW p \in RF!Pixels(rects[i]) PROVE p \in RF!ScreenOf(w, h)
    <3>1. PICK x \in Int, y \in Int :
            /\ p = <<x, y>> /\ Spans(rects[i], x)
            /\ rects[i].y <= y /\ y < rects[i].y + rects[i].h
      BY <1>6
    <3>2. x \in 0..(w - 1) /\ y \in 0..(h - 1) BY <1>3, <1>4, <3>1 DEF Spans
    <3>3. QED BY <3>1, <3>2 DEF RF!ScreenOf
  <2>2. \E p \in RF!Pixels(rects[i]) : cur[p] # prev[p]
    <3>1. PICK x \in Differ(prev, cur, w, rects[i].y, rects[i].h) : Spans(rects[i], x)
      BY <1>4
    <3>2. PICK y \in rects[i].y..(rects[i].y + rects[i].h - 1) :
            x \in Int /\ prev[<<x, y>>] # cur[<<x, y>>]
      BY <3>1 DEF Differ
    <3>3. y \in Int /\ rects[i].y <= y /\ y < rects[i].y + rects[i].h BY <1>3, <3>2
    <3>4. <<x, y>> \in RF!Pixels(rects[i]) BY <1>5, <3>1, <3>2, <3>3
    <3>5. QED BY <3>2, <3>4
  <2>3. QED BY <2>1, <2>2
<1>9. ASSUME NEW i \in 1..N, NEW j \in 1..N, i < j
      PROVE  /\ RF!Pixels(rects[i]) \cap RF!Pixels(rects[j]) = {}
             /\ rects[i].y = rects[j].y => rects[i].x + rects[i].w < rects[j].x
  <2>1. \/ rects[i].y + rects[i].h <= rects[j].y
        \/ rects[i].y = rects[j].y /\ rects[i].x + rects[i].w < rects[j].x
    BY <1>4, <1>9
  <2>2. ASSUME NEW p \in RF!Pixels(rects[i]), p \in RF!Pixels(rects[j]) PROVE FALSE
    <3>1. PICK x \in Int, y \in Int :
            /\ p = <<x, y>> /\ Spans(rects[i], x)
            /\ rects[i].y <= y /\ y < rects[i].y + rects[i].h
      BY <1>6
    <3>2. Spans(rects[j], x) /\ rects[j].y <= y BY <1>5, <2>2, <3>1
    <3>3. QED BY <1>3, <2>1, <3>1, <3>2 DEF Spans
  <2>3. rects[i].y = rects[j].y => rects[i].x + rects[i].w < rects[j].x
    BY <1>3, <1>4, <2>1
  <2>4. QED BY <2>2, <2>3
<1>10. QED BY <1>2, <1>7, <1>8, <1>9 DEF RF!Repaints, rects

(* The same of the frames of the composition.                               *)
THEOREM ViewRepaints == ViewSpec => []FramesRepainted
<1>1. ViewInit => FramesRepainted
  <2> SUFFICES ASSUME ViewInit, case.kind = "frame"
               PROVE  LET w == case.shape[1]
                          h == case.shape[2]
                      IN RF!Repaints([p \in RF!ScreenOf(w, h) |-> 0], case.cur, w, h, 2)
    BY DEF FramesRepainted
  <2>1. case \in FrameCases
    <3>1. \A c \in PixelCases \cup HandshakeCases : c.kind # "frame"
      BY DEF PixelCases, HandshakeCases
    <3>2. [kind |-> "none"].kind # "frame" OBVIOUS
    <3>3. QED BY <3>1, <3>2 DEF ViewInit
  <2>2. PICK s \in Shapes :
          case \in [kind : {"frame"}, shape : {s}, cur : [RF!ScreenOf(s[1], s[2]) -> {0, 1}]]
    BY <2>1 DEF FrameCases
  <2>3. case.shape = s /\ case.cur \in [RF!ScreenOf(s[1], s[2]) -> {0, 1}] BY <2>2
  <2>4. s[1] \in Nat /\ s[2] \in Nat BY DEF Shapes
  <2> DEFINE w == s[1]
             h == s[2]
             blank == [p \in RF!ScreenOf(w, h) |-> 0]
  <2>5. blank \in [RF!ScreenOf(w, h) -> {0, 1}] OBVIOUS
  <2>6. case.cur \in [RF!ScreenOf(w, h) -> {0, 1}] /\ w \in Nat /\ h \in Nat BY <2>3, <2>4
  <2>7. case.shape[1] = w /\ case.shape[2] = h /\ 2 \in Nat \ {0} BY <2>3
  <2> HIDE DEF w, h, blank
  <2>8. RF!Repaints(blank, case.cur, w, h, 2) BY <2>5, <2>6, <2>7, UpdateRepaints
  <2>9. QED BY <2>7, <2>8 DEF blank
<1>2. FramesRepainted /\ [ViewNext]_allVars => FramesRepainted'
  <2> SUFFICES ASSUME FramesRepainted, [ViewNext]_allVars PROVE FramesRepainted'
    OBVIOUS
  <2>1. case' = case BY DEF ViewNext, allVars
  <2>2. QED BY <2>1 DEF FramesRepainted
<1>3. QED BY <1>1, <1>2, PTL DEF ViewSpec

LEMMA WireFields ==
  ASSUME NEW b, NEW x1, NEW x2, NEW x3, NEW x4, NEW x5, NEW x6, NEW x7, NEW x8, NEW x9,
         NEW x10, NEW x11, NEW x12, NEW x13,
         b = <<x1, x2, x3, x4, x5, x6, x7, x8, x9, x10, x11, x12, x13, 0, 0, 0>>
  PROVE  /\ b[1] = x1 /\ b[2] = x2 /\ b[3] = x3 /\ b[4] = x4 /\ b[5] = x5
         /\ b[6] = x6 /\ b[7] = x7 /\ b[8] = x8 /\ b[9] = x9 /\ b[10] = x10
         /\ b[11] = x11 /\ b[12] = x12 /\ b[13] = x13
OBVIOUS

LEMMA PerChannel ==
  ASSUME NEW S, NEW f \in [RF!Channels -> S]
  PROVE  /\ f["red"] \in S /\ f["green"] \in S /\ f["blue"] \in S
         /\ [red |-> f["red"], green |-> f["green"], blue |-> f["blue"]] = f
BY DEF RF!Channels

(* A viewer's pixel format survives the wire, whatever its fields (rfb.rs:  *)
(* encode, parse).                                                          *)
THEOREM FormatSurvives ==
  ASSUME NEW pf \in PixelFormats
  PROVE  RF!ParseFormat(RF!EncodeFormat(pf)) = pf
<1> DEFINE bytes == RF!EncodeFormat(pf)
<1>1. PICK b : b = bytes OBVIOUS
<1> HIDE DEF bytes
<1>2. PICK max, shift : max = pf.max /\ shift = pf.shift OBVIOUS
<1>3. /\ pf = [bpp |-> pf.bpp, depth |-> pf.depth, bigEndian |-> pf.bigEndian,
                trueColor |-> pf.trueColor, max |-> max, shift |-> shift]
      /\ pf.bigEndian \in BOOLEAN /\ pf.trueColor \in BOOLEAN
      /\ max \in [RF!Channels -> Nat] /\ shift \in [RF!Channels -> Nat]
  BY <1>2 DEF PixelFormats
<1>4. /\ b[1] = pf.bpp /\ b[2] = pf.depth
      /\ b[3] = RF!Flag(pf.bigEndian) /\ b[4] = RF!Flag(pf.trueColor)
      /\ b[5] = RF!Hi(max["red"]) /\ b[6] = RF!Lo(max["red"])
      /\ b[7] = RF!Hi(max["green"]) /\ b[8] = RF!Lo(max["green"])
      /\ b[9] = RF!Hi(max["blue"]) /\ b[10] = RF!Lo(max["blue"])
      /\ b[11] = shift["red"] /\ b[12] = shift["green"] /\ b[13] = shift["blue"]
  <2>1. b = <<pf.bpp, pf.depth, RF!Flag(pf.bigEndian), RF!Flag(pf.trueColor),
              RF!Hi(max["red"]), RF!Lo(max["red"]), RF!Hi(max["green"]), RF!Lo(max["green"]),
              RF!Hi(max["blue"]), RF!Lo(max["blue"]),
              shift["red"], shift["green"], shift["blue"], 0, 0, 0>>
    BY <1>1, <1>2, Zenon DEF bytes, RF!EncodeFormat
  <2>2. QED BY <2>1, WireFields
<1>5. (b[3] # 0) = pf.bigEndian /\ (b[4] # 0) = pf.trueColor
  BY <1>3, <1>4 DEF RF!Flag
<1>6. /\ max["red"] \in Nat /\ max["green"] \in Nat /\ max["blue"] \in Nat
      /\ [red |-> max["red"], green |-> max["green"], blue |-> max["blue"]] = max
      /\ [red |-> shift["red"], green |-> shift["green"], blue |-> shift["blue"]] = shift
  BY <1>3, PerChannel
<1>7. \A n \in Nat : RF!Hi(n) * 256 + RF!Lo(n) = n BY DEF RF!Hi, RF!Lo
<1>8. /\ b[5] * 256 + b[6] = max["red"]
      /\ b[7] * 256 + b[8] = max["green"]
      /\ b[9] * 256 + b[10] = max["blue"]
  BY <1>4, <1>6, <1>7
<1>9. /\ [red |-> b[5] * 256 + b[6], green |-> b[7] * 256 + b[8],
           blue |-> b[9] * 256 + b[10]] = max
      /\ [red |-> b[11], green |-> b[12], blue |-> b[13]] = shift
  BY <1>4, <1>6, <1>8
<1>10. RF!ParseFormat(b) = pf
  <2>1. RF!ParseFormat(b) =
          [bpp |-> b[1], depth |-> b[2], bigEndian |-> (b[3] # 0),
           trueColor |-> (b[4] # 0), max |-> max, shift |-> shift]
    BY <1>9, Zenon DEF RF!ParseFormat
  <2>2. QED BY <1>3, <1>4, <1>5, <2>1, Zenon
<1>11. QED BY <1>1, <1>10 DEF bytes

(* A level out of the server's 255 becomes the nearest of the viewer's, for *)
(* any number of those (encode_pixel).                                      *)
THEOREM NearestLevel ==
  ASSUME NEW c \in 0..255, NEW max \in Nat \ {0}
  PROVE  LET level == RF!Scale(c, max)
         IN /\ level \in 0..max
            /\ \A other \in 0..max :
                 LET Off(l) == IF 255 * l > c * max THEN 255 * l - c * max ELSE c * max - 255 * l
                 IN Off(level) <= Off(other)
<1> DEFINE level == RF!Scale(c, max)
           p == c * max
           Off(l) == IF 255 * l > p THEN 255 * l - p ELSE p - 255 * l
<1>1. c \in Nat /\ c <= 255 /\ max \in Nat /\ max >= 1 OBVIOUS
<1>2. p \in Nat /\ p <= 255 * max BY <1>1
<1>3. CASE max = 255
  <2>1. level = c /\ p = 255 * c BY <1>1, <1>3 DEF RF!Scale
  <2>2. level \in 0..max BY <1>1, <1>3, <2>1
  <2>3. Off(level) = 0 /\ \A l \in 0..max : Off(l) >= 0 BY <1>1, <1>2, <2>1
  <2>4. QED BY <2>2, <2>3
<1>4. CASE max # 255
  <2>1. level = (p + 127) \div 255 BY <1>4 DEF RF!Scale
  <2> HIDE DEF p
  <2>2. /\ level \in Int /\ 255 * level <= p + 127 /\ p + 127 < 255 * level + 255
    BY <1>2, <2>1
  <2> HIDE DEF level
  <2>3. level \in 0..max BY <1>1, <1>2, <2>2
  <2>4. Off(level) <= 127 BY <1>2, <2>2
  <2>5. ASSUME NEW l \in 0..max PROVE Off(level) <= Off(l)
    <3>1. CASE l = level BY <1>2, <2>2, <3>1
    <3>2. CASE l >= level + 1
      <4>1. 255 * l >= 255 * level + 255 BY <2>2, <3>2
      <4>2. Off(l) >= 128 BY <1>2, <2>2, <4>1
      <4>3. QED BY <1>2, <2>2, <2>4, <4>2
    <3>3. CASE l <= level - 1
      <4>1. 255 * l <= 255 * level - 255 BY <2>2, <3>3
      <4>2. Off(l) >= 128 BY <1>2, <2>2, <4>1
      <4>3. QED BY <1>2, <2>2, <2>4, <4>2
    <3>4. QED BY <2>2, <3>1, <3>2, <3>3
  <2>6. QED BY <2>3, <2>5 DEF level, p
<1>5. QED BY <1>3, <1>4

(* A viewer sees each channel as near to the guest's colour as its format   *)
(* can tell, of any format that fits its pixel, in either byte order: what  *)
(* the server's shifts put into the pixel, the viewer's take out again      *)
(* (encode_pixel, encode, parse, supported).                                *)
THEOREM ColourSeen ==
  ASSUME NEW pf \in PixelFormats, NEW rgb \in [RF!Channels -> 0..255]
  PROVE  RF!SeesColour(pf, rgb)
<1> DEFINE bytes == RF!EncodePixel(pf, rgb)
           seen == RF!ViewerDecodes(pf, bytes)
<1> SUFFICES ASSUME RF!Sound(pf), RF!Supported(pf)
             PROVE  /\ Len(bytes) * 8 = pf.bpp
                    /\ RF!ParseFormat(RF!EncodeFormat(pf)) = pf
                    /\ \A c \in RF!Channels :
                         LET off == 255 * seen[c] - rgb[c] * pf.max[c]
                         IN 2 * off <= 255 /\ -2 * off <= 255
  BY DEF RF!SeesColour
<1>1. /\ Len(bytes) * 8 = pf.bpp
      /\ \A c \in RF!Channels : seen[c] = RF!Scale(rgb[c], pf.max[c])
  BY LevelSeen
<1>2. RF!ParseFormat(RF!EncodeFormat(pf)) = pf BY FormatSurvives
<1> HIDE DEF bytes, seen
<1>3. ASSUME NEW c \in RF!Channels
      PROVE  LET off == 255 * seen[c] - rgb[c] * pf.max[c]
             IN 2 * off <= 255 /\ -2 * off <= 255
  <2> DEFINE level == rgb[c]
             max == pf.max[c]
  <2>1. level \in 0..255 /\ max \in Nat \ {0} BY DEF RF!Supported, PixelFormats
  <2>2. seen[c] = RF!Scale(level, max) BY <1>1
  <2> HIDE DEF level, max
  <2>3. /\ 2 * (255 * RF!Scale(level, max) - level * max) <= 255
        /\ -2 * (255 * RF!Scale(level, max) - level * max) <= 255
    BY <2>1, Scaled
  <2>4. QED BY <2>2, <2>3 DEF level, max
<1>4. QED BY <1>1, <1>2, <1>3

\* The formats of the run are formats.
LEMMA FormatsTyped == Formats \in SUBSET PixelFormats
<1>1. \A r, g, b \in Nat : Rgb(r, g, b) \in [RF!Channels -> Nat] BY DEF Rgb, RF!Channels
<1>2. ASSUME NEW bpp \in Nat, NEW big \in BOOLEAN,
             NEW max \in [RF!Channels -> Nat], NEW shift \in [RF!Channels -> Nat]
      PROVE  Format(bpp, big, max, shift) \in PixelFormats
  BY DEF Format, PixelFormats

<1>3. /\ 0 \in Nat /\ 3 \in Nat /\ 4 \in Nat /\ 5 \in Nat /\ 6 \in Nat /\ 7 \in Nat
      /\ 8 \in Nat /\ 11 \in Nat /\ 15 \in Nat /\ 16 \in Nat /\ 31 \in Nat /\ 32 \in Nat
      /\ 63 \in Nat
  OBVIOUS
<1> HIDE DEF Rgb, Format
<1>4. \A big \in BOOLEAN : Format(32, big, Rgb(255, 255, 255), Rgb(16, 8, 0)) \in PixelFormats
  <2>1. \A n \in Nat : \A big \in BOOLEAN :
          Format(32, big, Rgb(n, n, n), Rgb(16, 8, 0)) \in PixelFormats
    BY <1>1, <1>2, <1>3, Zenon
  <2> HIDE DEF PixelFormats
  <2>2. 255 \in Nat OBVIOUS
  <2>3. QED BY <2>1, <2>2
<1>5. \A big \in BOOLEAN : Format(16, big, Rgb(31, 63, 31), Rgb(11, 5, 0)) \in PixelFormats
  BY <1>1, <1>2, <1>3, Zenon
<1>6. Format(16, FALSE, Rgb(15, 15, 15), Rgb(0, 4, 8)) \in PixelFormats
  BY <1>1, <1>2, <1>3, Zenon
<1>7. Format(8, FALSE, Rgb(7, 7, 3), Rgb(0, 3, 6)) \in PixelFormats
  BY <1>1, <1>2, <1>3, Zenon
<1>8. Format(8, FALSE, Rgb(7, 0, 3), Rgb(0, 3, 6)) \in PixelFormats
  BY <1>1, <1>2, <1>3, Zenon
<1>9. ASSUME NEW f \in Formats PROVE f \in PixelFormats
  <2>1. \/ \E big \in BOOLEAN : f = Format(32, big, Rgb(255, 255, 255), Rgb(16, 8, 0))
        \/ \E big \in BOOLEAN : f = Format(16, big, Rgb(31, 63, 31), Rgb(11, 5, 0))
        \/ f = Format(16, FALSE, Rgb(15, 15, 15), Rgb(0, 4, 8))
        \/ f = Format(8, FALSE, Rgb(7, 7, 3), Rgb(0, 3, 6))
        \/ f = Format(8, FALSE, Rgb(7, 0, 3), Rgb(0, 3, 6))
    BY DEF Formats
  <2>2. CASE \E big \in BOOLEAN : f = Format(32, big, Rgb(255, 255, 255), Rgb(16, 8, 0))
    BY <1>4, <2>2
  <2>3. CASE \E big \in BOOLEAN : f = Format(16, big, Rgb(31, 63, 31), Rgb(11, 5, 0))
    BY <1>5, <2>3
  <2>4. CASE \/ f = Format(16, FALSE, Rgb(15, 15, 15), Rgb(0, 4, 8))
             \/ f = Format(8, FALSE, Rgb(7, 7, 3), Rgb(0, 3, 6))
             \/ f = Format(8, FALSE, Rgb(7, 0, 3), Rgb(0, 3, 6))
    BY <1>6, <1>7, <1>8, <2>4
  <2>5. QED BY <2>1, <2>2, <2>3, <2>4
<1>10. QED BY <1>9

(* A viewer shows the captured frame, in the colours of its format, and     *)
(* speaks and listens in the handshake when the server listens and speaks   *)
(* (changed_rects, encode_pixel, handshake).                                *)
THEOREM ViewUpdates == ViewSpec => []UpdateFaithful
<1>1. ViewInit => ViewerUnderstands
  <2> SUFFICES ASSUME ViewInit PROVE ViewerUnderstands OBVIOUS
  <2>1. case \in FrameCases \cup PixelCases \cup HandshakeCases \cup {[kind |-> "none"]}
    BY DEF ViewInit
  <2>2. CASE case \in PixelCases
    <3>1. case.kind = "pixel" /\ case.pf \in Formats /\ case.rgb \in [RF!Channels -> Levels]
      BY <2>2 DEF PixelCases
    <3>2. case.pf \in PixelFormats BY <3>1, FormatsTyped
    <3>3. case.rgb \in [RF!Channels -> 0..255] BY <3>1 DEF Levels
    <3>4. RF!SeesColour(case.pf, case.rgb) BY <3>2, <3>3, ColourSeen
    <3>5. QED BY <3>1, <3>4 DEF ViewerUnderstands
  <2>3. CASE case \in HandshakeCases
    <3>1. case.kind = "handshake" /\ case.minor \in {3, 5, 7, 8, 889} BY <2>3 DEF HandshakeCases
    <3>2. (case.minor \in {7, 8, 889}) <=> ~(case.minor < 7) BY <3>1
    <3>3. RF!Handshake(case.minor) = RF!ViewerHandshake(case.minor)
      BY <3>2, Zenon DEF RF!Handshake, RF!ViewerHandshake, RF!TypeNegotiation
    <3>4. QED BY <3>1, <3>3 DEF ViewerUnderstands
  <2>4. CASE case \in FrameCases
    <3>1. case.kind = "frame" BY <2>4 DEF FrameCases
    <3>2. QED BY <3>1 DEF ViewerUnderstands
  <2>5. CASE case = [kind |-> "none"] BY <2>5 DEF ViewerUnderstands
  <2>6. QED BY <2>1, <2>2, <2>3, <2>4, <2>5
<1>2. ViewerUnderstands /\ [ViewNext]_allVars => ViewerUnderstands'
  <2> SUFFICES ASSUME ViewerUnderstands, [ViewNext]_allVars PROVE ViewerUnderstands'
    OBVIOUS
  <2>1. case' = case BY DEF ViewNext, allVars
  <2>2. QED BY <2>1 DEF ViewerUnderstands
<1>3. FramesRepainted /\ ViewerUnderstands => UpdateFaithful BY DEF UpdateFaithful
<1>4. ViewSpec => []ViewerUnderstands BY <1>1, <1>2, PTL DEF ViewSpec
<1>5. QED BY <1>3, <1>4, ViewRepaints, PTL
=============================================================================
