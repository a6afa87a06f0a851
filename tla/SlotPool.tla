------------------------------ MODULE SlotPool ------------------------------
(***************************************************************************)
(* What the desktop registry promises about admission, without the map,    *)
(* the in-flight counter and the reservation guard it is built from: a     *)
(* pool of Max slots.  A slot is granted only while one is free, and a     *)
(* slot, once granted, is given back at most once per grant.               *)
(***************************************************************************)
EXTENDS Naturals, FiniteSets

CONSTANTS Boots,   \* identities of the sessions that may ask for a slot
          Max      \* number of slots (MAX_DESKTOP_SESSIONS)

VARIABLE held      \* the sessions that hold a slot

\* One session takes a free slot.
Grant(b) == b \notin held /\ Cardinality(held) < Max /\ held' = held \cup {b}

\* Sessions give their slots back: one (stop), or several (sweep, shutdown).
Release(S) == S # {} /\ S \subseteq held /\ held' = held \ S

Init == held = {}
Next == (\E b \in Boots : Grant(b)) \/ (\E S \in SUBSET held : Release(S))
Spec == Init /\ [][Next]_held
=============================================================================
