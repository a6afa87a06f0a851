------------------------------- MODULE Settle -------------------------------
(***************************************************************************)
(* The settle detector (vmette-daemon/settle.rs): fed with the frames of   *)
(* one display size, it says whether the screen holds still, and which     *)
(* areas of it keep moving.  Registry shows who feeds it.                  *)
(*                                                                         *)
(* A frame is given by the tiles that changed against the frame before it; *)
(* by how many pixels, and how much, a changed tile must differ is left    *)
(* out.  Counters are kept no further than the code tells apart.           *)
(***************************************************************************)
EXTENDS Integers, Sequences, FiniteSets, FiniteSetsExt

CONSTANTS
  Cols, Rows,      \* the grid of tiles
  SettleFrames,    \* SettleConfig.settle_frames
  ChurnWindow,     \* churn_window
  ChurnThreshold   \* churn_threshold

SettleAssumption ==
  /\ {Cols, Rows, SettleFrames, ChurnWindow, ChurnThreshold} \subseteq Nat \ {0}
  /\ SettleFrames < ChurnThreshold /\ ChurnThreshold < ChurnWindow

Tiles == (0..(Cols - 1)) \X (0..(Rows - 1))

VARIABLES
  warm,      \* there is a frame to compare with
  stable,    \* per tile: the polls it has been unchanged
  window,    \* per tile: whether it changed, in the last polls
  unclean,   \* per tile: polls_since_clean
  verdict,   \* "warmup", "unsettled" or "settled"
  moving,    \* the tiles under the rectangles of a settled verdict
  lone,      \* history: the tiles that changed since the last settled verdict
  stuck      \* history: the polls since then

tileVars == <<stable, window, unclean>>
vars == <<warm, tileVars, verdict, moving, lone, stuck>>

Init ==
  /\ warm = FALSE
  /\ stable  = [t \in Tiles |-> 0]
  /\ window  = [t \in Tiles |-> <<>>]
  /\ unclean = [t \in Tiles |-> 0]
  /\ verdict = "warmup" /\ moving = {}
  /\ lone = {} /\ stuck = 0

-----------------------------------------------------------------------------
(* The geometry of tiles.                                                  *)

Adjacent(s, t) ==
  \/ s[2] = t[2] /\ s[1] - t[1] \in {-1, 1}
  \/ s[1] = t[1] /\ s[2] - t[2] \in {-1, 1}

\* The tiles between two corners.
Span(from, to) == (from[1]..to[1]) \X (from[2]..to[2])

\* The bounding box of a set of tiles.
Box(ts) ==
  Span(<<Min({t[1] : t \in ts}), Min({t[2] : t \in ts})>>,
       <<Max({t[1] : t \in ts}), Max({t[2] : t \in ts})>>)

\* The tiles that a walk from start reaches over churning ones.
Component(start, churning) ==
  LET reached[n \in 0..Cardinality(churning)] ==
        IF n = 0 THEN {start}
        ELSE LET near == reached[n - 1]
             IN near \cup {t \in churning : \E s \in near : Adjacent(s, t)}
  IN reached[Cardinality(churning)]

\* One box per component: not one over the gap between two of them.
ChurnRects(churning) == {Box(Component(t, churning)) : t \in churning}

-----------------------------------------------------------------------------
(* push.                                                                   *)

Upto(n, bound) == IF n < bound THEN n ELSE bound
Slide(w, flag) == Append(IF Len(w) = ChurnWindow THEN Tail(w) ELSE w, flag)
Changes(w)     == Cardinality({i \in DOMAIN w : w[i]})

\* Mutant: any unchanged poll is a clean run.
CleanAtOnce(st) == st >= 1

\* A clean run: still for settle_frames polls.
Clean(st) == st >= SettleFrames

\* Mutant: without the clause for slow animations.
IsChurningFast(st, w, un) == ~Clean(st) /\ Changes(w) >= ChurnThreshold

\* It changes often, or it has gone a window's worth of polls without a
\* clean run: it cannot be waited for.
IsChurning(st, w, un) ==
  /\ ~Clean(st)
  /\ \/ Changes(w) >= ChurnThreshold
     \/ Changes(w) > 0 /\ un >= ChurnWindow

\* A frame of another size: the baseline and the tiles stay as they are.
PushWrongSize ==
  /\ verdict' = "unsettled" /\ moving' = {}
  /\ UNCHANGED <<warm, tileVars, lone, stuck>>

\* The first frame.
PushFirst ==
  /\ ~warm
  /\ warm' = TRUE
  /\ verdict' = "warmup" /\ moving' = {}
  /\ UNCHANGED <<tileVars, lone, stuck>>

\* More than max_churn_fraction, one half, of the tiles churns.
Transition(churning) == 2 * Cardinality(churning) > Cols * Rows

Push(changed) ==
  LET st == [t \in Tiles |-> IF t \in changed THEN 0
                             ELSE Upto(stable[t] + 1, SettleFrames)]
      w  == [t \in Tiles |-> Slide(window[t], t \in changed)]
      un == [t \in Tiles |-> IF t \notin changed /\ Clean(st[t]) THEN 0
                             ELSE Upto(unclean[t] + 1, ChurnWindow)]
      churning == {t \in Tiles : IsChurning(st[t], w[t], un[t])}
      settled  == /\ ~Transition(churning)
                  /\ \A t \in Tiles \ churning : st[t] >= SettleFrames
  IN /\ warm
     /\ stable' = st /\ window' = w /\ unclean' = un
     /\ verdict' = IF settled THEN "settled" ELSE "unsettled"
     /\ moving' = IF settled THEN UNION ChurnRects(churning) ELSE {}
     /\ lone' = IF settled THEN {} ELSE lone \cup changed
     /\ stuck' = IF settled THEN 0 ELSE Upto(stuck + 1, 2 * ChurnWindow)
     /\ UNCHANGED warm

Next == PushWrongSize \/ PushFirst \/ \E changed \in SUBSET Tiles : Push(changed)

Spec == Init /\ [][Next]_vars

-----------------------------------------------------------------------------
(* Type invariant. *)
TypeOK ==
  /\ warm \in BOOLEAN
  /\ stable \in [Tiles -> 0..SettleFrames]
  /\ \A t \in Tiles : window[t] \in Seq(BOOLEAN) /\ Len(window[t]) <= ChurnWindow
  /\ unclean \in [Tiles -> 0..ChurnWindow]
  /\ verdict \in {"warmup", "unsettled", "settled"}
  /\ moving \in SUBSET Tiles
  /\ lone \in SUBSET Tiles /\ stuck \in Nat

(* The frame of a settled verdict is still: outside of the areas it names   *)
(* as moving no tile has changed for settle_frames polls, whatever frames   *)
(* of a wrong size came in between ("every non-churning tile held still").  *)
SettledIsStill ==
  verdict = "settled" =>
    \A t \in Tiles \ moving :
      LET n == Len(window[t])
      IN n >= SettleFrames /\ \A i \in (n - SettleFrames + 1)..n : ~window[t][i]

(* One animated spot on a still screen, in whatever rhythm it flickers,     *)
(* cannot keep the caller waiting for more than a window and a clean run    *)
(* (is_churning: it can not "be allowed to block it forever").  On a screen *)
(* of one tile the spot is the whole of it, and a transition.               *)
LoneSpotPasses ==
  Cols * Rows > 1 /\ Cardinality(lone) = 1 => stuck < ChurnWindow + SettleFrames

(* The boxes of moving areas are those of the 4-connected components, the   *)
(* smallest sets of churning tiles that are closed under adjacency          *)
(* (churn_rects).                                                           *)
Closed(ts, churning) ==
  ts # {} /\ \A t \in ts, s \in churning : Adjacent(s, t) => s \in ts
BoxesOfComponents(churning) ==
  ChurnRects(churning) =
    {Box(ts) : ts \in {ts \in SUBSET churning :
       Closed(ts, churning) /\ \A sub \in SUBSET ts : Closed(sub, churning) => sub = ts}}
=============================================================================
