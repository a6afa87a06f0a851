----------------------------- MODULE MCRegistry -----------------------------
(* Instances of Registry for TLC, and a statement of main.rs that the code *)
(* does not keep.                                                           *)
EXTENDS Registry, TLC

Symmetry == Permutations(Boots) \cup Permutations(Clients)

(* Symmetry sets are not sound for liveness.  The boots are alike, though,  *)
(* and every property speaks of all of them, so one can be called first: an *)
(* action constraint that no fair step meets.                               *)
Earliest == CHOOSE b \in Boots : TRUE
InOrder ==
  boot[Earliest] = "new" => \A b \in Boots \ {Earliest} : boot'[b] = "new"

(* Only Exit looks at the one-shot runs, so it is enough that they begin and *)
(* end late.  No fair step meets this either.                               *)
LateRuns ==
  /\ runs' > runs => phase = "draining"
  /\ runs' < runs => phase = "dropping"

(* main.rs:198: "Tear down every live desktop VM before exiting."           *)
NoVmAtExit == phase = "exited" => \A b \in Boots : vm[b] # "up"
=============================================================================
