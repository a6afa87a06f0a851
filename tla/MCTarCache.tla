----------------------------- MODULE MCTarCache -----------------------------
(* An instance of TarCache for TLC, and a statement of lib.rs that the code *)
(* does not keep.                                                           *)
EXTENDS TarCache, TLC

Symmetry == Permutations(Resolvers)

\* Either every archive has directories that may not be written, or none.
TarInit == Init /\ sealed \in {{}, Resolvers \cup ({dest} \ {None})}

TarSpec == TarInit /\ [][Next]_vars

(* lib.rs:224-225: "Extract into a sibling staging dir so the ready-marker  *)
(* only appears when the tree is complete."  Asked of a cache at rest: no   *)
(* call is running.                                                         *)
MarkerMeansComplete ==
  Ready /\ (\A p \in Processes : Quiet(p)) => tree[dest].body = "whole"

=============================================================================
