-------------------------------- MODULE MCOci --------------------------------
(* An instance of OciCache for TLC, and a statement of lib.rs that the code *)
(* does not keep.                                                           *)
EXTENDS OciCache

(* lib.rs:514-515: "extracted image tree, idempotent via                    *)
(* .vmette-image-ready marker": of a cache at rest, in which no pull is     *)
(* running, a tree with the marker has the layers of its digest, all of     *)
(* them and no other.                                                       *)
MarkedTreeIsImage ==
  (\A p \in Pullers : ~Working(p)) => \A d \in marker : Complete(d)

=============================================================================
