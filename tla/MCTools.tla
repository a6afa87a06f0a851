------------------------------- MODULE MCTools -------------------------------
(* An instance of DesktopTools for TLC, and a statement of server.rs the    *)
(* code does not keep.                                                      *)
EXTENDS DesktopTools

(* server.rs:978-979: "Reconcile against the pre-launch baseline: if the    *)
(* final settled frame differs, it painted."  A launch that is reported as  *)
(* started by this comparison alone follows a change of the screen.         *)
ReconciledMeansPainted ==
  \A c \in Callers : report[c] = "launched" /\ ~painted[c] => c \in changed
=============================================================================
