----------------------------- MODULE MCRunLane ------------------------------
EXTENDS RunLane

(* main.rs:378-380: a worker whose client has gone leaves its loop          *)
(* ("break; // client gone"), so the task that awaits it ends too.          *)
VanishedClientEndsTask == loop = "leaving" ~> loop = "over"
=============================================================================
