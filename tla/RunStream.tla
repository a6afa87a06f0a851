----------------------------- MODULE RunStream ------------------------------
(***************************************************************************)
(* What the client of a one-shot run is promised: the guest's chunks of    *)
(* output in the order they were printed, and then one closing frame: the  *)
(* exit, once no printed chunk is missing, or an error if nothing was run. *)
(***************************************************************************)
EXTENDS Naturals, Sequences

CONSTANT MaxChunks  \* bound: chunks the guest prints

VARIABLES printed,  \* how many chunks the guest has printed
          seen,     \* the chunks the client has been sent, by number
          closing   \* "open", or the closing frame: "exit" or "error"

vars == <<printed, seen, closing>>

Init == printed = 0 /\ seen = <<>> /\ closing = "open"

Emit == /\ closing = "open" /\ printed < MaxChunks
        /\ printed' = printed + 1
        /\ UNCHANGED <<seen, closing>>

Send == /\ closing = "open" /\ Len(seen) < printed
        /\ seen' = Append(seen, Len(seen) + 1)
        /\ UNCHANGED <<printed, closing>>

Close == /\ closing = "open"
         /\ \/ closing' = "exit" /\ Len(seen) = printed
            \/ closing' = "error" /\ printed = 0
         /\ UNCHANGED <<printed, seen>>

Next == Emit \/ Send \/ Close
Spec == Init /\ [][Next]_vars
=============================================================================
