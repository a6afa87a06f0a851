-------------------------------- MODULE Rpc ---------------------------------
(***************************************************************************)
(* What the agent connection promises its callers, without ids, waiters,   *)
(* locks and poison: a request is asked once, the guest runs its action at *)
(* most once, and the caller gets one outcome.  "replied" is the reply to  *)
(* that very request, so the guest has run it; "failed" says nothing about *)
(* the action, which may have run, may be running, or may still run.       *)
(***************************************************************************)
CONSTANT Requests

VARIABLES asked,     \* requests that were made
          ran,       \* requests whose action the guest has taken up
          outcome    \* "none", "replied" or "failed", of each request

Init == asked = {} /\ ran = {} /\ outcome = [r \in Requests |-> "none"]

Ask(r) == r \notin asked /\ asked' = asked \cup {r} /\ UNCHANGED <<ran, outcome>>

Run(r) == r \in asked \ ran /\ ran' = ran \cup {r} /\ UNCHANGED <<asked, outcome>>

Reply(r) ==
  /\ r \in ran /\ outcome[r] = "none"
  /\ outcome' = [outcome EXCEPT ![r] = "replied"]
  /\ UNCHANGED <<asked, ran>>

Fail(r) ==
  /\ r \in asked /\ outcome[r] = "none"
  /\ outcome' = [outcome EXCEPT ![r] = "failed"]
  /\ UNCHANGED <<asked, ran>>

Next == \E r \in Requests : Ask(r) \/ Run(r) \/ Reply(r) \/ Fail(r)
Spec == Init /\ [][Next]_<<asked, ran, outcome>>
=============================================================================
