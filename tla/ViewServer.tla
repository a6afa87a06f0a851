----------------------------- MODULE ViewServer -----------------------------
(***************************************************************************)
(* The live VNC view of a desktop session (vmette-daemon/view.rs): the     *)
(* accept loop, the map of socket clones, the count of connections that    *)
(* the idle sweep reads, each connection's thread with its clean-up, and   *)
(* shutdown().  What a connection does once it is served is module         *)
(* ViewConn.                                                               *)
(*                                                                         *)
(* Left out: a socket that cannot be cloned (it is then not in the map) or *)
(* switched to blocking, and the 100 ms pause of the loop.                 *)
(***************************************************************************)
EXTENDS Naturals, FiniteSets

CONSTANT Conns   \* the connections viewers open

ViewServerAssumption == IsFiniteSet(Conns) /\ "none" \notin Conns

VARIABLES
  closing,  \* shutdown(): "no", "flagged", "drained" or "closed"
  acceptor, \* the accept loop: "check", "accept", "insert", "spawn", "stopped"
  setup,    \* the connection the loop has accepted, or "none"
  conns,    \* the map of socket clones
  active,   \* the count of connections
  thread,   \* each connection and its thread
  socket    \* "open", "left" (by the viewer) or "shut" (by shutdown)

vars == <<closing, acceptor, setup, conns, active, thread, socket>>

Init ==
  /\ closing = "no"
  /\ acceptor = "check"
  /\ setup = "none"
  /\ conns = {}
  /\ active = 0
  /\ thread = [c \in Conns |-> "none"]
  /\ socket = [c \in Conns |-> "open"]

\* handle_connection runs: handshake, reader and writer.
Serving(c) == thread[c] = "serving"
Counted    == {c \in Conns : thread[c] \in {"serving", "ending"}}

-----------------------------------------------------------------------------
(* The accept loop.                                                        *)

\* The connection waits in the listener's queue.
Connect(c) ==
  /\ thread[c] = "none" /\ acceptor # "stopped"
  /\ thread' = [thread EXCEPT ![c] = "queued"]
  /\ UNCHANGED <<closing, acceptor, setup, conns, active, socket>>

\* Mutant: the loop goes on for as long as anyone is connected.
CheckFlagIdle ==
  /\ acceptor = "check"
  /\ acceptor' = IF closing = "no" \/ active > 0 THEN "accept" ELSE "stopped"
  /\ UNCHANGED <<closing, setup, conns, active, thread, socket>>

CheckFlag ==
  /\ acceptor = "check"
  /\ acceptor' = IF closing = "no" THEN "accept" ELSE "stopped"
  /\ UNCHANGED <<closing, setup, conns, active, thread, socket>>

Accept(c) ==
  /\ acceptor = "accept" /\ thread[c] = "queued"
  /\ acceptor' = "insert"
  /\ setup' = c
  /\ thread' = [thread EXCEPT ![c] = "accepted"]
  /\ UNCHANGED <<closing, conns, active, socket>>

WouldBlock ==
  /\ acceptor = "accept" /\ \A c \in Conns : thread[c] # "queued"
  /\ acceptor' = "check"
  /\ UNCHANGED <<closing, setup, conns, active, thread, socket>>

AcceptFails ==
  /\ acceptor = "accept"
  /\ acceptor' = "stopped"
  /\ UNCHANGED <<closing, setup, conns, active, thread, socket>>

Insert ==
  /\ acceptor = "insert"
  /\ acceptor' = "spawn"
  /\ conns' = conns \cup {setup}
  /\ UNCHANGED <<closing, setup, active, thread, socket>>

\* active is raised, then the thread is spawned with the guard ...
Spawn ==
  /\ acceptor = "spawn"
  /\ acceptor' = "check"
  /\ active' = active + 1
  /\ thread' = [thread EXCEPT ![setup] = "serving"]
  /\ setup' = "none"
  /\ UNCHANGED <<closing, conns, socket>>

\* Mutant: a guard that the spawned thread makes for itself.
SpawnFailsBare ==
  /\ acceptor = "spawn"
  /\ acceptor' = "check"
  /\ active' = active + 1
  /\ thread' = [thread EXCEPT ![setup] = "ended"]
  /\ setup' = "none"
  /\ UNCHANGED <<closing, conns, socket>>

\* ... or it is not, and the guard in the closure is dropped in this thread.
SpawnFails ==
  /\ acceptor = "spawn"
  /\ acceptor' = "check"
  /\ conns' = conns \ {setup}
  /\ thread' = [thread EXCEPT ![setup] = "ended"]
  /\ setup' = "none"
  /\ UNCHANGED <<closing, active, socket>>

-----------------------------------------------------------------------------
(* A connection's thread.                                                  *)

ViewerLeaves(c) ==
  /\ Serving(c) /\ socket[c] = "open"
  /\ socket' = [socket EXCEPT ![c] = "left"]
  /\ UNCHANGED <<closing, acceptor, setup, conns, active, thread>>

\* handle_connection returns: the handshake fails, or the reader and the
\* writer have come to an end.
ServeEnds(c) ==
  /\ Serving(c)
  /\ thread' = [thread EXCEPT ![c] = "ending"]
  /\ UNCHANGED <<closing, acceptor, setup, conns, active, socket>>

\* ConnGuard is dropped: the count, then the entry.
GuardCounts(c) ==
  /\ thread[c] = "ending"
  /\ active' = active - 1
  /\ thread' = [thread EXCEPT ![c] = "pruning"]
  /\ UNCHANGED <<closing, acceptor, setup, conns, socket>>

GuardPrunes(c) ==
  /\ thread[c] = "pruning"
  /\ conns' = conns \ {c}
  /\ thread' = [thread EXCEPT ![c] = "ended"]
  /\ UNCHANGED <<closing, acceptor, setup, active, socket>>

-----------------------------------------------------------------------------
(* shutdown(), called by the registry's finish() or when the view drops.   *)

ShutdownFlag ==
  /\ closing = "no"
  /\ closing' = "flagged"
  /\ UNCHANGED <<acceptor, setup, conns, active, thread, socket>>

\* Mutant: the map is dropped without shutting its sockets.
ShutdownDrainOnly ==
  /\ closing = "flagged"
  /\ closing' = "drained"
  /\ conns' = {}
  /\ UNCHANGED <<acceptor, setup, active, thread, socket>>

ShutdownDrain ==
  /\ closing = "flagged"
  /\ closing' = "drained"
  /\ socket' = [c \in Conns |-> IF c \in conns THEN "shut" ELSE socket[c]]
  /\ conns' = {}
  /\ UNCHANGED <<acceptor, setup, active, thread>>

ShutdownJoin ==
  /\ closing = "drained" /\ acceptor = "stopped"
  /\ closing' = "closed"
  /\ UNCHANGED <<acceptor, setup, conns, active, thread, socket>>

Closed == closing = "closed" /\ UNCHANGED vars

-----------------------------------------------------------------------------
AcceptStep == CheckFlag \/ (\E c \in Conns : Accept(c)) \/ WouldBlock \/ Insert
              \/ Spawn \/ SpawnFails
GuardStep(c) == GuardCounts(c) \/ GuardPrunes(c)
ShutdownStep == ShutdownDrain \/ ShutdownJoin

Next ==
  \/ AcceptStep \/ AcceptFails
  \/ \E c \in Conns : Connect(c) \/ ViewerLeaves(c) \/ ServeEnds(c) \/ GuardStep(c)
  \/ ShutdownFlag \/ ShutdownStep \/ Closed

Spec == Init /\ [][Next]_vars

(* The threads run, and a connection whose socket is no longer open ends    *)
(* (module ViewConn).                                                       *)
Fairness ==
  /\ WF_vars(AcceptStep) /\ WF_vars(ShutdownStep)
  /\ \A c \in Conns : /\ WF_vars(GuardStep(c))
                      /\ WF_vars(socket[c] # "open" /\ ServeEnds(c))
FairSpec == Spec /\ Fairness

-----------------------------------------------------------------------------
(* Type invariant. *)
TypeOK ==
  /\ closing \in {"no", "flagged", "drained", "closed"}
  /\ acceptor \in {"check", "accept", "insert", "spawn", "stopped"}
  /\ setup \in Conns \cup {"none"}
  /\ conns \in SUBSET Conns /\ active \in Nat
  /\ thread \in [Conns -> {"none", "queued", "accepted", "serving", "ending",
                           "pruning", "ended"}]
  /\ socket \in [Conns -> {"open", "left", "shut"}]

(* The idle sweep and the map see the connections that are served and no    *)
(* others: neither a count nor an entry outlives its connection's thread,   *)
(* and a connection is in the map before its thread can end (ConnGuard).    *)
GuardExact ==
  /\ active = Cardinality(Counted)
  /\ \A c \in conns : c = setup \/ thread[c] \in {"serving", "ending", "pruning"}
  /\ closing = "no" => \A c \in Conns : Serving(c) => c \in conns

(* When shutdown() has returned, every connection is over or its socket is  *)
(* shut, but for the one that was being accepted while the map was drained. *)
OneStraggler ==
  closing = "closed" =>
    Cardinality({c \in Conns : Serving(c) /\ socket[c] = "open"}) <= 1

(* The connections are accounted for, while the server runs and after it.   *)
ConnsAccounted == GuardExact /\ OneStraggler

(* finish() of the registry does not hang on the view. *)
ShutdownReturns == closing = "flagged" ~> closing = "closed"
=============================================================================
