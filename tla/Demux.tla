------------------------------- MODULE Demux --------------------------------
(***************************************************************************)
(* The agent connection of a desktop session (vmette/session.rs): its lazy *)
(* construction (AgentConn), the request demultiplexer and its reader      *)
(* thread (Demux, demux_reader), against the single-threaded guest agent.  *)
(*                                                                         *)
(* A request is one call of AgentConn::request on a thread of its own.     *)
(* Every action is one critical section of init, waiters, poison or write, *)
(* one operation on the request's channel, or one frame on the fd.  The    *)
(* socket keeps the two streams apart but not in order: the guest answers  *)
(* slow actions from its select loop when they finish.                     *)
(*                                                                         *)
(* Left out: payloads and poison messages; that next_id wraps only after   *)
(* 2^32 requests is IdSpace, large enough for the requests of a run.  Only *)
(* the guest may be slow without limit, so a blocked write is bounded by   *)
(* WireCap, the frames that fit in the socket buffer.                      *)
(***************************************************************************)
EXTENDS Naturals, FiniteSets

CONSTANTS
  Requests,   \* calls of request(), each on its own thread
  IdSpace,    \* 2^32: number of request ids
  WireCap     \* unread request frames the socket buffer holds

None == "none"

ASSUME DemuxAssumption ==
  /\ IsFiniteSet(Requests)
  /\ IdSpace \in Nat \ {0} /\ Cardinality(Requests) <= IdSpace
  /\ WireCap \in Nat \ {0}
  /\ {None, "error"} \cap Requests = {}

VARIABLES
  pc,        \* where each request is
  connected, \* the listener has delivered the agent's fd
  initLock,  \* holder of AgentConn.init
  ready,     \* AgentConn.demux is set
  readers,   \* reader threads started on the fd
  reader,    \* what the reader thread is doing
  nextId,    \* Demux.next_id
  id,        \* the id each request drew
  waiters,   \* Demux.waiters: id and request (its sender)
  poison,    \* the stream is marked unusable
  writeLock, \* holder of Demux.write
  chan,      \* each request's channel: None, "error", or the request the
             \* delivered reply belongs to
  wire       \* where each request's frame, then its response, is

vars == <<pc, connected, initLock, ready, readers, reader, nextId, id, waiters,
          poison, writeLock, chan, wire>>

conn == <<connected, initLock, ready, readers>>

PcSet == {"idle", "init", "connecting", "enter", "register", "recheck", "lock",
          "writing", "poisoning", "waiting", "replied", "failed"}

\* A request that has drawn its id and has not returned.
Registered == {"recheck", "lock", "writing", "waiting"}
Returned   == {"replied", "failed"}

Init ==
  /\ pc = [r \in Requests |-> "idle"]
  /\ connected = FALSE
  /\ initLock = None
  /\ ready = FALSE
  /\ readers = 0
  /\ reader = "none"
  /\ nextId = 0
  /\ id = [r \in Requests |-> 0]
  /\ waiters = {}
  /\ poison = FALSE
  /\ writeLock = None
  /\ chan = [r \in Requests |-> None]
  /\ wire = [r \in Requests |-> "unsent"]

Goto(r, label) == pc' = [pc EXCEPT ![r] = label]

-----------------------------------------------------------------------------
(* AgentConn::demux: build the demultiplexer on the first request.         *)

Call(r) ==
  /\ pc[r] = "idle"
  /\ Goto(r, IF ready THEN "enter" ELSE "init")
  /\ UNCHANGED <<conn, reader, nextId, id, waiters, poison, writeLock, chan, wire>>

LoseInitRace(r) ==
  /\ pc[r] = "init" /\ initLock = None /\ ready
  /\ Goto(r, "enter")
  /\ UNCHANGED <<conn, reader, nextId, id, waiters, poison, writeLock, chan, wire>>

\* Mutant: the second look at the demux under init is missing.
WinInitRaceUnchecked(r) ==
  /\ pc[r] = "init" /\ initLock = None
  /\ Goto(r, "connecting")
  /\ initLock' = r
  /\ UNCHANGED <<connected, ready, readers, reader, nextId, id, waiters, poison,
                 writeLock, chan, wire>>

WinInitRace(r) ==
  /\ pc[r] = "init" /\ initLock = None /\ ~ready
  /\ Goto(r, "connecting")
  /\ initLock' = r
  /\ UNCHANGED <<connected, ready, readers, reader, nextId, id, waiters, poison,
                 writeLock, chan, wire>>

\* The listener takes the sender with the first connection of the agent.
AgentConnects ==
  /\ ~connected /\ connected' = TRUE
  /\ UNCHANGED <<pc, initLock, ready, readers, reader, nextId, id, waiters,
                 poison, writeLock, chan, wire>>

\* fd() returns, the reader thread is spawned, the demux is set.
StartDemux(r) ==
  /\ pc[r] = "connecting" /\ connected
  /\ Goto(r, "enter")
  /\ initLock' = None
  /\ ready' = TRUE
  /\ readers' = readers + 1
  /\ reader' = "reading"
  /\ UNCHANGED <<connected, nextId, id, waiters, poison, writeLock, chan, wire>>

\* AGENT_CONNECT_TIMEOUT; the fd may still arrive for the next caller.
ConnectTimeout(r) ==
  /\ pc[r] = "connecting" /\ ~connected
  /\ Goto(r, "failed")
  /\ initLock' = None
  /\ UNCHANGED <<connected, ready, readers, reader, nextId, id, waiters, poison,
                 writeLock, chan, wire>>

-----------------------------------------------------------------------------
(* Demux::request.                                                         *)

Enter(r) ==
  /\ pc[r] = "enter"
  /\ Goto(r, IF poison THEN "failed" ELSE "register")
  /\ UNCHANGED <<conn, reader, nextId, id, waiters, poison, writeLock, chan, wire>>

\* Draw an id and insert the sender, replacing an entry with the same id.
Register(r) ==
  /\ pc[r] = "register"
  /\ Goto(r, "recheck")
  /\ nextId' = (nextId + 1) % IdSpace
  /\ id' = [id EXCEPT ![r] = nextId]
  /\ waiters' = {w \in waiters : w.id # nextId} \cup {[id |-> nextId, req |-> r]}
  /\ UNCHANGED <<conn, reader, poison, writeLock, chan, wire>>

Forget(r) == waiters' = {w \in waiters : w.id # id[r]}

\* Mutant: poison is not read again after the insert.
RecheckNothing(r) ==
  /\ pc[r] = "recheck"
  /\ Goto(r, "lock")
  /\ UNCHANGED <<conn, reader, nextId, id, waiters, poison, writeLock, chan, wire>>

\* poison is never cleared, so reading it and removing the entry is one step.
Recheck(r) ==
  /\ pc[r] = "recheck"
  /\ IF poison THEN Goto(r, "failed") /\ Forget(r)
               ELSE Goto(r, "lock") /\ UNCHANGED waiters
  /\ UNCHANGED <<conn, reader, nextId, id, poison, writeLock, chan, wire>>

LockWrite(r) ==
  /\ pc[r] = "lock" /\ writeLock = None
  /\ Goto(r, "writing")
  /\ writeLock' = r
  /\ UNCHANGED <<conn, reader, nextId, id, waiters, poison, chan, wire>>

Unread == {r \in Requests : wire[r] = "unread"}

\* The whole frame is in the socket buffer.
WriteOk(r) ==
  /\ pc[r] = "writing" /\ Cardinality(Unread) < WireCap
  /\ Goto(r, "waiting")
  /\ writeLock' = None
  /\ wire' = [wire EXCEPT ![r] = "unread"]
  /\ UNCHANGED <<conn, reader, nextId, id, waiters, poison, chan>>

\* Nothing or a part of the frame was written: drop the entry ...
WriteFail(r) ==
  /\ pc[r] = "writing"
  /\ Goto(r, "poisoning")
  /\ Forget(r)
  /\ UNCHANGED <<conn, reader, nextId, id, poison, writeLock, chan, wire>>

\* ... and poison the stream, before the lock is released.
PoisonStream(r) ==
  /\ pc[r] = "poisoning"
  /\ Goto(r, "failed")
  /\ poison' = TRUE
  /\ writeLock' = None
  /\ UNCHANGED <<conn, reader, nextId, id, waiters, chan, wire>>

Receive(r) ==
  /\ pc[r] = "waiting" /\ chan[r] # None
  /\ Goto(r, IF chan[r] = "error" THEN "failed" ELSE "replied")
  /\ UNCHANGED <<conn, reader, nextId, id, waiters, poison, writeLock, chan, wire>>

\* Mutant: recv() without a timeout.
GiveUpNever(r) ==
  /\ pc[r] = "waiting" /\ chan[r] = None /\ poison
  /\ Goto(r, "failed")
  /\ Forget(r)
  /\ UNCHANGED <<conn, reader, nextId, id, poison, writeLock, chan, wire>>

\* AGENT_READ_TIMEOUT: recv_timeout gives up on an empty channel, then the
\* entry is removed; what the reader sends in between nobody receives.
GiveUp(r) ==
  /\ pc[r] = "waiting" /\ chan[r] = None
  /\ Goto(r, "failed")
  /\ Forget(r)
  /\ UNCHANGED <<conn, reader, nextId, id, poison, writeLock, chan, wire>>

-----------------------------------------------------------------------------
(* The guest agent: takes frames up, answers each one under its id.        *)

AgentRuns(r) ==
  /\ wire[r] = "unread"
  /\ wire' = [wire EXCEPT ![r] = "running"]
  /\ UNCHANGED <<pc, conn, reader, nextId, id, waiters, poison, writeLock, chan>>

AgentAnswers(r) ==
  /\ wire[r] = "running"
  /\ wire' = [wire EXCEPT ![r] = "answered"]
  /\ UNCHANGED <<pc, conn, reader, nextId, id, waiters, poison, writeLock, chan>>

-----------------------------------------------------------------------------
(* demux_reader.                                                           *)

\* Mutant: the response goes to whichever caller waits.
RouteToAnyone(r) ==
  LET hit == IF waiters = {} THEN {} ELSE {CHOOSE w \in waiters : TRUE}
  IN /\ reader = "reading" /\ wire[r] = "answered"
     /\ wire' = [wire EXCEPT ![r] = "read"]
     /\ waiters' = waiters \ hit
     /\ chan' = [q \in Requests |->
                   IF \E w \in hit : w.req = q THEN r ELSE chan[q]]
     /\ UNCHANGED <<pc, conn, reader, nextId, id, poison, writeLock>>

\* Remove the waiter of the response's id and send it the response, in one
\* hold of the lock; without a waiter the response is dropped.
Route(r) ==
  LET hit == {w \in waiters : w.id = id[r]}
  IN /\ reader = "reading" /\ wire[r] = "answered"
     /\ wire' = [wire EXCEPT ![r] = "read"]
     /\ waiters' = waiters \ hit
     /\ chan' = [q \in Requests |->
                   IF \E w \in hit : w.req = q THEN r ELSE chan[q]]
     /\ UNCHANGED <<pc, conn, reader, nextId, id, poison, writeLock>>

\* EOF, a failed read, or a header that does not parse.
ReadFails ==
  /\ reader = "reading"
  /\ reader' = "draining"
  /\ poison' = TRUE
  /\ UNCHANGED <<pc, conn, nextId, id, waiters, writeLock, chan, wire>>

Drain ==
  /\ reader = "draining"
  /\ reader' = "gone"
  /\ waiters' = {}
  /\ chan' = [q \in Requests |->
                IF \E w \in waiters : w.req = q THEN "error" ELSE chan[q]]
  /\ UNCHANGED <<pc, conn, nextId, id, poison, writeLock, wire>>

-----------------------------------------------------------------------------
RequestStep(r) ==
  \/ LoseInitRace(r) \/ WinInitRace(r) \/ StartDemux(r) \/ ConnectTimeout(r)
  \/ Enter(r) \/ Register(r) \/ Recheck(r) \/ LockWrite(r) \/ WriteOk(r)
  \/ PoisonStream(r) \/ Receive(r) \/ GiveUp(r)

AgentStep(r) == AgentRuns(r) \/ AgentAnswers(r)

\* Nothing is left to happen: every request has returned, nothing is on its way.
Quiet ==
  /\ \A r \in Requests : pc[r] \in Returned
  /\ UNCHANGED vars

Next ==
  \/ \E r \in Requests : Call(r) \/ RequestStep(r) \/ WriteFail(r) \/ AgentStep(r) \/ Route(r)
  \/ AgentConnects \/ ReadFails \/ Drain \/ Quiet

Spec == Init /\ [][Next]_vars

(* Threads run and timers fire; the agent owes nothing: it need not connect, *)
(* read its socket or answer, and the stream need not break.                *)
Fairness == \A r \in Requests : WF_vars(RequestStep(r))
FairSpec == Spec /\ Fairness /\ WF_vars(Drain)

-----------------------------------------------------------------------------
(* Type invariant. *)
TypeOK ==
  /\ pc \in [Requests -> PcSet]
  /\ connected \in BOOLEAN
  /\ initLock \in Requests \cup {None}
  /\ ready \in BOOLEAN
  /\ readers \in Nat
  /\ reader \in {"none", "reading", "draining", "gone"}
  /\ nextId \in 0..(IdSpace - 1)
  /\ id \in [Requests -> Nat]
  /\ waiters \subseteq [id : Nat, req : Requests]
  /\ poison \in BOOLEAN
  /\ writeLock \in Requests \cup {None}
  /\ chan \in [Requests -> Requests \cup {None, "error"}]
  /\ wire \in [Requests -> {"unsent", "unread", "running", "answered", "read"}]

(* A burst of first requests starts one reader thread on the fd, whatever   *)
(* the connect timeouts among them (session.rs:320-324, 342-353): two would *)
(* take each other's bytes.                                                 *)
OneReader == readers <= 1

(* A waiting caller is always going to be woken before its timeout when the *)
(* reader dies: its entry is in the map and the reader has not drained it   *)
(* yet, or a message is in its channel.  So the poison race of              *)
(* session.rs:223-229 is closed, and the Disconnected arm (261-266) is dead.*)
NeverStranded ==
  \A r \in Requests : pc[r] \in {"lock", "writing", "waiting"} =>
     \/ chan[r] # None
     \/ reader # "gone" /\ \E w \in waiters : w.req = r /\ w.id = id[r]

(* The reader never blocks on a caller's one-slot channel while it holds    *)
(* the waiters lock, and no entry outlives its request: whatever is in the  *)
(* map belongs to a request in flight whose channel is empty                *)
(* (session.rs:167-170, 282-289).                                           *)
SendNeverBlocks ==
  \A w \in waiters : pc[w.req] \in Registered /\ chan[w.req] = None

Asked   == {r \in Requests : pc[r] # "idle"}
Ran     == {r \in Requests : wire[r] \notin {"unsent", "unread"}}
Outcome == [r \in Requests |->
              CASE pc[r] = "failed" -> "failed"
                [] pc[r] = "replied" -> IF chan[r] = r THEN "replied" ELSE "mistaken"
                [] OTHER -> "none"]

(* A request that times out leaves the stream in step: the caller of each   *)
(* request gets the reply to it or an error, never another's reply, and the *)
(* guest has run what it replies to (session.rs:151-153).                   *)
Answers == INSTANCE Rpc WITH asked <- Asked, ran <- Ran, outcome <- Outcome
ImplementsRpc == Answers!Spec

(* Every call returns, whether or not the agent connects or answers: locks  *)
(* are released, the connect and read timeouts fire (session.rs:213-268,    *)
(* 342-371).  The exception is an agent that stops reading with the socket  *)
(* buffer full, behind which a write has no timeout.                        *)
RequestReturns == \A r \in Requests :
  pc[r] # "idle" ~> pc[r] \in Returned \/ Cardinality(Unread) >= WireCap
=============================================================================
