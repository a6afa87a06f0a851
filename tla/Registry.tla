------------------------------ MODULE Registry ------------------------------
(***************************************************************************)
(* The desktop session registry of the daemon (vmette-daemon/registry.rs)  *)
(* with the parts of main.rs that drive it: request tasks, the idle        *)
(* sweeper and shutdown.                                                   *)
(*                                                                         *)
(* A session id is drawn at random by start() and never reused, so a       *)
(* session is identified with the start() call (the boot) that makes it.   *)
(* Every action is one critical section of the sessions mutex, or one      *)
(* blocking call made outside it.  Time is counted in ticks; last_used is  *)
(* kept as the session's age since it was last used, which saturates one   *)
(* past the idle TTL because nothing tells larger ages apart, and is 0     *)
(* for an id that has no entry.                                            *)
(*                                                                         *)
(* Left out: the content of screenshots, image resolution (it succeeds or  *)
(* fails), and how a VM is stopped (module SessionEnd) or asked something  *)
(* (module Demux).                                                         *)
(***************************************************************************)
EXTENDS Naturals, FiniteSets

CONSTANTS
  Boots,        \* start() calls, hence session ids
  Clients,      \* threads serving the other requests (spawn_blocking)
  Max,          \* MAX_DESKTOP_SESSIONS
  IdleTtl,      \* DESKTOP_IDLE_TTL, in ticks
  ReqMax,       \* longest round-trip with the guest, in ticks
  MaxViewers,   \* bound of the model: VNC viewers connected to one session
  MaxRuns       \* bound of the model: one-shot runs in flight

ASSUME RegistryAssumption ==
  /\ Max \in Nat
  /\ IdleTtl \in Nat
  /\ ReqMax \in Nat
  /\ MaxViewers \in Nat
  /\ MaxRuns \in Nat
  /\ ReqMax <= IdleTtl   \* 30 s against 30 min
  /\ Boots \cap Clients = {}
  /\ {"sweeper", "shutdown"} \cap Clients = {}

VARIABLES
  boot,       \* how far each start() call has come
  sessions,   \* the keys of the sessions map
  reserving,  \* the in-flight counter
  vm,         \* what each session's own thread is doing
  idle,       \* now - last_used of each entry, saturated at IdleTtl + 1
  view,       \* sessions whose live VNC view is listening
  viewers,    \* active_connections() of each view
  call,       \* the guest round-trip each thread is blocked in, or NoCall
  queue,      \* entries each thread took out of the map and must finish()
  teardown,   \* how far finish() has come with each entry
  phase,      \* the daemon: serving, draining, stopping, dropping or exited
  runs        \* how many one-shot runs have a worker on the blocking pool

vars == <<boot, sessions, reserving, vm, idle, view, viewers, call, queue,
          teardown, phase, runs>>

-----------------------------------------------------------------------------
Sweeper  == "sweeper"    \* the background eviction task
Shutdown == "shutdown"   \* the task that runs stop_all

Callers   == Boots \cup Clients
Finishers == Clients \cup {Sweeper, Shutdown}

NoCall == [id |-> "none"]

\* A start() that counts in `reserving`, and one not yet in the map.
Holding  == {b \in Boots : boot[b] \in {"reserved", "booting", "inserted"}}
Pending  == {b \in Boots : boot[b] \in {"reserved", "booting"}}

\* The slots in use: what the cap is meant to bound.
Held == sessions \cup Pending

BootStages == {"new", "refused", "reserved", "booting", "inserted",
               "committed", "settling", "returned", "failed"}

\* Requests are only handed to a blocking thread while the runtime lives: the
\* accept loop ends at "draining", but a request already accepted still runs.
Accepting == phase \in {"serving", "draining", "stopping"}

Init ==
  /\ boot = [b \in Boots |-> "new"]
  /\ sessions = {}
  /\ reserving = 0
  /\ vm = [b \in Boots |-> "none"]
  /\ idle = [b \in Boots |-> 0]
  /\ view = {}
  /\ viewers = [b \in Boots |-> 0]
  /\ call = [t \in Callers |-> NoCall]
  /\ queue = [f \in Finishers |-> {}]
  /\ teardown = [b \in Boots |-> "no"]
  /\ phase = "serving"
  /\ runs = 0

-----------------------------------------------------------------------------
(* start(): reserve, resolve, spawn, wait for the handles, insert, commit. *)

\* Mutant: off by one.
AtCapOneMore == Cardinality(sessions) + reserving > Max

AtCap == Cardinality(sessions) + reserving >= Max

StartRefuse(b) ==
  /\ Accepting /\ boot[b] = "new" /\ AtCap
  /\ boot' = [boot EXCEPT ![b] = "refused"]
  /\ UNCHANGED <<sessions, reserving, vm, idle, view, viewers, call, queue,
                 teardown, phase, runs>>

StartReserve(b) ==
  /\ Accepting /\ boot[b] = "new" /\ ~AtCap
  /\ boot' = [boot EXCEPT ![b] = "reserved"]
  /\ reserving' = reserving + 1
  /\ UNCHANGED <<sessions, vm, idle, view, viewers, call, queue, teardown,
                 phase, runs>>

\* Mutant: start() gives up on a thread that has not reported yet.
StartFailImpatient(b) ==
  /\ \/ boot[b] = "reserved"
     \/ boot[b] = "booting" /\ vm[b] \in {"starting", "failed"}
  /\ boot' = [boot EXCEPT ![b] = "failed"]
  /\ reserving' = reserving - 1
  /\ UNCHANGED <<sessions, vm, idle, view, viewers, call, queue, teardown,
                 phase, runs>>

\* Mutant: a thread that fails never answers on the channel.
StartFailDeaf(b) ==
  /\ boot[b] = "reserved"
  /\ boot' = [boot EXCEPT ![b] = "failed"]
  /\ reserving' = reserving - 1
  /\ UNCHANGED <<sessions, vm, idle, view, viewers, call, queue, teardown,
                 phase, runs>>

\* The image does not resolve, or the thread reports that the session did not
\* start: the guard is dropped uncommitted.
StartFail(b) ==
  /\ \/ boot[b] = "reserved"
     \/ boot[b] = "booting" /\ vm[b] = "failed"
  /\ boot' = [boot EXCEPT ![b] = "failed"]
  /\ reserving' = reserving - 1
  /\ UNCHANGED <<sessions, vm, idle, view, viewers, call, queue, teardown,
                 phase, runs>>

SpawnThread(b) ==
  /\ boot[b] = "reserved"
  /\ boot' = [boot EXCEPT ![b] = "booting"]
  /\ vm' = [vm EXCEPT ![b] = "starting"]
  /\ UNCHANGED <<sessions, reserving, idle, view, viewers, call, queue,
                 teardown, phase, runs>>

\* The handles were sent; the VM may already be gone again by now.
StartInsert(b) ==
  /\ boot[b] = "booting" /\ vm[b] \in {"up", "down"}
  /\ boot' = [boot EXCEPT ![b] = "inserted"]
  /\ sessions' = sessions \cup {b}
  /\ idle' = [idle EXCEPT ![b] = 0]
  /\ UNCHANGED <<reserving, vm, view, viewers, call, queue, teardown, phase,
                 runs>>

\* reservation.commit(), outside the lock.
StartCommit(b) ==
  /\ boot[b] = "inserted"
  /\ boot' = [boot EXCEPT ![b] = "committed"]
  /\ reserving' = reserving - 1
  /\ UNCHANGED <<sessions, vm, idle, view, viewers, call, queue, teardown,
                 phase, runs>>

\* The readiness barrier: start() itself polls until the first frame settles.
StartSettle(b) ==
  /\ boot[b] = "committed"
  /\ IF b \in sessions
     THEN /\ boot' = [boot EXCEPT ![b] = "settling"]
          /\ idle' = [idle EXCEPT ![b] = 0]
          /\ call' = [call EXCEPT ![b] = [id |-> b, age |-> 0, poll |-> TRUE]]
     ELSE /\ boot' = [boot EXCEPT ![b] = "returned"]
          /\ UNCHANGED <<idle, call>>
  /\ UNCHANGED <<sessions, reserving, vm, view, viewers, queue, teardown, phase,
                 runs>>

-----------------------------------------------------------------------------
(* The session's own thread.                                               *)

SessionUp(b) ==
  /\ vm[b] = "starting"
  /\ vm' = [vm EXCEPT ![b] = "up"]
  /\ UNCHANGED <<boot, sessions, reserving, idle, view, viewers, call, queue,
                 teardown, phase, runs>>

SessionFails(b) ==
  /\ vm[b] = "starting"
  /\ vm' = [vm EXCEPT ![b] = "failed"]
  /\ UNCHANGED <<boot, sessions, reserving, idle, view, viewers, call, queue,
                 teardown, phase, runs>>

\* wait() returns and the Session is dropped: the guest ended by itself ...
GuestEnds(b) ==
  /\ vm[b] = "up" /\ teardown[b] # "join" /\ phase # "exited"
  /\ vm' = [vm EXCEPT ![b] = "down"]
  /\ UNCHANGED <<boot, sessions, reserving, idle, view, viewers, call, queue,
                 teardown, phase, runs>>

\* ... or because finish() issued its stop.
StopTakesEffect(b) ==
  /\ vm[b] = "up" /\ teardown[b] = "join"
  /\ vm' = [vm EXCEPT ![b] = "down"]
  /\ UNCHANGED <<boot, sessions, reserving, idle, view, viewers, call, queue,
                 teardown, phase, runs>>

-----------------------------------------------------------------------------
(* Requests on a live session.                                             *)

\* action, what_changed, or screenshot_when_settled (which polls): touch the
\* entry, clone the client out of the map, release the lock, ask the guest.
BeginCall(c, b, poll) ==
  /\ Accepting /\ call[c] = NoCall /\ queue[c] = {} /\ b \in sessions
  /\ idle' = [idle EXCEPT ![b] = 0]
  /\ call' = [call EXCEPT ![c] = [id |-> b, age |-> 0, poll |-> poll]]
  /\ UNCHANGED <<boot, sessions, reserving, vm, view, viewers, queue, teardown,
                 phase, runs>>

\* Mutant: the settle loop does not touch the entry.
TouchNothing(b) == idle' = idle

\* touch() of the settle loop: a no-op when the entry is gone.
Touch(b) == idle' = IF b \in sessions THEN [idle EXCEPT ![b] = 0] ELSE idle

\* Not settled for long enough yet: touch, sleep, ask again.  (At age 0 the
\* entry has just been touched and asking again changes nothing.)
PollAgain(t) ==
  /\ call[t] # NoCall /\ call[t].poll /\ call[t].age > 0
  /\ Touch(call[t].id)
  /\ call' = [call EXCEPT ![t].age = 0]
  /\ UNCHANGED <<boot, sessions, reserving, vm, view, viewers, queue, teardown,
                 phase, runs>>

\* The answer, the error of a dead session, or the deadline of the poll.
EndCall(t) ==
  /\ call[t] # NoCall
  /\ call' = [call EXCEPT ![t] = NoCall]
  /\ boot' = IF t \in Boots THEN [boot EXCEPT ![t] = "returned"] ELSE boot
  /\ UNCHANGED <<sessions, reserving, vm, idle, view, viewers, queue, teardown,
                 phase, runs>>

\* view(): look up or start the live view under the lock; the bind may fail.
OpenView(b) ==
  /\ Accepting /\ b \in sessions
  /\ idle' = [idle EXCEPT ![b] = 0]
  /\ view' \in {view, view \cup {b}}
  /\ UNCHANGED <<boot, sessions, reserving, vm, viewers, call, queue, teardown,
                 phase, runs>>

ViewerConnects(b) ==
  /\ b \in view /\ viewers[b] < MaxViewers /\ phase # "exited"
  /\ viewers' = [viewers EXCEPT ![b] = @ + 1]
  /\ UNCHANGED <<boot, sessions, reserving, vm, idle, view, call, queue,
                 teardown, phase, runs>>

ViewerLeaves(b) ==
  /\ viewers[b] > 0 /\ phase # "exited"
  /\ viewers' = [viewers EXCEPT ![b] = @ - 1]
  /\ UNCHANGED <<boot, sessions, reserving, vm, idle, view, call, queue,
                 teardown, phase, runs>>

-----------------------------------------------------------------------------
(* Removal: the entry leaves the map under the lock, finish() runs after.  *)

\* Mutant: the entry is looked up, not removed.
StopLeavesEntry(c, b) ==
  /\ Accepting /\ call[c] = NoCall /\ queue[c] = {} /\ b \in sessions
  /\ queue' = [queue EXCEPT ![c] = {b}]
  /\ teardown' = [teardown EXCEPT ![b] = "view"]
  /\ UNCHANGED <<boot, sessions, reserving, vm, idle, view, viewers, call,
                 phase, runs>>

Stop(c, b) ==
  /\ Accepting /\ call[c] = NoCall /\ queue[c] = {} /\ b \in sessions
  /\ sessions' = sessions \ {b}
  /\ idle' = [idle EXCEPT ![b] = 0]
  /\ queue' = [queue EXCEPT ![c] = {b}]
  /\ teardown' = [teardown EXCEPT ![b] = "view"]
  /\ UNCHANGED <<boot, reserving, vm, view, viewers, call, phase, runs>>

Watched == {b \in sessions : b \in view /\ viewers[b] > 0}

\* Mutant: a session with a live view is never stale.
StaleUnviewed == {b \in sessions \ view : idle[b] > IdleTtl}

\* A watched session is refreshed before the stale ones are picked.
Stale == {b \in sessions \ Watched : idle[b] > IdleTtl}

\* Mutant: the evicted entries are dropped, not finished.
SweepForgets ==
  /\ Accepting /\ queue[Sweeper] = {}
  /\ idle' = [b \in Boots |-> IF b \in Watched \cup Stale THEN 0 ELSE idle[b]]
  /\ sessions' = sessions \ Stale
  /\ teardown' = [b \in Boots |-> IF b \in Stale THEN "view" ELSE teardown[b]]
  /\ UNCHANGED <<boot, reserving, vm, view, viewers, call, queue, phase, runs>>

SweepIdle ==
  /\ Accepting /\ queue[Sweeper] = {}
  /\ idle' = [b \in Boots |-> IF b \in Watched \cup Stale THEN 0 ELSE idle[b]]
  /\ sessions' = sessions \ Stale
  /\ queue' = [queue EXCEPT ![Sweeper] = Stale]
  /\ teardown' = [b \in Boots |-> IF b \in Stale THEN "view" ELSE teardown[b]]
  /\ UNCHANGED <<boot, reserving, vm, view, viewers, call, phase, runs>>

\* One entry of a thread's list is finished at a time.
Busy(f) == \E b \in queue[f] : teardown[b] # "view"

FinishView(f, b) ==
  /\ b \in queue[f] /\ teardown[b] = "view" /\ ~Busy(f)
  /\ view' = view \ {b}
  /\ viewers' = [viewers EXCEPT ![b] = 0]
  /\ teardown' = [teardown EXCEPT ![b] = "stop"]
  /\ UNCHANGED <<boot, sessions, reserving, vm, idle, call, queue, phase, runs>>

FinishStop(f, b) ==
  /\ b \in queue[f] /\ teardown[b] = "stop"
  /\ teardown' = [teardown EXCEPT ![b] = "join"]
  /\ UNCHANGED <<boot, sessions, reserving, vm, idle, view, viewers, call,
                 queue, phase, runs>>

FinishJoin(f, b) ==
  /\ b \in queue[f] /\ teardown[b] = "join" /\ vm[b] = "down"
  /\ queue' = [queue EXCEPT ![f] = @ \ {b}]
  /\ teardown' = [teardown EXCEPT ![b] = "done"]
  /\ UNCHANGED <<boot, sessions, reserving, vm, idle, view, viewers, call,
                 phase, runs>>

-----------------------------------------------------------------------------
(* Shutdown: SIGTERM ends the accept loop; stop_all runs if len() > 0; then *)
(* the socket is removed, main returns, and dropping the runtime waits for  *)
(* the blocking calls that are running, without starting new ones.  The     *)
(* workers of one-shot runs are among them (module RunLane): the task that  *)
(* could stop one is dropped, so a run ends with its guest or its timeout,  *)
(* if it has one.                                                           *)

RunBegins ==
  /\ Accepting /\ runs < MaxRuns
  /\ runs' = runs + 1
  /\ UNCHANGED <<boot, sessions, reserving, vm, idle, view, viewers, call,
                 queue, teardown, phase>>

\* Its guest or its timeout ended it, or its image did not resolve.
RunEnds ==
  /\ runs > 0
  /\ runs' = runs - 1
  /\ UNCHANGED <<boot, sessions, reserving, vm, idle, view, viewers, call,
                 queue, teardown, phase>>

Signal ==
  /\ phase = "serving"
  /\ phase' = "draining"
  /\ UNCHANGED <<boot, sessions, reserving, vm, idle, view, viewers, call,
                 queue, teardown, runs>>

StopAll ==
  /\ phase = "draining" /\ sessions # {}
  /\ phase' = "stopping"
  /\ queue' = [queue EXCEPT ![Shutdown] = sessions]
  /\ teardown' = [b \in Boots |-> IF b \in sessions THEN "view" ELSE teardown[b]]
  /\ sessions' = {}
  /\ idle' = [b \in Boots |-> 0]
  /\ UNCHANGED <<boot, reserving, vm, view, viewers, call, runs>>

MainReturns ==
  /\ \/ phase = "draining" /\ sessions = {}
     \/ phase = "stopping" /\ queue[Shutdown] = {}
  /\ phase' = "dropping"
  /\ UNCHANGED <<boot, sessions, reserving, vm, idle, view, viewers, call,
                 queue, teardown, runs>>

\* Mutant: the runtime also waits for the map to empty.
ExitWaitsForMap ==
  /\ phase = "dropping" /\ runs = 0 /\ sessions = {}
  /\ \A b \in Boots : boot[b] \in {"new", "refused", "failed", "returned"}
  /\ \A t \in Callers : call[t] = NoCall
  /\ \A f \in Finishers : queue[f] = {}
  /\ phase' = "exited"
  /\ UNCHANGED <<boot, sessions, reserving, vm, idle, view, viewers, call,
                 queue, teardown, runs>>

Exit ==
  /\ phase = "dropping" /\ runs = 0
  /\ \A b \in Boots : boot[b] \in {"new", "refused", "failed", "returned"}
  /\ \A t \in Callers : call[t] = NoCall
  /\ \A f \in Finishers : queue[f] = {}
  /\ phase' = "exited"
  /\ UNCHANGED <<boot, sessions, reserving, vm, idle, view, viewers, call,
                 queue, teardown, runs>>

Exited == phase = "exited" /\ UNCHANGED vars

-----------------------------------------------------------------------------
(* Time passes, but not beyond the round-trip timeout of a blocked call.   *)
Tick ==
  /\ phase # "exited"
  /\ \A t \in Callers : call[t] # NoCall => call[t].age < ReqMax
  /\ idle' = [b \in Boots |-> IF b \in sessions /\ idle[b] <= IdleTtl
                              THEN idle[b] + 1 ELSE idle[b]]
  /\ call' = [t \in Callers |->
                IF call[t] = NoCall THEN NoCall
                ELSE [call[t] EXCEPT !.age = @ + 1]]
  /\ UNCHANGED <<boot, sessions, reserving, vm, view, viewers, queue, teardown,
                 phase, runs>>

StartStep(b) == \/ StartRefuse(b) \/ StartReserve(b) \/ StartFail(b)
                \/ SpawnThread(b) \/ StartInsert(b) \/ StartCommit(b)
                \/ StartSettle(b)
ThreadStep(b) == SessionUp(b) \/ SessionFails(b) \/ StopTakesEffect(b)
ViewStep(b) == OpenView(b) \/ ViewerConnects(b) \/ ViewerLeaves(b)
FinishStep(f, b) == FinishView(f, b) \/ FinishStop(f, b) \/ FinishJoin(f, b)
ShutdownStep == StopAll \/ MainReturns \/ Exit

Next ==
  \/ \E b \in Boots : StartStep(b) \/ ThreadStep(b) \/ GuestEnds(b) \/ ViewStep(b)
  \/ \E c \in Clients, b \in Boots :
       Stop(c, b) \/ \E poll \in BOOLEAN : BeginCall(c, b, poll)
  \/ \E t \in Callers : PollAgain(t) \/ EndCall(t)
  \/ \E f \in Finishers, b \in Boots : FinishStep(f, b)
  \/ RunBegins \/ RunEnds
  \/ SweepIdle \/ Signal \/ ShutdownStep \/ Exited \/ Tick

Spec == Init /\ [][Next]_vars

(* Fairness: OS threads run, blocked guest calls time out (module Demux), a *)
(* stop that was issued ends the VM (module SessionEnd), the sweeper's timer *)
(* fires and the clock advances.  No client, viewer or guest is fair, nor   *)
(* the end of a one-shot run, which by default has no timeout.              *)
Fairness ==
  /\ \A b \in Boots : /\ WF_vars(boot[b] # "new" /\ StartStep(b))
                      /\ WF_vars(ThreadStep(b))
  /\ \A t \in Callers : WF_vars(EndCall(t))
  /\ \A f \in Finishers, b \in Boots : WF_vars(FinishStep(f, b))
  /\ WF_vars(SweepIdle) /\ WF_vars(Tick) /\ WF_vars(ShutdownStep)

FairSpec == Spec /\ Fairness

-----------------------------------------------------------------------------
(* Type invariant. *)
Calls == [id : Boots, age : 0..ReqMax, poll : BOOLEAN]

TypeOK ==
  /\ boot \in [Boots -> BootStages]
  /\ sessions \in SUBSET Boots
  /\ reserving \in Nat
  /\ vm \in [Boots -> {"none", "starting", "failed", "up", "down"}]
  /\ idle \in [Boots -> 0..(IdleTtl + 1)]
  /\ view \in SUBSET Boots
  /\ viewers \in [Boots -> 0..MaxViewers]
  /\ call \in [Callers -> Calls \cup {NoCall}]
  /\ queue \in [Finishers -> SUBSET Boots]
  /\ teardown \in [Boots -> {"no", "view", "stop", "join", "done"}]
  /\ phase \in {"serving", "draining", "stopping", "dropping", "exited"}
  /\ runs \in 0..MaxRuns

(* Sessions in the map and boots on their way into it never exceed the cap, *)
(* however many start() calls overlap with stops and sweeps: the            *)
(* check-and-reserve of start() (registry.rs:174-189).                      *)
CapRespected == Cardinality(Held) <= Max

(* The in-flight counter is exactly the number of start() calls that hold a *)
(* reservation: no path of start() leaks a slot or releases one twice       *)
(* (SlotReservation, registry.rs:559-581).                                  *)
ReservationExact == reserving = Cardinality(Holding)

(* Stop, sweep and shutdown may race for an entry, but one of them gets it: *)
(* an entry is in the map or in the hands of one thread, so finish() runs   *)
(* at most once for it (registry.rs:500-552).                               *)
OneOwner ==
  /\ \A f \in Finishers : queue[f] \cap sessions = {}
  /\ \A f, g \in Finishers : f # g => queue[f] \cap queue[g] = {}
  /\ \A b \in Boots :
       teardown[b] \in {"view", "stop", "join"} <=> \E f \in Finishers : b \in queue[f]

(* No VM is orphaned: a VM that runs is one a start() is still waiting for, *)
(* one the map knows, or one a thread is about to stop.                     *)
NoOrphanVm ==
  \A b \in Boots : vm[b] \in {"starting", "up"} =>
     \/ boot[b] = "booting"
     \/ b \in sessions
     \/ \E f \in Finishers : b \in queue[f]

(* The sweeper never takes a session that a viewer watches or that a thread *)
(* is asking something of, settle polls and the readiness barrier of        *)
(* start() included (registry.rs:416-419, 490-498, 518-526).                *)
NeverReapedInUse ==
  [][\A b \in queue'[Sweeper] \ queue[Sweeper] :
        /\ viewers[b] = 0
        /\ \A t \in Callers : call[t] # NoCall => call[t].id # b]_vars

(* What the registry's callers may assume of admission: it is a slot pool.  *)
Pool == INSTANCE SlotPool WITH held <- Held
ImplementsPool == Pool!Spec

(* Every entry taken out of the map is finished and its VM is gone.         *)
TornDown == \A b \in Boots :
  teardown[b] = "view" ~> teardown[b] = "done" /\ vm[b] = "down"

(* Every reservation is given back: an in-flight boot ends, one way or the  *)
(* other, and leaves the counter.                                           *)
ReservationReleased == \A b \in Boots : boot[b] = "reserved" ~> b \notin Holding

(* A session nobody uses is evicted, unless it is used again or the daemon  *)
(* stops sweeping.                                                          *)
IdleEvicted == \A b \in Boots :
  b \in sessions /\ idle[b] > IdleTtl /\ viewers[b] = 0
    ~> b \notin sessions \/ idle[b] = 0 \/ viewers[b] > 0 \/ ~Accepting

(* SIGTERM ends the daemon whatever the registry has in flight: boots, guest *)
(* round-trips, teardowns, and sessions a boot inserts behind stop_all.  Only *)
(* a one-shot run can hold it up, and only one whose guest never ends:       *)
(* nothing stops it, and the runtime's drop waits for its worker            *)
(* (main.rs:198-208, 364-383).                                              *)
ShutdownEnds ==
  \/ phase = "draining" ~> phase = "exited"
  \/ <>[](phase = "dropping" /\ runs > 0)
=============================================================================
