----------------------------- MODULE AutoStart -----------------------------
(***************************************************************************)
(* How clients find the daemon, and start it (vmette-daemon-client), and   *)
(* what the daemon does with its socket (vmette-daemon/main.rs): it        *)
(* removes whatever stands at the path, binds, serves until a signal, and  *)
(* removes the path again on its way out.                                  *)
(*                                                                         *)
(* Several processes have clients, and a process may have several threads  *)
(* that share one client and its spawn lock.  A socket file is named by    *)
(* the daemon that bound it.  Left out: clients without autostart, which   *)
(* report that nobody listens and change nothing, daemons that cannot be   *)
(* found or started at all, and the request on a connection once made,     *)
(* whose reply from a daemon on its way out is an error.                   *)
(***************************************************************************)
EXTENDS Naturals, FiniteSets

CONSTANTS
  Threads,      \* the callers, each of one process
  Home,         \* the process of a thread
  MaxDaemons    \* bound: daemons started

AutoStartAssumption == MaxDaemons \in Nat /\ "none" \notin Threads

VARIABLES
  at,        \* each thread's place in connect()
  lock,      \* the spawn lock of each process: the threads that hold it
  daemon,    \* each daemon's place in main()
  owner,     \* the thread that started it
  path,      \* the daemon whose socket file stands at the path, or 0
  gaveUp,    \* history: the processes where a wait of 5 s ended in vain
  strangers, \* history: the daemons whose starter was answered by another
  robbed     \* history: the daemons that listened when another one removed
             \* their socket file

clients == <<at, lock>>
daemons == <<daemon, owner, path>>
history == <<gaveUp, strangers, robbed>>
vars == <<clients, daemons, history>>

Daemons   == 1..MaxDaemons
Processes == {Home[t] : t \in Threads}

Init ==
  /\ at = [t \in Threads |-> "idle"]
  /\ lock = [p \in Processes |-> {}]
  /\ daemon = [d \in Daemons |-> "unborn"]
  /\ owner = [d \in Daemons |-> "none"]
  /\ path = 0
  /\ gaveUp = {} /\ strangers = {} /\ robbed = {}

-----------------------------------------------------------------------------
(* The client.                                                             *)

\* UnixStream::connect succeeds on a listener's backlog, up to its process'
\* end; it says NotFound or ConnectionRefused otherwise.
Bound(d)   == d \in Daemons /\ daemon[d] \in {"listening", "draining"}
Reachable  == Bound(path)

\* The call goes on, and the thread comes back with another one.
Connected(t) == at' = [at EXCEPT ![t] = "idle"]

Connect(t) ==
  /\ at[t] = "idle"
  /\ IF Reachable THEN Connected(t) ELSE at' = [at EXCEPT ![t] = "blocked"]
  /\ UNCHANGED <<lock, daemons, history>>

\* Mutant: every caller forks for itself.
LockSpawnNot(t) ==
  /\ at[t] = "blocked"
  /\ at' = [at EXCEPT ![t] = "recheck"]
  /\ lock' = [lock EXCEPT ![Home[t]] = @ \cup {t}]
  /\ UNCHANGED <<daemons, history>>

LockSpawn(t) ==
  /\ at[t] = "blocked" /\ lock[Home[t]] = {}
  /\ at' = [at EXCEPT ![t] = "recheck"]
  /\ lock' = [lock EXCEPT ![Home[t]] = {t}]
  /\ UNCHANGED <<daemons, history>>

Unlock(t) == lock' = [lock EXCEPT ![Home[t]] = @ \ {t}]

\* "Another caller may have started it while we waited for the lock."
Recheck(t) ==
  /\ at[t] = "recheck"
  /\ IF Reachable THEN Connected(t) /\ Unlock(t)
     ELSE at' = [at EXCEPT ![t] = "spawn"] /\ UNCHANGED lock
  /\ UNCHANGED <<daemons, history>>

Spawn(t) ==
  /\ at[t] = "spawn"
  /\ \E d \in Daemons :
       /\ daemon[d] = "unborn" /\ \A e \in 1..(d - 1) : daemon[e] # "unborn"
       /\ daemon' = [daemon EXCEPT ![d] = "started"]
       /\ owner' = [owner EXCEPT ![d] = t]
  /\ at' = [at EXCEPT ![t] = "poll"]
  /\ UNCHANGED <<lock, path, history>>

Poll(t) ==
  /\ at[t] = "poll" /\ Reachable
  /\ Connected(t) /\ Unlock(t)
  /\ strangers' = strangers \cup {d \in Daemons \ {path} :
                                    owner[d] = t /\ daemon[d] # "gone"}
  /\ UNCHANGED <<daemons, gaveUp, robbed>>

\* Fifty polls in vain.
GiveUp(t) ==
  /\ at[t] = "poll"
  /\ at' = [at EXCEPT ![t] = "idle"]
  /\ Unlock(t)
  /\ gaveUp' = gaveUp \cup {Home[t]}
  /\ UNCHANGED <<daemons, strangers, robbed>>

-----------------------------------------------------------------------------
(* The daemon.                                                             *)

Goto(d, stage) == daemon' = [daemon EXCEPT ![d] = stage]
Robs(d) == robbed' = robbed \cup {e \in Daemons \ {d} : e = path /\ daemon[e] = "listening"}

\* remove_file, whatever is there.
RemoveStale(d) ==
  /\ daemon[d] = "started"
  /\ Goto(d, "cleared")
  /\ path' = 0
  /\ Robs(d)
  /\ UNCHANGED <<clients, owner, gaveUp, strangers>>

\* bind fails when another has bound in between, and main returns the error.
Bind(d) ==
  /\ daemon[d] = "cleared"
  /\ IF path = 0 THEN Goto(d, "listening") /\ path' = d
                 ELSE Goto(d, "gone") /\ UNCHANGED path
  /\ UNCHANGED <<clients, owner, history>>

\* The accept loop breaks; the listener is not closed.
SignalDaemon(d) ==
  /\ daemon[d] = "listening"
  /\ Goto(d, "draining")
  /\ UNCHANGED <<clients, owner, path, history>>

\* stop_all is over, and the path is removed, whoever bound it.
RemoveSocket(d) ==
  /\ daemon[d] = "draining"
  /\ Goto(d, "gone")
  /\ path' = 0
  /\ Robs(d)
  /\ UNCHANGED <<clients, owner, gaveUp, strangers>>

\* The socket file stays.
CrashDaemon(d) ==
  /\ daemon[d] \in {"started", "cleared", "listening", "draining"}
  /\ Goto(d, "gone")
  /\ UNCHANGED <<clients, owner, path, history>>

-----------------------------------------------------------------------------
ClientStep(t) == Connect(t) \/ LockSpawn(t) \/ Recheck(t) \/ Spawn(t) \/ Poll(t)
                 \/ GiveUp(t)
DaemonStep(d) == RemoveStale(d) \/ Bind(d) \/ SignalDaemon(d) \/ RemoveSocket(d)
                 \/ CrashDaemon(d)

\* Every daemon that may be started has been: the bound, not the program.
OutOfDaemons == (\A d \in Daemons : daemon[d] # "unborn") /\ UNCHANGED vars

Next ==
  \/ \E t \in Threads : ClientStep(t)
  \/ \E d \in Daemons : DaemonStep(d)
  \/ OutOfDaemons

Spec == Init /\ [][Next]_vars

-----------------------------------------------------------------------------
(* Type invariant. *)
TypeOK ==
  /\ at \in [Threads -> {"idle", "blocked", "recheck", "spawn", "poll"}]
  /\ path \in 0..MaxDaemons
  /\ lock \in [Processes -> SUBSET Threads]
  /\ daemon \in [Daemons -> {"unborn", "started", "cleared", "listening", "draining",
                             "gone"}]
  /\ owner \in [Daemons -> Threads \cup {"none"}]
  /\ gaveUp \in SUBSET Processes
  /\ strangers \in SUBSET Daemons /\ robbed \in SUBSET Daemons

Serving == {d \in Daemons : daemon[d] \in {"started", "cleared", "listening"}}

(* However the threads of a process race to a daemon that is not there,     *)
(* crashes or drains, they have one daemon between them ("serialized by a   *)
(* lock so concurrent callers don't each fork a daemon"), and where no      *)
(* other process starts one it is the one at the path, so its sessions can  *)
(* be reached.  Excepted is what the lock cannot see: a daemon that took    *)
(* longer than 5 s, and one that another process' start or exit has cut     *)
(* off, or made its starter connect to another.                             *)
SpawnedOnce ==
  \A p \in Processes \ gaveUp :
    LET mine == {d \in Serving : Home[owner[d]] = p}
    IN /\ Cardinality(mine \ (robbed \cup strangers)) <= 1
       /\ (\A d \in Daemons : owner[d] # "none" => Home[owner[d]] = p) =>
            \A d \in mine : daemon[d] = "listening" => path = d
=============================================================================
