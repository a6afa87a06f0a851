----------------------------- MODULE Workspace -----------------------------
(***************************************************************************)
(* The one-shot side of the MCP server (vmette-mcp): workspaces, which are *)
(* host directories under a base directory per server (workspace.rs), the  *)
(* runs of VMs in them (workspace_run in server.rs over Sandbox::run), and *)
(* the reaper with which the servers of one host remove the bases that     *)
(* others have left.                                                       *)
(*                                                                         *)
(* The age of a base, by its mtime, is kept as far as the reaper asks: 0,  *)
(* or a minute (1), or a day (2).  Guests leave directories that may not   *)
(* be written, so any remove_dir_all may fail, half way, and its result is *)
(* not looked at.  Left out: files and their paths, images and network     *)
(* flags, and execute and fetch_url, which are runs without a directory.   *)
(***************************************************************************)
EXTENDS Naturals, FiniteSets

CONSTANTS
  Servers,   \* the servers of one host, each started once
  MaxIds,    \* bound: the workspaces that two servers have created
  Runs,      \* bound: the calls of workspace_run
  Cap        \* WorkspaceState.cap

WorkspaceAssumption ==
  /\ IsFiniteSet(Servers) /\ MaxIds \in Nat /\ Cap \in Nat
  /\ "none" \notin Servers

VARIABLES
  server,    \* "down", "up", "closing" or "gone"
  base,      \* the servers whose base directory stands
  age,       \* its age
  open,      \* WorkspaceState.inner
  disk,      \* the workspace directories of a server
  removing,  \* those that destroy() has taken out of inner, and removes now
  made,      \* how many it has created: their ids
  call,      \* each run's tool call
  worker,    \* and its blocking thread
  place,     \* its server and workspace
  slot,      \* its stop slot: "empty", "handle" or "taken"
  vm,        \* its VM: "none", "running", "stopping" or "over"
  dayOld,    \* history: the servers whose base was reaped at the age of a day
  early      \* history: the runs whose guard fired on an empty stop slot

bases == <<base, age, disk>>
state == <<open, removing, made>>
runs == <<call, worker, place, slot, vm>>
history == <<dayOld, early>>
vars == <<server, bases, state, runs, history>>

Ids == 1..MaxIds
NoPlace == <<"none", 0>>

Init ==
  /\ server = [s \in Servers |-> "down"]
  /\ base = {} /\ age = [s \in Servers |-> 0]
  /\ open = [s \in Servers |-> {}]
  /\ disk = [s \in Servers |-> {}]
  /\ removing = [s \in Servers |-> {}]
  /\ made = [s \in Servers |-> 0]
  /\ call = [r \in Runs |-> "none"]
  /\ worker = [r \in Runs |-> "none"]
  /\ place = [r \in Runs |-> NoPlace]
  /\ slot = [r \in Runs |-> "empty"]
  /\ vm = [r \in Runs |-> "none"]
  /\ dayOld = {} /\ early = {}

-----------------------------------------------------------------------------
(* Servers and the reaper.                                                 *)

\* The process has not ended.
Alive(s) == server[s] \in {"up", "closing"}

\* Mutant: liveness is not asked.
StaleByAge(s) == age[s] >= 1

\* A minute old and of a dead process, or a day old and of any.
StaleBase(s) == (age[s] >= 1 /\ ~Alive(s)) \/ age[s] >= 2

\* remove_dir_all of the bases in T, each with all that is in it or with a part
\* of it only; a base whose entries change is young again.
RemoveBases(T, born) ==
  /\ disk' \in {left \in [Servers -> SUBSET Ids] : \A s \in Servers :
                  left[s] \subseteq disk[s] /\ (s \notin T => left[s] = disk[s])}
  /\ base' = {s \in base : s \in T => disk'[s] # {}} \cup born
  /\ age' = [s \in Servers |-> IF s \in base' /\ disk'[s] = disk[s] THEN age[s] ELSE 0]

\* reap_orphans.
Reap(T, born) ==
  /\ RemoveBases(T, born)
  /\ dayOld' = dayOld \cup {t \in T : age[t] >= 2}

\* main: the reaper, the base under a fresh name, the tools.
StartServer(s) ==
  /\ server[s] = "down"
  /\ server' = [server EXCEPT ![s] = "up"]
  /\ Reap({t \in base : StaleBase(t)}, {s})
  /\ UNCHANGED <<state, runs, early>>

\* The background task, every six hours: it finds its own base as well.
ReapPeriodically(s) ==
  /\ server[s] = "up"
  /\ \E t \in base : StaleBase(t) /\ Reap({t}, {})
  /\ UNCHANGED <<server, state, runs, early>>

TimePasses(s) ==
  /\ s \in base /\ age[s] < 2
  /\ age' = [age EXCEPT ![s] = @ + 1]
  /\ UNCHANGED <<server, base, disk, state, runs, history>>

Of(s) == {r \in Runs : place[r][1] = s}

\* WorkspaceState goes, and what is asked of it; the calls are dropped.
Close(s) ==
  /\ call' = [r \in Runs |-> IF r \in Of(s) /\ call[r] = "open" THEN "dropped"
                             ELSE call[r]]
  /\ open' = [open EXCEPT ![s] = {}]
  /\ removing' = [removing EXCEPT ![s] = {}]
  /\ made' = [made EXCEPT ![s] = 0]
  /\ dayOld' = dayOld \ {s}

\* The client closes the connection: the calls are dropped, and with the last
\* of them the state, whose base is removed; the runtime waits for the workers.
CloseServer(s) ==
  /\ server[s] = "up"
  /\ server' = [server EXCEPT ![s] = "closing"]
  /\ Close(s)
  /\ RemoveBases(base \cap {s}, {})
  /\ UNCHANGED <<worker, place, slot, vm, early>>

EndServer(s) ==
  /\ server[s] = "closing" /\ Of(s) = {}
  /\ server' = [server EXCEPT ![s] = "gone"]
  /\ UNCHANGED <<bases, state, runs, history>>

\* SIGKILL takes the VMs with it and leaves the directories.
KillServer(s) ==
  /\ Alive(s)
  /\ server' = [server EXCEPT ![s] = "gone"]
  /\ Close(s)
  /\ worker' = [r \in Runs |-> IF r \in Of(s) THEN "over" ELSE worker[r]]
  /\ place' = [r \in Runs |-> IF r \in Of(s) THEN NoPlace ELSE place[r]]
  /\ vm' = [r \in Runs |-> IF r \in Of(s) /\ vm[r] # "none" THEN "over" ELSE vm[r]]
  /\ slot' = [r \in Runs |-> IF r \in Of(s) THEN "empty" ELSE slot[r]]
  /\ early' = early \ Of(s)
  /\ UNCHANGED bases

-----------------------------------------------------------------------------
(* workspace_create and workspace_destroy.                                 *)

\* Under the lock; a base that is gone is made again on the way.
Create(s) ==
  /\ server[s] = "up" /\ Cardinality(open[s]) < Cap
  /\ \A t \in Servers : made[s] + (IF t = s THEN 0 ELSE made[t]) < MaxIds
  /\ made' = [made EXCEPT ![s] = @ + 1]
  /\ open' = [open EXCEPT ![s] = @ \cup {made'[s]}]
  /\ disk' = [disk EXCEPT ![s] = @ \cup {made'[s]}]
  /\ base' = base \cup {s} /\ age' = [age EXCEPT ![s] = 0]
  /\ UNCHANGED <<server, removing, runs, history>>

Destroy(s) ==
  /\ server[s] = "up"
  /\ \E id \in open[s] :
       /\ open' = [open EXCEPT ![s] = @ \ {id}]
       /\ removing' = [removing EXCEPT ![s] = @ \cup {id}]
  /\ UNCHANGED <<server, bases, made, runs, history>>

\* remove_dir_all of one: it is gone, or some of it is left.
RemoveDir(s) ==
  /\ \E id \in removing[s] :
       /\ removing' = [removing EXCEPT ![s] = @ \ {id}]
       /\ disk' \in {disk, [disk EXCEPT ![s] = @ \ {id}]}
  /\ age' = IF disk' # disk THEN [age EXCEPT ![s] = 0] ELSE age
  /\ UNCHANGED <<server, base, open, made, runs, history>>

-----------------------------------------------------------------------------
(* workspace_run and Sandbox::run.                                         *)

\* get() clones the entry; the worker is spawned.
CallRun(s, r) ==
  /\ server[s] = "up" /\ call[r] = "none"
  /\ \E id \in open[s] : place' = [place EXCEPT ![r] = <<s, id>>]
  /\ call' = [call EXCEPT ![r] = "open"]
  /\ worker' = [worker EXCEPT ![r] = "resolve"]
  /\ UNCHANGED <<server, bases, state, slot, vm, history>>

Goto(r, stage) == worker' = [worker EXCEPT ![r] = stage]
Standing(r) == place[r][2] \in disk[place[r][1]]

\* The image is pulled, in however long; or it is not.
ResolveImage(r) ==
  /\ worker[r] = "resolve"
  /\ Goto(r, "boot") \/ Goto(r, "failed")
  /\ UNCHANGED <<server, bases, state, call, place, slot, vm, history>>

\* Session::start fails on a share that is not there, or else.
BootVm(r) ==
  /\ worker[r] = "boot"
  /\ \/ Standing(r) /\ Goto(r, "publish") /\ vm' = [vm EXCEPT ![r] = "running"]
     \/ Goto(r, "failed") /\ UNCHANGED vm
  /\ UNCHANGED <<server, bases, state, call, place, slot, history>>

PublishHandle(r) ==
  /\ worker[r] = "publish"
  /\ Goto(r, "wait")
  /\ slot' = [slot EXCEPT ![r] = "handle"]
  /\ UNCHANGED <<server, bases, state, call, place, vm, history>>

\* The guest ends, or its own timeout or a stop ends it, or it wedges.
VmEnds(r) ==
  /\ vm[r] \in {"running", "stopping"}
  /\ vm' = [vm EXCEPT ![r] = "over"]
  /\ UNCHANGED <<server, bases, state, call, worker, place, slot, history>>

\* wait_captured returns.
WorkerReturns(r) ==
  /\ worker[r] = "wait" /\ vm[r] = "over"
  /\ Goto(r, "done")
  /\ UNCHANGED <<server, bases, state, call, place, slot, vm, history>>

\* The task awaits the worker; one that was dropped does not.
Answer(r) ==
  /\ worker[r] \in {"done", "failed"}
  /\ Goto(r, "over")
  /\ call' = [call EXCEPT ![r] = IF @ = "open" THEN "answered" ELSE @]
  /\ place' = [place EXCEPT ![r] = NoPlace]
  /\ slot' = [slot EXCEPT ![r] = "empty"]
  /\ UNCHANGED <<server, bases, state, vm, history>>

\* Mutant: the guard reports the error and leaves the VM to its own timeout.
GuardFiresOnly(r) ==
  /\ call[r] = "open"
  /\ call' = [call EXCEPT ![r] = "wedged"]
  /\ early' = IF slot[r] = "empty" THEN early \cup {r} ELSE early
  /\ UNCHANGED <<server, bases, state, worker, place, slot, vm, dayOld>>

\* The host's clock runs from the call on; the slot is taken once.
GuardFires(r) ==
  /\ call[r] = "open"
  /\ call' = [call EXCEPT ![r] = "wedged"]
  /\ IF slot[r] = "handle"
       THEN /\ slot' = [slot EXCEPT ![r] = "taken"]
            /\ vm' = [vm EXCEPT ![r] = IF @ = "running" THEN "stopping" ELSE @]
            /\ UNCHANGED early
       ELSE early' = early \cup {r} /\ UNCHANGED <<slot, vm>>
  /\ UNCHANGED <<server, bases, state, worker, place, dayOld>>

-----------------------------------------------------------------------------
ServerStep(s) ==
  \/ StartServer(s) \/ ReapPeriodically(s) \/ TimePasses(s)
  \/ CloseServer(s) \/ EndServer(s) \/ KillServer(s)
  \/ Create(s) \/ Destroy(s) \/ RemoveDir(s)
RunStep(r) ==
  \/ ResolveImage(r) \/ BootVm(r) \/ PublishHandle(r) \/ VmEnds(r)
  \/ WorkerReturns(r) \/ Answer(r) \/ GuardFires(r)

AllGone == (\A s \in Servers : server[s] = "gone") /\ UNCHANGED vars

Next ==
  \/ \E s \in Servers : ServerStep(s) \/ (\E r \in Runs : CallRun(s, r))
  \/ \E r \in Runs : RunStep(r)
  \/ AllGone

Spec == Init /\ [][Next]_vars

-----------------------------------------------------------------------------
(* Type invariant. *)
TypeOK ==
  /\ server \in [Servers -> {"down", "up", "closing", "gone"}]
  /\ base \in SUBSET Servers /\ age \in [Servers -> 0..2]
  /\ open \in [Servers -> SUBSET Ids] /\ disk \in [Servers -> SUBSET Ids]
  /\ removing \in [Servers -> SUBSET Ids] /\ made \in [Servers -> 0..MaxIds]
  /\ call \in [Runs -> {"none", "open", "answered", "wedged", "dropped"}]
  /\ worker \in [Runs -> {"none", "resolve", "boot", "publish", "wait", "done",
                          "failed", "over"}]
  /\ place \in [Runs -> (Servers \X Ids) \cup {NoPlace}]
  /\ slot \in [Runs -> {"empty", "handle", "taken"}]
  /\ vm \in [Runs -> {"none", "running", "stopping", "over"}]
  /\ dayOld \in SUBSET Servers /\ early \in SUBSET Runs

(* A workspace that is open keeps its directory whatever peers start, die,  *)
(* close and reap -- unless nothing in its server's base was created or     *)
(* destroyed for a day, when any reaper, its own too, takes the base away   *)
(* under it, as reap_orphans says.  (That a workspace which is destroyed    *)
(* leaves nothing is not so: destroy() does not look whether it worked.)    *)
WorkspaceKept ==
  \A s \in Servers : server[s] = "up" /\ s \notin dayOld => open[s] \subseteq disk[s]

(* A run that has been answered has no VM left that nobody stops: it is     *)
(* over, or told to stop (the VM "is force-stopped" when the guard fires,   *)
(* Sandbox::run).  The guard that fires before there is a handle, while the *)
(* image is resolved or the VM boots, is another matter: such a VM runs on  *)
(* untold, with the worker that nobody listens to waiting for its end.      *)
RunsAreOver ==
  \A r \in Runs : call[r] \in {"answered", "wedged"} =>
    IF r \in early
    THEN /\ vm[r] # "stopping"
         /\ vm[r] = "running" => worker[r] \in {"publish", "wait"}
    ELSE vm[r] # "running"

(* Both, for the servers and the runs that share a directory. *)
WorkspaceSound == WorkspaceKept /\ RunsAreOver
=============================================================================
