----------------------------- MODULE SessionEnd ------------------------------
(***************************************************************************)
(* How a session ends (vmette/session.rs, vz/delegate.rs): the write-once  *)
(* EndSlot, and everything that races to write it - the delegate callbacks *)
(* when the guest stops by itself, the completion of a failed start, the   *)
(* timeout, and stops requested from other threads.                        *)
(*                                                                         *)
(* The VM's private queue is serial: a block or callback that runs on it   *)
(* is one action.  The start block is queued before any handle exists, so  *)
(* it runs first.  The framework is external and modelled by the           *)
(* states it documents: it stops a VM that runs and answers any other stop *)
(* with an error, to the same completion handler.                          *)
(*                                                                         *)
(* Left out: the text of errors, pausing, and snapshots (a different path, *)
(* vz/snapshot.rs).                                                        *)
(***************************************************************************)
EXTENDS Naturals

CONSTANTS
  Stoppers,   \* threads that call Session::stop or StopHandle::stop
  Waiters,    \* threads in Session::wait
  Writable,   \* the root is writable, so init leaves an exit file
  HasTimeout, \* config.timeout_seconds is set
  Codes       \* exit codes a guest command may return

Timer == "timer"

ASSUME SessionEndAssumption ==
  /\ Writable \in BOOLEAN /\ HasTimeout \in BOOLEAN
  /\ Codes \subseteq Nat /\ {0, 1} \subseteq Codes
  /\ Timer \notin Stoppers

Askers == Stoppers \cup (IF HasTimeout THEN {Timer} ELSE {})

VARIABLES
  vm,        \* the framework's state of the VM
  exitFile,  \* what .vmette-exit holds
  timedOut,  \* the timer has fired
  end,       \* EndSlot
  ask,       \* how far each stop (and the timer's) has come
  seen       \* what each waiter's wait() returned

vars == <<vm, exitFile, timedOut, end, ask, seen>>

Exited(c) == [how |-> "Exited", code |-> c]
TimedOut  == [how |-> "TimedOut"]
Stopped   == [how |-> "Stopped"]
Error     == [how |-> "Error"]
Ends      == {Exited(c) : c \in Codes} \cup {TimedOut, Stopped, Error}
Running   == [how |-> "Running"]    \* the empty slot

NoFile    == [holds |-> "nothing"]
Garbled   == [holds |-> "garbage"]
Wrote(c)  == [holds |-> "code", code |-> c]

Init ==
  /\ vm = "new"
  /\ exitFile = NoFile
  /\ timedOut = FALSE
  /\ end = Running
  /\ ask = [a \in Askers |-> "idle"]
  /\ seen = [w \in Waiters |-> Running]

\* Mutant: the last writer wins.
SetLast(e) == end' = e

\* EndSlot::set: the first writer wins.
Set(e) == end' = IF end = Running THEN e ELSE end

-----------------------------------------------------------------------------
(* The VM.                                                                 *)

StartRuns ==
  /\ vm = "new" /\ vm' = "starting"
  /\ UNCHANGED <<exitFile, timedOut, end, ask, seen>>

StartCompletes ==
  /\ vm = "starting" /\ vm' = "running"
  /\ UNCHANGED <<exitFile, timedOut, end, ask, seen>>

StartFails ==
  /\ vm = "starting" /\ vm' = "down"
  /\ Set(Error)
  /\ UNCHANGED <<exitFile, timedOut, ask, seen>>

\* The guest command returns and init writes its code; a write cut short by a
\* crash leaves something that does not parse.
WriteExitFile ==
  /\ vm = "running" /\ Writable /\ exitFile = NoFile
  /\ exitFile' \in {Wrote(c) : c \in Codes} \cup {Garbled}
  /\ UNCHANGED <<vm, timedOut, end, ask, seen>>

HasCode == exitFile \in {Wrote(c) : c \in Codes}

\* Mutant: no file means success, as it does for a read-only root.
ReadExitFileLenient == IF Writable /\ HasCode THEN exitFile.code ELSE 0

\* read_exit_file.
ReadExitFile == IF ~Writable THEN 0 ELSE IF HasCode THEN exitFile.code ELSE 1

\* Mutant: the delegate does not look at timed_out.
GuestDidStopHasty ==
  /\ vm \in {"running", "stopping"} /\ vm' = "down"
  /\ Set(Exited(ReadExitFile))
  /\ UNCHANGED <<exitFile, timedOut, ask, seen>>

\* guestDidStopVirtualMachine: the guest powered off, before or while a stop
\* is under way.
GuestDidStop ==
  /\ vm \in {"running", "stopping"} /\ vm' = "down"
  /\ Set(IF timedOut THEN TimedOut ELSE Exited(ReadExitFile))
  /\ UNCHANGED <<exitFile, timedOut, ask, seen>>

\* virtualMachine:didStopWithError.
DidStopWithError ==
  /\ vm \in {"running", "stopping"} /\ vm' = "down"
  /\ Set(Error)
  /\ UNCHANGED <<exitFile, timedOut, ask, seen>>

-----------------------------------------------------------------------------
(* Stops.                                                                  *)

\* issue_stop on the caller's thread: nothing to do for an ended session.
Stop(s) ==
  /\ ask[s] = "idle"
  /\ ask' = [ask EXCEPT ![s] = IF end = Running THEN "queued" ELSE "done"]
  /\ UNCHANGED <<vm, exitFile, timedOut, end, seen>>

\* stopWithCompletionHandler.
AskVm(a) ==
  IF vm = "running"
  THEN vm' = "stopping" /\ ask' = [ask EXCEPT ![a] = "accepted"]
  ELSE ask' = [ask EXCEPT ![a] = "refused"] /\ UNCHANGED vm

StopRuns(s) ==
  /\ ask[s] = "queued" /\ vm # "new"
  /\ AskVm(s)
  /\ UNCHANGED <<exitFile, timedOut, end, seen>>

\* The timer's block, whether or not the session is still there.
TimerFires ==
  /\ HasTimeout /\ ask[Timer] = "idle" /\ vm # "new"
  /\ timedOut' = TRUE
  /\ AskVm(Timer)
  /\ UNCHANGED <<exitFile, end, seen>>

Verdict(a) == IF a = Timer THEN TimedOut ELSE Stopped

\* Mutant: a stop that failed records nothing.
StopCompletesChecked(a) ==
  /\ ask[a] \in {"accepted", "refused"}
  /\ ask' = [ask EXCEPT ![a] = "done"]
  /\ vm' = IF ask[a] = "accepted" THEN "down" ELSE vm
  /\ IF ask[a] = "accepted" THEN Set(Verdict(a)) ELSE UNCHANGED end
  /\ UNCHANGED <<exitFile, timedOut, seen>>

\* The completion handler ignores its error.
StopCompletes(a) ==
  /\ ask[a] \in {"accepted", "refused"}
  /\ ask' = [ask EXCEPT ![a] = "done"]
  /\ vm' = IF ask[a] = "accepted" THEN "down" ELSE vm
  /\ Set(Verdict(a))
  /\ UNCHANGED <<exitFile, timedOut, seen>>

\* wait_end: blocks on the condvar until the slot is set, then clones it.
WaitEnd(w) ==
  /\ seen[w] = Running /\ end # Running
  /\ seen' = [seen EXCEPT ![w] = end]
  /\ UNCHANGED <<vm, exitFile, timedOut, end, ask>>

Over ==
  /\ \A w \in Waiters : seen[w] # Running
  /\ UNCHANGED vars

-----------------------------------------------------------------------------
GuestStep == GuestDidStop \/ DidStopWithError \/ WriteExitFile
QueueStep == StartRuns \/ StartCompletes \/ StartFails

Next ==
  \/ QueueStep \/ GuestStep \/ TimerFires \/ Over
  \/ \E s \in Stoppers : Stop(s) \/ StopRuns(s)
  \/ \E a \in Askers : StopCompletes(a)
  \/ \E w \in Waiters : WaitEnd(w)

Spec == Init /\ [][Next]_vars

(* The queue runs its blocks, the framework answers every start and stop,   *)
(* the timer fires and a woken thread runs.  The guest owes nothing.        *)
Fairness ==
  /\ WF_vars(StartRuns) /\ WF_vars(StartCompletes \/ StartFails)
  /\ WF_vars(TimerFires)
  /\ \A s \in Stoppers : WF_vars(StopRuns(s))
  /\ \A a \in Askers : WF_vars(StopCompletes(a))
  /\ \A w \in Waiters : WF_vars(WaitEnd(w))
FairSpec == Spec /\ Fairness

-----------------------------------------------------------------------------
(* Type invariant. *)
TypeOK ==
  /\ vm \in {"new", "starting", "running", "stopping", "down"}
  /\ exitFile \in {Wrote(c) : c \in Codes} \cup {NoFile, Garbled}
  /\ timedOut \in BOOLEAN
  /\ end \in Ends \cup {Running}
  /\ ask \in [Askers -> {"idle", "queued", "accepted", "refused", "done"}]
  /\ seen \in [Waiters -> Ends \cup {Running}]

(* However many of the writers race, every wait() returns the same end, the *)
(* one recorded first (session.rs:77-78, 119-121).                          *)
OneVerdict == \A w \in Waiters : seen[w] \in {Running, end}

(* Once the timer has fired the session is never reported as a normal exit, *)
(* even if the guest powers off before the stop gets to it                  *)
(* (delegate.rs:38-43).                                                     *)
TimeoutNotMasked ==
  [][timedOut /\ end = Running => end'.how # "Exited"]_vars

(* Success is never made up: with a writable root, exit code 0 means that   *)
(* init wrote 0 and the guest then stopped by itself, whatever crash or     *)
(* stop came in between (delegate.rs:65-75).                                *)
SuccessIsReal == end = Exited(0) /\ Writable => exitFile = Wrote(0) /\ vm = "down"

(* A stop that is not a no-op ends the wait of everyone, whatever state the *)
(* VM is in when it arrives (session.rs:870-872, 906-908).                  *)
StopEndsWait ==
  (\E s \in Stoppers : ask[s] = "queued") ~> \A w \in Waiters : seen[w] # Running

(* With a timeout set, every session ends (session.rs:759-774).             *)
TimeoutEndsWait == HasTimeout ~> \A w \in Waiters : seen[w] # Running
=============================================================================
