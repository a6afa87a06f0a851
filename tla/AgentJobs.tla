------------------------------ MODULE AgentJobs ------------------------------
(***************************************************************************)
(* The asynchronous jobs of the guest's desktop agent                      *)
(* (guest/vmette-desktop-agent.c): the select loop of one thread, its      *)
(* table of exec_capture and wait jobs, and the processes of the commands, *)
(* which run beside it.                                                    *)
(*                                                                         *)
(* A command is a shell and at most one process that it leaves in the      *)
(* background, in its process group.  Of the output only the length is     *)
(* kept, and of time only whether a deadline is over.                      *)
(*                                                                         *)
(* Left out: the actions that answer at once, X events, and background     *)
(* processes that leave the group or do not hold the pipe.                 *)
(***************************************************************************)
EXTENDS Naturals, Sequences

CONSTANTS
  Execs, Waits,  \* the exec_capture and the wait requests
  MaxJobs,       \* 16: the slots of g_jobs
  BufSize,       \* EXEC_CAPTURE_MAX_OUTPUT
  MaxOut         \* bound: what a command prints

AgentJobsAssumption ==
  /\ MaxJobs \in Nat \ {0} /\ BufSize \in Nat \ {0} /\ MaxOut \in Nat
  /\ Execs \cap Waits = {} /\ "none" \notin Execs \cup Waits

VARIABLES
  host,      \* "here" or "gone"
  inbox,     \* the requests in the connection
  step,      \* where the loop is: a phase, and the slot it is at
  ready,     \* what is left of select()'s report: slots, and 0, the connection
  job,       \* g_jobs: a record, or Free
  child,     \* the shell of a command
  bg,        \* it has a background process, which holds the pipe
  reaped,    \* the shells that were waited for
  written, unread,  \* what a command has printed, and what is in its pipe
  answers,   \* history: the replies to a request
  missed     \* history: the commands whose group was not there to be killed

loopVars == <<step, ready, job, reaped, answers, missed>>
procVars == <<child, bg, written, unread>>
vars == <<host, inbox, loopVars, procVars>>

Requests == Execs \cup Waits
Slots    == 1..MaxJobs
Free     == [req |-> "none"]

Init ==
  /\ host = "here" /\ inbox = <<>>
  /\ step = [at |-> "select", slot |-> 0] /\ ready = {}
  /\ job = [i \in Slots |-> Free]
  /\ child = [r \in Execs |-> "none"] /\ bg = [r \in Execs |-> FALSE]
  /\ reaped = {}
  /\ written = [r \in Execs |-> 0] /\ unread = [r \in Execs |-> 0]
  /\ answers = [r \in Requests |-> <<>>]
  /\ missed = {}

Active(i) == job[i] # Free
IsWait(i) == job[i].req \in Waits

\* A slot whose pipe is still read (outfd >= 0).
Piped(i) == Active(i) /\ ~IsWait(i) /\ ~job[i].eof

Alive(r) == child[r] \in {"forked", "running", "quiet"}
Ended(r) == child[r] \in {"exited", "killed"}

\* Someone holds the write end of the pipe.
Open(r) == child[r] \in {"forked", "running"} \/ bg[r]

-----------------------------------------------------------------------------
(* The host, and the processes of a command.                               *)

Send(r) ==
  /\ host = "here" /\ answers[r] = <<>>
  /\ \A k \in DOMAIN inbox : inbox[k] # r
  /\ \A i \in Slots : job[i].req # r
  /\ r \in Execs => child[r] = "none"
  /\ inbox' = Append(inbox, r)
  /\ UNCHANGED <<host, loopVars, procVars>>

HostLeaves ==
  /\ host = "here" /\ host' = "gone"
  /\ UNCHANGED <<inbox, loopVars, procVars>>

\* setsid() in the child: from here on it leads a group of its own.
Setsid(r) ==
  /\ child[r] = "forked"
  /\ child' = [child EXCEPT ![r] = "running"]
  /\ UNCHANGED <<host, inbox, loopVars, bg, written, unread>>

Prints(r) ==
  /\ child[r] = "running" \/ bg[r]
  /\ written[r] < MaxOut
  /\ written' = [written EXCEPT ![r] = @ + 1]
  /\ unread' = [unread EXCEPT ![r] = @ + 1]
  /\ UNCHANGED <<host, inbox, loopVars, child, bg>>

\* exec foo >/dev/null: it closes the pipe and goes on.
Redirects(r) ==
  /\ child[r] = "running"
  /\ child' = [child EXCEPT ![r] = "quiet"]
  /\ UNCHANGED <<host, inbox, loopVars, bg, written, unread>>

Background(r) ==
  /\ child[r] = "running" /\ ~bg[r]
  /\ bg' = [bg EXCEPT ![r] = TRUE]
  /\ UNCHANGED <<host, inbox, loopVars, child, written, unread>>

BackgroundEnds(r) ==
  /\ bg[r]
  /\ bg' = [bg EXCEPT ![r] = FALSE]
  /\ UNCHANGED <<host, inbox, loopVars, child, written, unread>>

\* It exits, or dies of a signal of its own.
Exits(r) ==
  /\ child[r] \in {"running", "quiet"}
  /\ \E how \in {"exited", "killed"} : child' = [child EXCEPT ![r] = how]
  /\ UNCHANGED <<host, inbox, loopVars, bg, written, unread>>

\* Time passes to the deadline of a job.
Late(i) ==
  /\ Active(i) /\ ~job[i].due
  /\ job' = [job EXCEPT ![i].due = TRUE]
  /\ UNCHANGED <<host, inbox, step, ready, reaped, answers, missed, procVars>>

-----------------------------------------------------------------------------
(* The loop.                                                               *)

At(phase, i) == step = [at |-> phase, slot |-> i]
Is(phase, i) == [at |-> phase, slot |-> i]

First(S) == CHOOSE i \in S : \A k \in S : i <= k

\* Where the loop goes behind slot i: to the slots in use, to those whose pipe
\* was reported, to the connection, and around.
DrainFrom(i) ==
  LET S == {k \in Slots \cap ready : k > i /\ Piped(k)}
  IN IF S # {} THEN Is("drain", First(S))
     ELSE IF 0 \in ready THEN Is("serve", 0) ELSE Is("select", 0)

ExpireFrom(i) ==
  LET S == {k \in Slots : k > i /\ Active(k)}
  IN IF S # {} THEN Is("expire", First(S)) ELSE DrainFrom(0)

TeardownFrom(i) ==
  LET S == {k \in Slots : k > i /\ Active(k) /\ ~IsWait(k)}
  IN IF S # {} THEN Is("teardown", First(S)) ELSE Is("gone", 0)

\* A reply, of which nobody looks whether it could be written.  A write to a
\* connection that is closed may be the end of the agent (SIGPIPE).
Reply(r, what, len, after) ==
  /\ answers' = [answers EXCEPT ![r] = Append(@, [what |-> what, len |-> len])]
  /\ step' \in {after} \cup (IF host = "gone" THEN {Is("dead", 0)} ELSE {})

Readable(i) == Piped(i) /\ (unread[job[i].req] > 0 \/ ~Open(job[i].req))

\* Mutant: the timers are not among the deadlines.
TimeoutFiresExec == \E i \in Slots : Active(i) /\ ~IsWait(i) /\ (job[i].due \/ job[i].eof)

\* jobs_timeout: a job is due, or one at its end of file is polled.
TimeoutFires == \E i \in Slots : Active(i) /\ (job[i].due \/ job[i].eof)

Select ==
  /\ At("select", 0)
  /\ ready' = {i \in Slots : Readable(i)}
                \cup (IF inbox # <<>> \/ host = "gone" THEN {0} ELSE {})
  /\ ready' # {} \/ TimeoutFires
  /\ UNCHANGED <<host, inbox, job, reaped, answers, missed, procVars>>
  /\ step' = ExpireFrom(0)'

\* The end of deliver_exec, for a shell that has been waited for.
Deliver(i, what) ==
  /\ reaped' = reaped \cup {job[i].req}
  /\ job' = [job EXCEPT ![i] = Free]
  /\ UNCHANGED ready
  /\ Reply(job[i].req, what, job[i].len,
           IF step.at = "drain" THEN DrainFrom(i)' ELSE ExpireFrom(i)')

\* exit_code_of: null for one that a signal ended.
CodeOf(r) == IF child[r] = "exited" THEN "code" ELSE "null"

\* kill(-pid): there is no such group before setsid().
KillGroup(r) ==
  IF child[r] = "forked"
  THEN missed' = missed \cup {r} /\ UNCHANGED <<child, bg>>
  ELSE /\ child' = [child EXCEPT ![r] = IF Alive(r) THEN "killed" ELSE @]
       /\ bg' = [bg EXCEPT ![r] = FALSE]
       /\ UNCHANGED missed

\* expire_jobs, a slot: nothing to do yet, ...
ExpirePasses(i) ==
  /\ At("expire", i)
  /\ ~job[i].due /\ (job[i].eof => ~Ended(job[i].req))
  /\ step' = ExpireFrom(i)
  /\ UNCHANGED <<host, inbox, ready, job, reaped, answers, missed, procVars>>

\* ... a command at its end of file whose shell has ended, ...
ExpireReaps(i) ==
  /\ At("expire", i)
  /\ job[i].eof /\ Ended(job[i].req)
  /\ Deliver(i, CodeOf(job[i].req))
  /\ UNCHANGED <<host, inbox, missed, procVars>>

\* ... a timer, ...
ExpireWait(i) ==
  /\ At("expire", i)
  /\ IsWait(i) /\ job[i].due
  /\ job' = [job EXCEPT ![i] = Free]
  /\ UNCHANGED <<host, inbox, ready, reaped, missed, procVars>>
  /\ Reply(job[i].req, "ok", 0, ExpireFrom(i)')

\* ... or a command that has had its time, even if its shell has ended and only
\* the end of the file has not been read.
ExpireKills(i) ==
  /\ At("expire", i)
  /\ ~IsWait(i) /\ job[i].due
  /\ job[i].eof => ~Ended(job[i].req)
  /\ KillGroup(job[i].req)
  /\ step' = Is("reap", i)
  /\ UNCHANGED <<host, inbox, ready, job, reaped, answers, written, unread>>

\* reap_pid: the loop stands still until the shell has ended.
Reap(i) ==
  /\ At("reap", i) /\ Ended(job[i].req)
  /\ Deliver(i, "timeout")
  /\ UNCHANGED <<host, inbox, missed, procVars>>

\* drain_job: a read into the buffer, or of what there is no room for.
DrainReads(i) ==
  /\ At("drain", i)
  /\ LET r == job[i].req
         room == BufSize - job[i].len
         n == IF room > 0 /\ unread[r] > room THEN room ELSE unread[r]
     IN /\ n > 0
        /\ unread' = [unread EXCEPT ![r] = @ - n]
        /\ job' = [job EXCEPT ![i].len = IF room > 0 THEN @ + n ELSE @]
  /\ step' = DrainFrom(i)
  /\ UNCHANGED <<host, inbox, ready, reaped, answers, missed, child, bg, written>>

\* Mutant: the end of the file is taken for the end of the command.
EndOfFileIsEnd(i) == Deliver(i, "code")

\* At the end of the file the shell may not have ended yet, or may go on.
EndOfFile(i) ==
  IF Ended(job[i].req) THEN Deliver(i, CodeOf(job[i].req))
  ELSE /\ job' = [job EXCEPT ![i].eof = TRUE]
       /\ step' = DrainFrom(i)
       /\ UNCHANGED <<ready, reaped, answers>>

DrainEnds(i) ==
  /\ At("drain", i)
  /\ unread[job[i].req] = 0 /\ ~Open(job[i].req)
  /\ EndOfFile(i)
  /\ UNCHANGED <<host, inbox, missed, procVars>>

-----------------------------------------------------------------------------
(* A request from the connection, or its end.                              *)

NewJob(r) == [req |-> r, eof |-> FALSE, len |-> 0, due |-> FALSE]

\* job_alloc: the first free slot.
Alloc(i) == ~Active(i) /\ \A k \in Slots : k < i => Active(k)

TakeRequest(r) ==
  /\ At("serve", 0) /\ inbox # <<>> /\ r = Head(inbox)
  /\ inbox' = Tail(inbox)
  /\ ready' = {}

\* start_exec_capture and start_wait.
StartJob(r) ==
  /\ TakeRequest(r)
  /\ \E i \in Slots : Alloc(i) /\ job' = [job EXCEPT ![i] = NewJob(r)]
  /\ child' = IF r \in Execs THEN [child EXCEPT ![r] = "forked"] ELSE child
  /\ step' = Is("select", 0)
  /\ UNCHANGED <<host, reaped, answers, missed, bg, written, unread>>

\* The table is full, or there is no memory, pipe or process to be had.
RefuseExec(r) ==
  /\ TakeRequest(r) /\ r \in Execs
  /\ Reply(r, "err", 0, Is("select", 0))
  /\ UNCHANGED <<host, job, reaped, missed, procVars>>

\* "table full: drop (wait is best-effort; host will time out)".
DropWait(r) ==
  /\ TakeRequest(r) /\ r \in Waits
  /\ \A i \in Slots : Active(i)
  /\ step' = Is("select", 0)
  /\ UNCHANGED <<host, job, reaped, answers, missed, procVars>>

ConnectionEnds ==
  /\ At("serve", 0) /\ inbox = <<>>
  /\ ready' = {}
  /\ step' = TeardownFrom(0)
  /\ UNCHANGED <<host, inbox, job, reaped, answers, missed, procVars>>

\* reap_all_jobs.
TeardownKills(i) ==
  /\ At("teardown", i)
  /\ KillGroup(job[i].req)
  /\ step' = Is("reapall", i)
  /\ UNCHANGED <<host, inbox, ready, job, reaped, answers, written, unread>>

TeardownReaps(i) ==
  /\ At("reapall", i) /\ Ended(job[i].req)
  /\ reaped' = reaped \cup {job[i].req}
  /\ job' = [job EXCEPT ![i] = Free]
  /\ step' = TeardownFrom(i)
  /\ UNCHANGED <<host, inbox, ready, answers, missed, procVars>>

-----------------------------------------------------------------------------
AgentStep ==
  \/ Select \/ ConnectionEnds
  \/ \E r \in Requests : StartJob(r) \/ RefuseExec(r) \/ DropWait(r)
  \/ \E i \in Slots :
       \/ ExpirePasses(i) \/ ExpireReaps(i) \/ ExpireWait(i) \/ ExpireKills(i) \/ Reap(i)
       \/ DrainReads(i) \/ DrainEnds(i) \/ TeardownKills(i) \/ TeardownReaps(i)

\* The agent has ended, and so the guest.
Over == step.at \in {"gone", "dead"} /\ UNCHANGED vars

Next ==
  \/ AgentStep \/ HostLeaves \/ Over
  \/ \E r \in Requests : Send(r)
  \/ \E r \in Execs :
       Setsid(r) \/ Prints(r) \/ Redirects(r) \/ Background(r) \/ BackgroundEnds(r) \/ Exits(r)
  \/ \E i \in Slots : Late(i)

\* The agent runs, and time passes.  No command has to end.
Fairness == WF_vars(AgentStep) /\ \A i \in Slots : WF_vars(Late(i))

Spec == Init /\ [][Next]_vars /\ Fairness

-----------------------------------------------------------------------------
\* The type invariant.
TypeOK ==
  /\ host \in {"here", "gone"} /\ inbox \in Seq(Requests)
  /\ step \in [at : {"select", "expire", "reap", "drain", "serve", "teardown",
                     "reapall", "gone", "dead"}, slot : 0..MaxJobs]
  /\ ready \subseteq 0..MaxJobs
  /\ job \in [Slots -> {Free} \cup [req : Requests, eof : BOOLEAN, len : 0..BufSize,
                                    due : BOOLEAN]]
  /\ child \in [Execs -> {"none", "forked", "running", "quiet", "exited", "killed"}]
  /\ bg \in [Execs -> BOOLEAN]
  /\ reaped \subseteq Execs /\ missed \subseteq Execs
  /\ written \in [Execs -> 0..MaxOut] /\ unread \in [Execs -> 0..MaxOut]
  /\ answers \in [Requests -> Seq([what : {"ok", "err", "code", "null", "timeout"},
                                   len : 0..BufSize])]

(* A request has one answer at most.  An exit code comes from a shell that  *)
(* exited, and with all that the command prints, up to the buffer's size:   *)
(* nobody is left who could print more.                                     *)
AnswersRight ==
  /\ \A r \in Requests : Len(answers[r]) <= 1
  /\ \A r \in Execs : \A k \in DOMAIN answers[r] :
       answers[r][k].what = "code" =>
         /\ child[r] = "exited" /\ ~Open(r)
         /\ answers[r][k].len = IF written[r] < BufSize THEN written[r] ELSE BufSize

(* A command that is answered at its deadline, or is in the table when the  *)
(* connection ends, leaves no process ("so children don't leak"), unless    *)
(* the kill came before setsid().                                           *)
NoneSurvives ==
  \A r \in Execs \ missed :
    \/ \E k \in DOMAIN answers[r] : answers[r][k].what = "timeout"
    \/ step.at = "gone" /\ answers[r] = <<>>
    => ~Alive(r) /\ ~bg[r] /\ (child[r] # "none" => r \in reaped)

(* A process number is killed or waited for only while it is the shell's,   *)
(* and a pipe that select() reported is read without blocking although      *)
(* expire_jobs ran in between.                                              *)
NumbersValid ==
  /\ \A i, k \in Slots : Active(i) /\ job[i] = job[k] /\ job[i].req = job[k].req => i = k
  /\ \A i \in Slots : Active(i) /\ ~IsWait(i) =>
       job[i].req \notin reaped /\ child[job[i].req] # "none"
  /\ \A i \in Slots : At("drain", i) => Readable(i)

JobsSound == AnswersRight /\ NoneSurvives /\ NumbersValid

(* A job in the table is answered, whatever its command does: the loop does *)
(* not stand still but for a command whose group could not be killed.       *)
JobAnswered ==
  \A r \in Requests :
    (\E i \in Slots : job[i].req = r) ~>
      (answers[r] # <<>> \/ missed # {} \/ host = "gone")
=============================================================================
