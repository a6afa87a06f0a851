----------------------------- MODULE MCSession ------------------------------
(* Instances for TLC of a session's life: how Session::start() builds it,   *)
(* the jobs of the agent in its guest, and how it ends, with a timeout and  *)
(* without.  Each has behaviours of its own, in which the variables of the  *)
(* others stay as they are.                                                 *)
EXTENDS SessionEnd

CONSTANTS
  MaxDisks, UserTags,
  Execs, Waits, MaxJobs, BufSize, MaxOut

VARIABLES
  part,
  config, stage, held, failedAt, machine, env,
  host, inbox, step, ready, job, child, bg, reaped, written, unread, answers, missed

Untimed == INSTANCE SessionEnd WITH HasTimeout <- FALSE
ST == INSTANCE SessionStart WITH vm <- machine
AJ == INSTANCE AgentJobs

ASSUME SessionAssumption ==
  ST!SessionStartAssumption /\ AJ!AgentJobsAssumption

startVars == <<config, stage, held, failedAt, machine, env>>
jobVars   == <<host, inbox, step, ready, job, child, bg, reaped, written, unread,
               answers, missed>>

-----------------------------------------------------------------------------
\* There is no session: it has ended, and whoever waited for it knows.
NoSession ==
  /\ vm = "down" /\ exitFile = NoFile /\ timedOut = TRUE
  /\ end = Stopped
  /\ ask = [a \in Askers |-> "done"]
  /\ seen = [w \in Waiters |-> Stopped]

AnyConfig == CHOOSE c \in ST!Configs : TRUE

SessionInit ==
  /\ part \in {"end", "untimed end", "start", "agent"}
  /\ IF part \in {"start", "agent"} THEN NoSession ELSE Init
  /\ ST!Init /\ (part = "start" \/ config = AnyConfig)
  /\ AJ!Init

SessionNext ==
  /\ UNCHANGED part
  /\ \/ part = "end" /\ Next /\ UNCHANGED <<startVars, jobVars>>
     \/ part = "untimed end" /\ Untimed!Next /\ UNCHANGED <<startVars, jobVars>>
     \/ part = "start" /\ ST!Next /\ UNCHANGED <<vars, jobVars>>
     \/ part = "agent" /\ AJ!Next /\ UNCHANGED <<vars, startVars>>

(* The fairness of SessionEnd, whose timer there is in one part only, and   *)
(* of the agent, which has nothing to do in the others.                     *)
SessionSpec ==
  /\ SessionInit /\ [][SessionNext]_<<part, vars, startVars, jobVars>>
  /\ Untimed!Fairness
  /\ WF_vars(part = "end" /\ TimerFires) /\ WF_vars(StopCompletes(Timer))
  /\ AJ!Fairness

-----------------------------------------------------------------------------
(* Every session with a timeout ends (Session::start's timer), and without  *)
(* one a stop ends it, whatever state the VM is in when it arrives          *)
(* (issue_stop): SessionEnd!TimeoutEndsWait and StopEndsWait.               *)
EndsWait ==
  /\ part = "end" => TimeoutEndsWait
  /\ part = "untimed end" => Untimed!StopEndsWait

(* Guest and host agree on the devices and on the boot contract             *)
(* (Session::start, build_vz_config, BootParams): SessionStart!GuestAgrees. *)
GuestAgrees == part = "start" => ST!GuestAgrees

(* A start that fails, and a session that is dropped, leave nothing on the  *)
(* host (the guards of Session::start): SessionStart!LeavesNothing.         *)
LeavesNothing == part = "start" => ST!LeavesNothing

(* The agent's replies to its jobs are right and leave no process behind    *)
(* (drain_job, expire_jobs, reap_all_jobs): AgentJobs!JobsSound.            *)
JobsSound == part = "agent" => AJ!JobsSound

(* A job in the agent's table is answered (jobs_timeout, expire_jobs):      *)
(* AgentJobs!JobAnswered.                                                   *)
JobAnswered == AJ!JobAnswered
=============================================================================
