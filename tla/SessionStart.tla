---------------------------- MODULE SessionStart ----------------------------
(***************************************************************************)
(* Session::start (vmette/session.rs): from a Config to a VM that has been *)
(* asked to start, with what a start that fails at any step leaves behind, *)
(* and the contract between the host that attaches disks, shares and       *)
(* consoles and the guest's init that finds them by the names in boot.env  *)
(* and on the kernel's command line.                                       *)
(*                                                                         *)
(* A config is a record of what decides on devices and on the branch that  *)
(* init takes.  Left out: the fields that are passed on as they are (env,  *)
(* net, sizes), user shares with equal tags, and a config without a root.  *)
(* What follows once the VM runs is module SessionEnd.                     *)
(***************************************************************************)
EXTENDS Naturals, Sequences, FiniteSets, SequencesExt

CONSTANTS
  MaxDisks,   \* bound: the user's disks
  UserTags    \* the tags the user may give to shares

SessionStartAssumption == MaxDisks \in Nat

\* exec: there is a command, and not an interactive shell.
Configs == [rootfs : {"block", "share", "readOnly"}, disks : 0..MaxDisks,
            scratch : BOOLEAN, tags : SUBSET UserTags, capture : BOOLEAN,
            agent : BOOLEAN, vsock : BOOLEAN, exec : BOOLEAN, switchRoot : BOOLEAN]

VARIABLES
  config,   \* the caller's Config
  stage,    \* the step start() is at, or how it ended
  held,     \* the resources of the host that are held
  failedAt, \* history: the step that failed, or "none"
  vm,       \* the VM's configuration
  env       \* the ctl share's boot.env

vars == <<config, stage, held, failedAt, vm, env>>

NoVm  == [storage |-> <<>>, shares |-> {}, consoles |-> <<>>, cmdline |-> {},
          console |-> "none"]
NoEnv == [k \in {} |-> "none"]

Init ==
  /\ config \in Configs
  /\ stage = "tags"
  /\ held = {}
  /\ failedAt = "none"
  /\ vm = NoVm /\ env = NoEnv

-----------------------------------------------------------------------------
(* What is attached (vz/config.rs, cmdline.rs).                            *)

\* The guest has an overlay, and so can write.
WritableRoot(c) == c.rootfs # "readOnly"

\* The delegate is given an exit file to read, whatever the guest will run.
HostReadsExit(c) == WritableRoot(c)

HasScratch(c) == WritableRoot(c) /\ c.scratch

\* Block devices before the scratch disk, in the order of their names.
Preceding(c) ==
  (IF c.rootfs = "block" THEN <<"root">> ELSE <<>>) \o [i \in 1..c.disks |-> "disk"]

Storage(c) == Preceding(c) \o (IF HasScratch(c) THEN <<"scratch">> ELSE <<>>)

\* Mutant: a formula beside the attach order.
ScratchSlotOfDisks(c) == IF HasScratch(c) THEN {c.disks} ELSE {}

\* The slot of vda is 0.
ScratchSlot(c) == IF HasScratch(c) THEN {Len(Preceding(c))} ELSE {}

\* The directories on virtio-fs: the root's, the user's and the control one.
\* Nothing keeps a user's tag from being the root's.
Shares(c) ==
  (IF c.rootfs = "block" THEN {} ELSE {[tag |-> "rootfs", of |-> "root"]})
    \cup [tag : c.tags, of : {"user"}]
    \cup {[tag |-> "ctl", of |-> "host"]}

\* hvc0 and hvc1.
Consoles(c) == IF c.capture THEN <<"pipe", "null">> ELSE <<"terminal">>

Cmdline(c) == {"boot=ctl"} \cup (IF c.vsock THEN {"vsock_port"} ELSE {})

\* The replacement in the command line.
KernelConsole(c) == IF c.capture THEN 2 ELSE 1

VmOf(c) == [storage |-> Storage(c), shares |-> Shares(c), consoles |-> Consoles(c),
            cmdline |-> Cmdline(c), console |-> KernelConsole(c)]

-----------------------------------------------------------------------------
(* The boot contract (boot.rs).                                            *)

\* from_config.
BootParams(c, slot) ==
  [mode |-> IF c.rootfs = "block" THEN "block" ELSE "share",
   readOnly |-> c.rootfs = "readOnly",
   scratch |-> slot,
   shares |-> c.tags,
   exec |-> c.exec, switchRoot |-> c.switchRoot,
   strategy |-> IF c.agent THEN "agent" ELSE "oneshot",
   capture |-> c.capture]

\* to_env writes the lines that apply.
Lines(p) ==
  {"MODE", "STRATEGY", "CAPTURE", "SWITCH_ROOT"}
    \cup (IF p.mode = "share" THEN {"RO"} ELSE {"FSTYPE"})
    \cup (IF p.scratch # {} THEN {"SCRATCH_DEV"} ELSE {})
    \cup (IF p.shares # {} THEN {"SHARES"} ELSE {})
    \cup (IF p.exec THEN {"EXEC"} ELSE {})
    \cup (IF p.strategy = "agent" THEN {"DISPLAY"} ELSE {})

ToEnv(p) ==
  [k \in Lines(p) |->
     CASE k = "MODE"        -> p.mode
       [] k = "RO"          -> p.readOnly
       [] k = "SCRATCH_DEV" -> CHOOSE s \in p.scratch : TRUE
       [] k = "SHARES"      -> p.shares
       [] k = "STRATEGY"    -> p.strategy
       [] k = "CAPTURE"     -> p.capture
       [] k = "SWITCH_ROOT" -> p.switchRoot
       [] OTHER             -> "text"]

\* from_env, with its defaults for absent lines.
FromEnv(e) ==
  LET Get(k, default) == IF k \in DOMAIN e THEN e[k] ELSE default
  IN [mode |-> e["MODE"],
      readOnly |-> Get("RO", FALSE),
      scratch |-> IF "SCRATCH_DEV" \in DOMAIN e THEN {e["SCRATCH_DEV"]} ELSE {},
      shares |-> Get("SHARES", {}),
      exec |-> "EXEC" \in DOMAIN e, switchRoot |-> Get("SWITCH_ROOT", FALSE),
      strategy |-> e["STRATEGY"],
      capture |-> Get("CAPTURE", FALSE)]

-----------------------------------------------------------------------------
(* start().                                                                *)

\* On the way out the guards drop: the directory, the image once it has its
\* guard, and the write end of the pipe.
Guarded == {"dir", "image", "writeEnd"}

\* Mutant: no guard for the control directory.
FailKeepsDir(at, unguarded) ==
  /\ stage' = "failed" /\ failedAt' = at
  /\ held' = (held \ (Guarded \ {"dir"})) \cup unguarded
  /\ UNCHANGED <<config, vm, env>>

Fail(at, unguarded) ==
  /\ stage' = "failed" /\ failedAt' = at
  /\ held' = (held \ Guarded) \cup unguarded
  /\ UNCHANGED <<config, vm, env>>

Proceed(next, resources) ==
  /\ stage' = next
  /\ held' = held \cup resources
  /\ UNCHANGED <<config, failedAt>>

\* "ctl" is reserved.
CheckTags ==
  /\ stage = "tags"
  /\ IF "ctl" \in config.tags THEN Fail("tags", {})
                              ELSE Proceed("ctl", {}) /\ UNCHANGED <<vm, env>>

MakeControlDir ==
  /\ stage = "ctl"
  /\ Fail("ctl", {}) \/ (Proceed("scratch", {"dir"}) /\ UNCHANGED <<vm, env>>)

\* The file is created and given its size; the guard comes after both.
MakeScratch ==
  /\ stage = "scratch"
  /\ IF HasScratch(config)
       THEN \/ Fail("scratch", {}) \/ Fail("size", {"image"})
            \/ Proceed("pipe", {"image"}) /\ UNCHANGED <<vm, env>>
       ELSE Proceed("pipe", {}) /\ UNCHANGED <<vm, env>>

\* The read end is a bare number until the reader thread takes it.
OpenPipe ==
  /\ stage = "pipe"
  /\ IF config.capture
       THEN \/ Fail("pipe", {})
            \/ Proceed("build", {"readEnd", "writeEnd"}) /\ UNCHANGED <<vm, env>>
       ELSE Proceed("build", {}) /\ UNCHANGED <<vm, env>>

\* A disk that cannot be attached, or a configuration that is not valid.
Build ==
  /\ stage = "build"
  /\ \/ Fail("build", {})
     \/ Proceed("env", {}) /\ vm' = VmOf(config) /\ UNCHANGED env

WriteEnv ==
  /\ stage = "env"
  /\ \/ Fail("env", {})
     \/ /\ Proceed("started", IF config.capture THEN {"reader"} ELSE {})
        /\ env' = ToEnv(BootParams(config, ScratchSlot(config)))
        /\ UNCHANGED vm

\* The session's owner drops it, after the guest has ended.
Drop ==
  /\ stage = "started"
  /\ stage' = "dropped"
  /\ held' = held \ Guarded
  /\ UNCHANGED <<config, failedAt, vm, env>>

\* drain_capture ends and closes its end.
ReaderEnds ==
  /\ "reader" \in held /\ stage = "dropped"
  /\ held' = held \ {"reader", "readEnd"}
  /\ UNCHANGED <<config, stage, failedAt, vm, env>>

Finished == stage \in {"failed", "dropped"} /\ "reader" \notin held /\ UNCHANGED vars

Next == CheckTags \/ MakeControlDir \/ MakeScratch \/ OpenPipe \/ Build \/ WriteEnv
        \/ Drop \/ ReaderEnds \/ Finished

Spec == Init /\ [][Next]_vars

-----------------------------------------------------------------------------
(* The guest's init (scripts/custom-init.sh), which has the envelope, the   *)
(* command line and the devices.                                           *)

\* A device by its slot.
Device(slot) == IF slot < Len(vm.storage) THEN {vm.storage[slot + 1]} ELSE {}

\* What is mounted below the overlay, or as the root itself: any of the devices
\* that have the name.
GuestRoot ==
  IF env["MODE"] = "block" THEN Device(0)
  ELSE {s.of : s \in {d \in vm.shares : d.tag = "rootfs"}}

Overlaid == env["MODE"] = "block" \/ ~env["RO"]

\* mount_ovl_upper formats the scratch device, without which it takes RAM.
GuestFormats ==
  IF Overlaid /\ "SCRATCH_DEV" \in DOMAIN env THEN Device(env["SCRATCH_DEV"]) ELSE {}

\* The branch taken: the agent's entrypoint, which needs the port; the command,
\* which switch_root reaches by a script it can only write on an overlay; or a
\* shell.
GuestRuns ==
  IF env["STRATEGY"] = "agent"
  THEN IF "vsock_port" \in vm.cmdline THEN "agent" ELSE "nothing"
  ELSE IF "EXEC" \notin DOMAIN env THEN "shell"
  ELSE IF env["SWITCH_ROOT"] /\ ~Overlaid THEN "nothing" ELSE "command"

\* EXIT_FILE, on the way out of a command, or of a shell that init waits for.
GuestWritesExit ==
  /\ Overlaid
  /\ \/ GuestRuns = "command"
     \/ GuestRuns = "shell" /\ ~env["SWITCH_ROOT"]

\* CAP_REDIR is a command's only; all else prints where the kernel does.
GuestOutput ==
  IF env["CAPTURE"] /\ GuestRuns = "command" THEN vm.consoles[1]
  ELSE vm.consoles[vm.console]

-----------------------------------------------------------------------------
(* Type invariant. *)
TypeOK ==
  /\ config \in Configs
  /\ stage \in {"tags", "ctl", "scratch", "pipe", "build", "env", "started",
                "dropped", "failed"}
  /\ held \subseteq {"dir", "image", "readEnd", "writeEnd", "reader"}

\* Two devices have the root's name.
TagClash(c) == c.rootfs # "block" /\ "rootfs" \in c.tags

\* What a workload that init can run is.
Asked(c) == IF c.agent THEN "agent" ELSE IF c.exec THEN "command" ELSE "shell"

(* Host and guest agree on every configuration that starts.  The guest's    *)
(* root is the one attached, unless a user's share has its tag; it formats  *)
(* the scratch disk and never a disk of the user's; it mounts no share that *)
(* is not there.  It runs what was asked for, but for an agent without a    *)
(* port and a command behind switch_root on a read-only root.  The host     *)
(* looks for an exit code wherever one is written; none comes from an agent *)
(* and from a shell behind switch_root, though it is looked for.  To the    *)
(* pipe goes the output of a command and nothing else: an agent and a shell *)
(* that are captured print where nobody reads.  The envelope is read as it  *)
(* was meant (session.rs:565-694, custom-init.sh).                          *)
GuestAgrees ==
  stage = "started" =>
    /\ GuestRoot = {"root"} <=> ~TagClash(config)
    /\ GuestFormats = {d \in {"scratch"} : HasScratch(config)}
    /\ FromEnv(env).shares \cup {"ctl"} \subseteq {s.tag : s \in vm.shares}
    /\ GuestRuns = IF \/ config.agent /\ ~config.vsock
                      \/ Asked(config) = "command" /\ config.switchRoot
                         /\ ~WritableRoot(config)
                   THEN "nothing" ELSE Asked(config)
    /\ GuestWritesExit => HostReadsExit(config)
    /\ HostReadsExit(config) /\ ~GuestWritesExit =>
         config.agent \/ (~config.exec /\ config.switchRoot)
    /\ GuestOutput = (IF ~config.capture THEN "terminal"
                      ELSE IF GuestRuns = "command" THEN "pipe" ELSE "null")
    /\ config.capture => vm.consoles[vm.console] # "pipe"
    /\ "vsock_port" \in vm.cmdline <=> config.vsock
    /\ FromEnv(env) = BootParams(config, ScratchSlot(config))

(* A start that fails, and a session that is dropped, leave nothing on the  *)
(* host, but for two gaps: an image whose sizing fails has no guard yet,    *)
(* and the read end of the pipe has none until the reader thread runs       *)
(* ("so the daemon doesn't leak a descriptor per run").                     *)
LeavesNothing ==
  /\ stage = "failed" =>
       held = CASE failedAt = "size" -> {"image"}
                [] failedAt \in {"build", "env"} /\ config.capture -> {"readEnd"}
                [] OTHER -> {}
  /\ stage = "dropped" /\ "reader" \notin held => held = {}
=============================================================================
