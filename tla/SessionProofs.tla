--------------------------- MODULE SessionProofs ----------------------------
(* Proofs about a session's life: its start, for any number of disks and    *)
(* tags, the jobs of its guest's agent, for any number of requests, slots   *)
(* and bytes, and its end, for any number of stopping and waiting threads.  *)
EXTENDS MCSession, Counting, SequenceTheorems, TLAPS

-----------------------------------------------------------------------------
(* The end.  The inductive invariant is Inv: types, one verdict, and a      *)
(* normal exit is recorded only with the VM down, after which its exit file *)
(* is final.                                                                *)

ExitIsFinal ==
  end.how = "Exited" => vm = "down" /\ end = Exited(ReadExitFile)

Inv == TypeOK /\ OneVerdict /\ ExitIsFinal

LEMMA ReadsCode == ASSUME TypeOK PROVE ReadExitFile \in Codes
BY SessionEndAssumption
DEF SessionEndAssumption, TypeOK, ReadExitFile, HasCode, Wrote, NoFile, Garbled

LEMMA EndTypes ==
  /\ {TimedOut, Stopped, Error} \subseteq Ends /\ Running \notin Ends
  /\ \A c \in Codes : Exited(c) \in Ends /\ Exited(c).how = "Exited"
  /\ TimedOut.how # "Exited" /\ Stopped.how # "Exited" /\ Error.how # "Exited"
  /\ Running.how # "Exited"
BY DEF Ends, TimedOut, Stopped, Error, Running, Exited

LEMMA VerdictTypes ==
  \A a \in Askers : Verdict(a) \in Ends /\ Verdict(a).how # "Exited"
BY EndTypes DEF Verdict

\* A step that writes the slot at most once, keeps the VM down and its file.
LEMMA Kept ==
  ASSUME Inv, TypeOK', UNCHANGED seen,
         NEW e \in Ends, end' = end \/ Set(e),
         vm = "down" => UNCHANGED <<vm, exitFile>>,
         e.how = "Exited" /\ end = Running => vm' = "down" /\ e = Exited(ReadExitFile)',
         end.how = "Exited" => UNCHANGED exitFile
  PROVE  Inv'
<1> USE EndTypes DEF Inv
<1>1. OneVerdict' BY DEF OneVerdict, Set
<1>2. CASE end' = end
  BY <1>2, <1>1 DEF ExitIsFinal, ReadExitFile, HasCode
<1>3. CASE end = Running /\ end' = e
  BY <1>3, <1>1 DEF ExitIsFinal
<1>4. QED BY <1>2, <1>3 DEF Set

LEMMA InvInit == Init => Inv
BY SessionEndAssumption, EndTypes DEF Init, Inv, TypeOK, OneVerdict, ExitIsFinal

LEMMA TypeStep == TypeOK /\ [Next]_vars => TypeOK'
<1> SUFFICES ASSUME TypeOK, [Next]_vars PROVE TypeOK'
  OBVIOUS
<1> USE EndTypes DEF TypeOK, Set
<1>1. CASE QueueStep
  BY <1>1 DEF QueueStep, StartRuns, StartCompletes, StartFails
<1>2. CASE GuestStep
  BY <1>2, ReadsCode DEF GuestStep, GuestDidStop, DidStopWithError, WriteExitFile
<1>3. CASE TimerFires
  BY <1>3 DEF TimerFires, AskVm
<1>4. ASSUME NEW s \in Stoppers, Stop(s) \/ StopRuns(s) PROVE TypeOK'
  BY <1>4 DEF Stop, StopRuns, AskVm
<1>5. ASSUME NEW a \in Askers, StopCompletes(a) PROVE TypeOK'
  BY <1>5, VerdictTypes DEF StopCompletes
<1>6. ASSUME NEW w \in Waiters, WaitEnd(w) PROVE TypeOK'
  BY <1>6 DEF WaitEnd
<1>7. CASE Over \/ UNCHANGED vars
  BY <1>7 DEF Over, vars
<1>8. QED BY <1>1, <1>2, <1>3, <1>4, <1>5, <1>6, <1>7 DEF Next

LEMMA InvStep == Inv /\ [Next]_vars => Inv'
<1> SUFFICES ASSUME Inv, [Next]_vars PROVE Inv'
  OBVIOUS
<1>1. TypeOK' BY TypeStep DEF Inv
<1> USE EndTypes
<1>2. CASE QueueStep
  <2>1. CASE StartRuns \/ StartCompletes
    BY <1>1, <2>1, Kept DEF StartRuns, StartCompletes, Inv, ExitIsFinal
  <2>2. CASE StartFails
    BY <1>1, <2>2, Kept DEF StartFails, Inv, ExitIsFinal
  <2>3. QED BY <1>2, <2>1, <2>2 DEF QueueStep
<1>3. CASE GuestDidStop
  <2>1. CASE timedOut
    BY <1>1, <1>3, <2>1, Kept DEF GuestDidStop, Inv, ExitIsFinal
  <2>2. CASE ~timedOut
    <3>1. Exited(ReadExitFile) \in Ends
      BY ReadsCode DEF Inv
    <3>2. Exited(ReadExitFile)' = Exited(ReadExitFile)
      BY <1>3 DEF GuestDidStop, Exited, ReadExitFile, HasCode
    <3>3. QED BY <1>1, <1>3, <2>2, <3>1, <3>2, Kept DEF GuestDidStop
  <2>3. QED BY <2>1, <2>2
<1>4. CASE DidStopWithError
  BY <1>1, <1>4, Kept DEF DidStopWithError
<1>5. CASE WriteExitFile
  BY <1>1, <1>5, Kept DEF WriteExitFile, Inv, ExitIsFinal
<1>6. CASE TimerFires
  BY <1>1, <1>6, Kept DEF TimerFires, AskVm
<1>7. ASSUME NEW s \in Stoppers, Stop(s) \/ StopRuns(s) PROVE Inv'
  BY <1>1, <1>7, Kept DEF Stop, StopRuns, AskVm
<1>8. ASSUME NEW a \in Askers, StopCompletes(a) PROVE Inv'
  BY <1>1, <1>8, VerdictTypes, Kept DEF StopCompletes
<1>9. ASSUME NEW w \in Waiters, WaitEnd(w) PROVE Inv'
  BY <1>1, <1>9 DEF WaitEnd, Inv, TypeOK, OneVerdict, ExitIsFinal, ReadExitFile, HasCode
<1>10. CASE Over \/ UNCHANGED vars
  BY <1>1, <1>10 DEF Over, vars, Inv, OneVerdict, ExitIsFinal, ReadExitFile, HasCode
<1>11. QED
  BY <1>2, <1>3, <1>4, <1>5, <1>6, <1>7, <1>8, <1>9, <1>10 DEF Next, GuestStep

LEMMA Invariance == Spec => []Inv
BY InvInit, InvStep, PTL DEF Spec

LEMMA SuccessHolds == Inv => SuccessIsReal
<1> SUFFICES ASSUME Inv, end = Exited(0), Writable PROVE exitFile = Wrote(0) /\ vm = "down"
  BY DEF SuccessIsReal
<1>1. vm = "down" /\ ReadExitFile = 0
  BY DEF Inv, ExitIsFinal, Exited
<1>2. QED
  BY <1>1 DEF Inv, TypeOK, ReadExitFile, HasCode, Wrote

LEMMA NotMasked ==
  Inv /\ [Next]_vars => [timedOut /\ end = Running => end'.how # "Exited"]_vars
<1> SUFFICES ASSUME Inv, Next, timedOut, end = Running PROVE end'.how # "Exited"
  OBVIOUS
<1> USE EndTypes DEF Set
<1>1. CASE QueueStep \/ GuestStep \/ TimerFires \/ Over
  BY <1>1 DEF QueueStep, StartRuns, StartCompletes, StartFails, GuestStep,
              GuestDidStop, DidStopWithError, WriteExitFile, TimerFires, Over, vars
<1>2. ASSUME NEW s \in Stoppers, Stop(s) \/ StopRuns(s) PROVE end'.how # "Exited"
  BY <1>2 DEF Stop, StopRuns
<1>3. ASSUME NEW a \in Askers, StopCompletes(a) PROVE end'.how # "Exited"
  BY <1>3, VerdictTypes DEF StopCompletes
<1>4. ASSUME NEW w \in Waiters, WaitEnd(w) PROVE end'.how # "Exited"
  BY <1>4 DEF WaitEnd
<1>5. QED BY <1>1, <1>2, <1>3, <1>4 DEF Next

-----------------------------------------------------------------------------
(* Types, and one outcome for everyone who waits (session.rs:119-121).      *)
THEOREM TypeCorrect == Spec => []TypeOK
BY Invariance, PTL DEF Inv

(* Every wait() returns the end that was recorded first.                    *)
THEOREM VerdictIsOne == Spec => []OneVerdict
BY Invariance, PTL DEF Inv

(* With a writable root, success is the code 0 that init wrote              *)
(* (delegate.rs:65-75).                                                     *)
THEOREM NoFalseSuccess == Spec => []SuccessIsReal
BY SuccessHolds, Invariance, PTL

(* After the timer has fired nothing records a normal exit                  *)
(* (delegate.rs:38-43).                                                     *)
THEOREM TimeoutWins == Spec => TimeoutNotMasked
BY NotMasked, Invariance, PTL DEF Spec, TimeoutNotMasked

-----------------------------------------------------------------------------
(* The start.                                                               *)

\* What start() has taken by the time it is at a stage.
Image(c) == IF ST!HasScratch(c) THEN {"image"} ELSE {}
Pipe(c)  == IF c.capture THEN {"readEnd", "writeEnd"} ELSE {}
Reader(c) == IF c.capture THEN {"reader"} ELSE {}

Taken(s) ==
  CASE s \in {"tags", "ctl"} -> {}
    [] s = "scratch" -> {"dir"}
    [] s = "pipe" -> {"dir"} \cup Image(config)
    [] s \in {"build", "env"} -> {"dir"} \cup Image(config) \cup Pipe(config)
    [] s = "started" -> {"dir"} \cup Image(config) \cup Pipe(config) \cup Reader(config)
    [] OTHER -> held

StartInv ==
  /\ ST!TypeOK /\ ST!LeavesNothing
  /\ held = Taken(stage)
  /\ stage = "dropped" => held \in {{}, {"readEnd", "reader"}}
  /\ stage \in {"env", "started"} => machine = ST!VmOf(config)
  /\ stage = "started" => env = ST!ToEnv(ST!BootParams(config, ST!ScratchSlot(config)))

LEMMA StartInit == ST!Init => StartInv
BY DEF ST!Init, StartInv, Taken, ST!TypeOK, ST!LeavesNothing

LEMMA StartStep == StartInv /\ [ST!Next]_ST!vars => StartInv'
<1> SUFFICES ASSUME StartInv, [ST!Next]_ST!vars PROVE StartInv'
  OBVIOUS
<1>1. config \in ST!Configs BY DEF StartInv, ST!TypeOK
<1> USE <1>1 DEF StartInv, Taken, ST!TypeOK, ST!LeavesNothing, ST!Fail, ST!Proceed, ST!Guarded,
                Image, Pipe, Reader
<1>2. CASE ST!CheckTags BY <1>2 DEF ST!CheckTags
<1>3. CASE ST!MakeControlDir BY <1>3 DEF ST!MakeControlDir
<1>4. CASE ST!MakeScratch BY <1>4 DEF ST!MakeScratch
<1>5. CASE ST!OpenPipe BY <1>5 DEF ST!OpenPipe
<1>6. CASE ST!Build BY <1>6 DEF ST!Build
<1>7. CASE ST!WriteEnv BY <1>7 DEF ST!WriteEnv
<1>8. CASE ST!Drop BY <1>8 DEF ST!Drop
<1>9. CASE ST!ReaderEnds BY <1>9 DEF ST!ReaderEnds
<1>10. CASE ST!Finished \/ UNCHANGED ST!vars BY <1>10 DEF ST!Finished, ST!vars
<1>11. QED
  BY <1>2, <1>3, <1>4, <1>5, <1>6, <1>7, <1>8, <1>9, <1>10 DEF ST!Next

(* Where the disks are: the root's slot is 0, and the scratch disk's is the *)
(* one behind those before it.                                              *)
LEMMA DiskSlots ==
  ASSUME NEW c \in ST!Configs
  PROVE  LET n == Len(ST!Preceding(c)) IN
         /\ n \in Nat /\ Len(ST!Storage(c)) = n + (IF ST!HasScratch(c) THEN 1 ELSE 0)
         /\ c.rootfs = "block" => n > 0 /\ ST!Storage(c)[1] = "root"
         /\ ST!HasScratch(c) => ST!Storage(c)[n + 1] = "scratch"
<1> DEFINE D == {"root", "disk", "scratch"}
           root == IF c.rootfs = "block" THEN <<"root">> ELSE <<>>
           user == [i \in 1..c.disks |-> "disk"]
           own  == IF ST!HasScratch(c) THEN <<"scratch">> ELSE <<>>
<1>1. /\ root \in Seq(D) /\ Len(root) = IF c.rootfs = "block" THEN 1 ELSE 0
      /\ c.rootfs = "block" => root[1] = "root"
  <2>1. CASE c.rootfs = "block" BY <2>1
  <2>2. CASE c.rootfs # "block" BY <2>2
  <2>3. QED BY <2>1, <2>2
<1>2. /\ own \in Seq(D) /\ Len(own) = IF ST!HasScratch(c) THEN 1 ELSE 0
      /\ ST!HasScratch(c) => own[1] = "scratch"
  <2>1. CASE ST!HasScratch(c) BY <2>1
  <2>2. CASE ~ST!HasScratch(c) BY <2>2
  <2>3. QED BY <2>1, <2>2
<1>3. c.disks \in Nat
  BY SessionAssumption DEF ST!Configs, ST!SessionStartAssumption
<1>4. user \in Seq(D) /\ Len(user) = c.disks
  BY <1>3
<1> DEFINE P == root \o user
<1>5. ST!Preceding(c) = P /\ ST!Storage(c) = P \o own
  BY DEF ST!Preceding, ST!Storage
<1> HIDE DEF D, root, user, own
<1>6. /\ P \in Seq(D) /\ Len(P) = Len(root) + c.disks
      /\ c.rootfs = "block" => P[1] = "root"
  <2>1. /\ P \in Seq(D) /\ Len(P) = Len(root) + Len(user)
        /\ \A i \in 1..Len(root) + Len(user) :
             P[i] = IF i <= Len(root) THEN root[i] ELSE user[i - Len(root)]
    BY <1>1, <1>4, ConcatProperties
  <2>2. ASSUME c.rootfs = "block" PROVE P[1] = "root"
    <3>1. Len(root) = 1 BY <1>1, <2>2
    <3>2. P[1] = root[1] BY <1>3, <1>4, <2>1, <3>1
    <3>3. QED BY <1>1, <2>2, <3>2
  <2>3. QED BY <1>4, <2>1, <2>2
<1> HIDE DEF P
<1>7. /\ Len(P) \in Nat /\ Len(P \o own) = Len(P) + Len(own)
      /\ \A i \in 1..Len(P) + Len(own) :
           (P \o own)[i] = IF i <= Len(P) THEN P[i] ELSE own[i - Len(P)]
  BY <1>2, <1>6, ConcatProperties
<1>8. c.rootfs = "block" => Len(P) > 0 /\ (P \o own)[1] = "root"
  BY <1>1, <1>2, <1>3, <1>6, <1>7
<1>9. ASSUME ST!HasScratch(c) PROVE (P \o own)[Len(P) + 1] = "scratch"
  <2>1. Len(own) = 1 /\ own[1] = "scratch" BY <1>2, <1>9
  <2>2. (P \o own)[Len(P) + 1] = own[(Len(P) + 1) - Len(P)] BY <1>7, <2>1
  <2>3. QED BY <1>7, <2>1, <2>2
<1>10. QED BY <1>2, <1>5, <1>7, <1>8, <1>9

(* What the guest reads in the envelope, line by line.                      *)
LEMMA EnvelopeLines ==
  ASSUME NEW c \in ST!Configs, NEW e,
         e = ST!ToEnv(ST!BootParams(c, ST!ScratchSlot(c)))
  PROVE  /\ e["MODE"] = (IF c.rootfs = "block" THEN "block" ELSE "share")
         /\ e["STRATEGY"] = (IF c.agent THEN "agent" ELSE "oneshot")
         /\ e["CAPTURE"] = c.capture
         /\ "RO" \in DOMAIN e <=> c.rootfs # "block"
         /\ c.rootfs # "block" => e["RO"] = (c.rootfs = "readOnly")
         /\ "SCRATCH_DEV" \in DOMAIN e <=> ST!HasScratch(c)
         /\ ST!HasScratch(c) => e["SCRATCH_DEV"] = Len(ST!Preceding(c))
         /\ "SHARES" \in DOMAIN e <=> c.tags # {}
         /\ c.tags # {} => e["SHARES"] = c.tags
         /\ "CAPTURE" \in DOMAIN e
         /\ "EXEC" \in DOMAIN e <=> c.exec
         /\ "SWITCH_ROOT" \in DOMAIN e /\ e["SWITCH_ROOT"] = c.switchRoot
<1> DEFINE p == ST!BootParams(c, ST!ScratchSlot(c))
<1>1. /\ p.mode = (IF c.rootfs = "block" THEN "block" ELSE "share")
      /\ p.scratch = ST!ScratchSlot(c)
      /\ p.shares = c.tags /\ p.strategy = (IF c.agent THEN "agent" ELSE "oneshot")
      /\ p.capture = c.capture /\ p.exec = c.exec /\ p.switchRoot = c.switchRoot
  BY DEF ST!BootParams
<1>2. e = ST!ToEnv(p) OBVIOUS
<1>11. p.readOnly = (c.rootfs = "readOnly") BY Zenon DEF ST!BootParams
<1> HIDE DEF p
<1>3. DOMAIN e = ST!Lines(p) BY <1>2 DEF ST!ToEnv
<1>4. /\ {"MODE", "STRATEGY", "CAPTURE", "SWITCH_ROOT"} \subseteq ST!Lines(p)
      /\ "EXEC" \in ST!Lines(p) <=> p.exec
      /\ "RO" \in ST!Lines(p) <=> c.rootfs # "block"
      /\ "SCRATCH_DEV" \in ST!Lines(p) <=> ST!HasScratch(c)
      /\ "SHARES" \in ST!Lines(p) <=> c.tags # {}
  BY <1>1 DEF ST!Lines, ST!ScratchSlot
<1>5. /\ e["MODE"] = p.mode /\ e["STRATEGY"] = p.strategy /\ e["CAPTURE"] = p.capture
      /\ e["SWITCH_ROOT"] = p.switchRoot
  BY <1>2, <1>4 DEF ST!ToEnv
<1>6. "RO" \in ST!Lines(p) => e["RO"] = p.readOnly
  BY <1>2 DEF ST!ToEnv
<1>7. "SHARES" \in ST!Lines(p) => e["SHARES"] = p.shares
  BY <1>2 DEF ST!ToEnv
<1>8. "SCRATCH_DEV" \in ST!Lines(p) => e["SCRATCH_DEV"] = CHOOSE s \in p.scratch : TRUE
  BY <1>2 DEF ST!ToEnv
<1>9. ST!HasScratch(c) => (CHOOSE s \in p.scratch : TRUE) = Len(ST!Preceding(c))
  BY <1>1 DEF ST!ScratchSlot
<1>10. c.rootfs # "block" => e["RO"] = (c.rootfs = "readOnly")
  BY <1>4, <1>6, <1>11, Zenon
<1>12. QED BY <1>1, <1>3, <1>4, <1>5, <1>7, <1>8, <1>9, <1>10

(* A boot that starts is one that host and guest see alike.                 *)
LEMMA StartAgrees == StartInv => ST!GuestAgrees
<1> SUFFICES ASSUME StartInv, stage = "started" PROVE ST!GuestAgrees
  BY DEF ST!GuestAgrees
<1> DEFINE c == config
           n == Len(ST!Preceding(c))
<1>1. c \in ST!Configs /\ machine = ST!VmOf(c)
  BY DEF StartInv, ST!TypeOK
<1>2. c.rootfs \in {"block", "share", "readOnly"} /\ c.capture \in BOOLEAN
      /\ c.agent \in BOOLEAN /\ c.vsock \in BOOLEAN
      /\ c.exec \in BOOLEAN /\ c.switchRoot \in BOOLEAN
  BY <1>1 DEF ST!Configs
<1>3. env = ST!ToEnv(ST!BootParams(c, ST!ScratchSlot(c)))
  BY DEF StartInv
<1>4. /\ machine.storage = ST!Storage(c) /\ machine.shares = ST!Shares(c)
      /\ machine.consoles = ST!Consoles(c) /\ machine.cmdline = ST!Cmdline(c)
      /\ machine.console = ST!KernelConsole(c)
  BY <1>1 DEF ST!VmOf
<1>5. ST!Overlaid <=> ST!WritableRoot(c)
  <2>1. CASE c.rootfs = "block"
    BY <1>1, <1>3, <2>1, EnvelopeLines DEF ST!Overlaid, ST!WritableRoot
  <2>2. CASE c.rootfs # "block"
    <3>1. env["MODE"] # "block" /\ env["RO"] = (c.rootfs = "readOnly")
      BY <1>1, <1>3, <2>2, EnvelopeLines
    <3>2. ~env["RO"] <=> c.rootfs # "readOnly" BY <3>1, Zenon
    <3>3. QED BY <3>1, <3>2 DEF ST!Overlaid, ST!WritableRoot
  <2>3. QED BY <2>1, <2>2
<1>6. ST!GuestRoot = {"root"} <=> ~ST!TagClash(c)
  <2>1. CASE c.rootfs = "block"
    <3>1. env["MODE"] = "block" BY <1>1, <1>3, <2>1, EnvelopeLines
    <3>2. 0 < Len(machine.storage) /\ machine.storage[0 + 1] = "root"
      BY <1>1, <1>4, <2>1, DiskSlots
    <3>3. QED BY <2>1, <3>1, <3>2 DEF ST!GuestRoot, ST!Device, ST!TagClash
  <2>2. CASE c.rootfs # "block"
    <3>1. env["MODE"] = "share" BY <1>1, <1>3, <2>2, EnvelopeLines
    <3>2. machine.shares = {[tag |-> "rootfs", of |-> "root"]}
                             \cup [tag : c.tags, of : {"user"}]
                             \cup {[tag |-> "ctl", of |-> "host"]}
      BY <1>4, <2>2 DEF ST!Shares
    <3>3. ST!GuestRoot = {s.of : s \in {d \in machine.shares : d.tag = "rootfs"}}
      BY <3>1 DEF ST!GuestRoot
    <3>4. "root" \in ST!GuestRoot
      <4>1. [tag |-> "rootfs", of |-> "root"] \in machine.shares BY <3>2
      <4>2. QED BY <3>3, <4>1
    <3>5. ASSUME "rootfs" \in c.tags PROVE "user" \in ST!GuestRoot
      <4>1. [tag |-> "rootfs", of |-> "user"] \in machine.shares BY <3>2, <3>5
      <4>2. QED BY <3>3, <4>1
    <3>6. ASSUME "rootfs" \notin c.tags, NEW o \in ST!GuestRoot PROVE o = "root"
      <4>1. PICK d \in machine.shares : d.tag = "rootfs" /\ o = d.of BY <3>3, <3>6
      <4>2. QED BY <3>2, <3>6, <4>1
    <3>7. QED BY <2>2, <3>4, <3>5, <3>6 DEF ST!TagClash
  <2>3. QED BY <2>1, <2>2
<1>7. ST!GuestFormats = {d \in {"scratch"} : ST!HasScratch(c)}
  <2>1. CASE ST!HasScratch(c)
    <3>1. "SCRATCH_DEV" \in DOMAIN env /\ env["SCRATCH_DEV"] = n
      BY <1>1, <1>3, <2>1, EnvelopeLines
    <3>2. n < Len(machine.storage) /\ machine.storage[n + 1] = "scratch"
      BY <1>1, <1>4, <2>1, DiskSlots
    <3>3. ST!Overlaid BY <1>5, <2>1 DEF ST!HasScratch
    <3>4. ST!GuestFormats = {"scratch"}
      BY <3>1, <3>2, <3>3 DEF ST!GuestFormats, ST!Device
    <3>5. QED BY <2>1, <3>4
  <2>2. CASE ~ST!HasScratch(c)
    <3>1. "SCRATCH_DEV" \notin DOMAIN env BY <1>1, <1>3, <2>2, EnvelopeLines
    <3>2. QED BY <2>2, <3>1 DEF ST!GuestFormats
  <2>3. QED BY <2>1, <2>2
<1>8. ST!FromEnv(env).shares = c.tags
  BY <1>1, <1>3, EnvelopeLines DEF ST!FromEnv
<1>9. ST!FromEnv(env).shares \cup {"ctl"} \subseteq {s.tag : s \in machine.shares}
  <2>1. \A g \in c.tags : [tag |-> g, of |-> "user"] \in machine.shares
    BY <1>4 DEF ST!Shares
  <2>2. [tag |-> "ctl", of |-> "host"] \in machine.shares BY <1>4 DEF ST!Shares
  <2>3. \A g \in c.tags : g \in {s.tag : s \in machine.shares}
    <3>1. SUFFICES ASSUME NEW g \in c.tags PROVE g \in {s.tag : s \in machine.shares}
      OBVIOUS
    <3>2. g = [tag |-> g, of |-> "user"].tag OBVIOUS
    <3>3. QED BY <2>1, <3>2
  <2>4. "ctl" \in {s.tag : s \in machine.shares}
    <3>1. "ctl" = [tag |-> "ctl", of |-> "host"].tag OBVIOUS
    <3>2. QED BY <2>2, <3>1
  <2>5. QED BY <1>8, <2>3, <2>4
<1>10. "vsock_port" \in machine.cmdline <=> c.vsock
  BY <1>4 DEF ST!Cmdline
<1>11. /\ env["STRATEGY"] = (IF c.agent THEN "agent" ELSE "oneshot")
       /\ "EXEC" \in DOMAIN env <=> c.exec
       /\ env["SWITCH_ROOT"] = c.switchRoot /\ env["CAPTURE"] = c.capture
  BY <1>1, <1>3, EnvelopeLines
<1>12. ST!GuestRuns = IF \/ c.agent /\ ~c.vsock
                         \/ /\ ST!Asked(c) = "command" /\ c.switchRoot
                            /\ ~ST!WritableRoot(c)
                      THEN "nothing" ELSE ST!Asked(c)
  <2>1. CASE c.agent BY <1>2, <1>10, <1>11, <2>1 DEF ST!GuestRuns, ST!Asked
  <2>2. CASE ~c.agent /\ ~c.exec
    BY <1>2, <1>11, <2>2 DEF ST!GuestRuns, ST!Asked
  <2>3. CASE ~c.agent /\ c.exec
    BY <1>2, <1>5, <1>11, <2>3 DEF ST!GuestRuns, ST!Asked
  <2>4. QED BY <1>2, <2>1, <2>2, <2>3
<1>13. /\ ST!GuestWritesExit => ST!HostReadsExit(c)
       /\ ST!HostReadsExit(c) /\ ~ST!GuestWritesExit =>
            c.agent \/ (~c.exec /\ c.switchRoot)
  <2>1. CASE c.agent
    BY <1>5, <2>1 DEF ST!GuestWritesExit, ST!HostReadsExit
  <2>2. CASE ~c.agent /\ ST!WritableRoot(c)
    BY <1>2, <1>5, <1>11, <1>12, <2>2
    DEF ST!GuestWritesExit, ST!HostReadsExit, ST!Asked
  <2>3. CASE ~ST!WritableRoot(c)
    BY <1>5, <2>3 DEF ST!GuestWritesExit, ST!HostReadsExit
  <2>4. QED BY <1>2, <2>1, <2>2, <2>3
<1>14. /\ ST!GuestOutput = (IF ~c.capture THEN "terminal"
                            ELSE IF ST!GuestRuns = "command" THEN "pipe" ELSE "null")
       /\ c.capture => machine.consoles[machine.console] # "pipe"
  <2>1. CASE c.capture
    <3>1. machine.consoles = <<"pipe", "null">> /\ machine.console = 2
      BY <1>4, <2>1 DEF ST!Consoles, ST!KernelConsole
    <3>2. QED BY <1>11, <2>1, <3>1 DEF ST!GuestOutput
  <2>2. CASE ~c.capture
    <3>1. machine.consoles = <<"terminal">> /\ machine.console = 1
      BY <1>4, <2>2 DEF ST!Consoles, ST!KernelConsole
    <3>2. QED BY <1>2, <1>11, <2>2, <3>1 DEF ST!GuestOutput
  <2>3. QED BY <1>2, <2>1, <2>2
<1>15. ST!FromEnv(env) = ST!BootParams(c, ST!ScratchSlot(c))
  <2> DEFINE Get(k, default) == IF k \in DOMAIN env THEN env[k] ELSE default
  <2>1. env["MODE"] = (IF c.rootfs = "block" THEN "block" ELSE "share")
    BY <1>1, <1>3, EnvelopeLines
  <2>2. Get("RO", FALSE) = (c.rootfs = "readOnly")
    <3>1. CASE c.rootfs = "block"
      <4>1. "RO" \notin DOMAIN env BY <1>1, <1>3, <3>1, EnvelopeLines
      <4>2. (c.rootfs = "readOnly") = FALSE BY <3>1
      <4>3. QED BY <4>1, <4>2, Zenon
    <3>2. CASE c.rootfs # "block"
      <4>1. "RO" \in DOMAIN env /\ env["RO"] = (c.rootfs = "readOnly")
        BY <1>1, <1>3, <3>2, EnvelopeLines
      <4>2. QED BY <4>1, Zenon
    <3>3. QED BY <3>1, <3>2
  <2>3. (IF "SCRATCH_DEV" \in DOMAIN env THEN {env["SCRATCH_DEV"]} ELSE {}) = ST!ScratchSlot(c)
    BY <1>1, <1>3, EnvelopeLines DEF ST!ScratchSlot
  <2>4. Get("SHARES", {}) = c.tags
    BY <1>1, <1>3, EnvelopeLines
  <2>5. env["STRATEGY"] = IF c.agent THEN "agent" ELSE "oneshot"
    BY <1>1, <1>3, EnvelopeLines
  <2>6. Get("CAPTURE", FALSE) = c.capture
    <3>1. "CAPTURE" \in DOMAIN env /\ env["CAPTURE"] = c.capture
      BY <1>1, <1>3, EnvelopeLines
    <3>2. QED BY <3>1, Zenon
  <2>7. Get("SWITCH_ROOT", FALSE) = c.switchRoot
    <3>1. "SWITCH_ROOT" \in DOMAIN env /\ env["SWITCH_ROOT"] = c.switchRoot
      BY <1>1, <1>3, EnvelopeLines
    <3>2. QED BY <3>1, Zenon
  <2>8. ("EXEC" \in DOMAIN env) = c.exec
    <3>1. "EXEC" \in DOMAIN env <=> c.exec BY <1>1, <1>3, EnvelopeLines
    <3>2. CASE c.exec
      <4>1. c.exec = TRUE BY <1>2, <3>2
      <4>2. ("EXEC" \in DOMAIN env) = TRUE BY <3>1, <3>2
      <4>3. QED BY <4>1, <4>2, Zenon
    <3>3. CASE ~c.exec
      <4>1. c.exec = FALSE BY <1>2, <3>3
      <4>2. ("EXEC" \in DOMAIN env) = FALSE BY <3>1, <3>3
      <4>3. QED BY <4>1, <4>2, Zenon
    <3>4. QED BY <3>2, <3>3
  <2> HIDE DEF c
  <2>9. QED
    BY <2>1, <2>2, <2>3, <2>4, <2>5, <2>6, <2>7, <2>8, Zenon
    DEF ST!FromEnv, ST!BootParams
<1>16. QED
  BY <1>6, <1>7, <1>9, <1>10, <1>12, <1>13, <1>14, <1>15 DEF ST!GuestAgrees

-----------------------------------------------------------------------------
(* The agent's jobs.                                                        *)

Command(i) == AJ!Active(i) /\ ~AJ!IsWait(i)
Killed(r)  == r \in missed \/ (AJ!Ended(r) /\ ~bg[r])
Caught(r)    == IF written[r] - unread[r] < BufSize THEN written[r] - unread[r] ELSE BufSize
Jobs       == {j \in [req : AJ!Requests, eof : BOOLEAN, len : 0..BufSize, due : BOOLEAN] :
                 j.eof => j.req \notin Waits}
Replies    == [what : {"ok", "err", "code", "null", "timeout"}, len : 0..BufSize]
Phases     == {"select", "expire", "reap", "drain", "serve", "teardown", "reapall",
               "gone", "dead"}

\* The table, the requests on their way, and the processes have their types.
LoopTyped ==
  /\ host \in {"here", "gone"} /\ inbox \in Seq(AJ!Requests)
  /\ step \in [at : Phases, slot : 0..MaxJobs] /\ ready \subseteq 0..MaxJobs
  /\ \A i \in AJ!Slots : job[i] = AJ!Free \/ job[i] \in Jobs
  /\ job = [i \in AJ!Slots |-> job[i]]
  /\ reaped \subseteq Execs /\ missed \subseteq Execs
ProcsTyped ==
  /\ child \in [Execs -> {"none", "forked", "running", "quiet", "exited", "killed"}]
  /\ bg \in [Execs -> BOOLEAN]
  /\ written \in [Execs -> 0..MaxOut] /\ unread \in [Execs -> 0..MaxOut]

\* A request is in one place: on its way, in one slot, or answered once.
Answered ==
  /\ answers = [r \in AJ!Requests |-> answers[r]]
  /\ \A r \in AJ!Requests : answers[r] = <<>> \/ \E a \in Replies : answers[r] = <<a>>
OneSlot ==
  \A i \in AJ!Slots : AJ!Active(i) =>
    /\ answers[job[i].req] = <<>>
    /\ \A k \in AJ!Slots : AJ!Active(k) /\ job[k].req = job[i].req => k = i
OnItsWay ==
  \A k \in DOMAIN inbox :
    /\ answers[inbox[k]] = <<>>
    /\ inbox[k] \in Execs => child[inbox[k]] = "none"
    /\ \A i \in AJ!Slots : AJ!Active(i) => job[i].req # inbox[k]
    /\ \A l \in DOMAIN inbox : inbox[l] = inbox[k] => l = k

\* The process of a command in the table is there to be killed and waited for,
\* and what was read of its output is kept up to the buffer's size.
Commands ==
  \A i \in AJ!Slots : Command(i) =>
    /\ child[job[i].req] # "none" /\ job[i].req \notin reaped
    /\ job[i].len = Caught(job[i].req)
    /\ job[i].eof => unread[job[i].req] = 0 /\ ~AJ!Open(job[i].req)
Processes ==
  \A r \in Execs :
    /\ child[r] = "none" => ~bg[r] /\ written[r] = 0 /\ unread[r] = 0
    /\ r \in reaped => AJ!Ended(r)
    /\ unread[r] <= written[r]

\* What a reply says, and who has none.
Said(r, what) == answers[r] # <<>> /\ answers[r][1].what = what
Outcomes ==
  \A r \in Execs :
    /\ Said(r, "code") =>
         /\ child[r] = "exited" /\ ~bg[r]
         /\ answers[r][1].len = IF written[r] < BufSize THEN written[r] ELSE BufSize
    /\ Said(r, "timeout") => Killed(r) /\ r \in reaped
    /\ answers[r] = <<>> /\ child[r] # "none" =>
         \/ \E i \in AJ!Slots : Command(i) /\ job[i].req = r
         \/ Killed(r) /\ r \in reaped

\* What the loop relies on where it goes next.
Fits(s) ==
  /\ s.at \in {"expire", "reap", "drain", "teardown", "reapall"} =>
       s.slot \in AJ!Slots /\ AJ!Active(s.slot)
  /\ s.at \in {"reap", "teardown", "reapall"} => Command(s.slot)
  /\ s.at \in {"reap", "reapall"} => Killed(job[s.slot].req)
  /\ s.at \in {"expire", "reap"} =>
       \A k \in AJ!Slots \cap ready : AJ!Piped(k) => AJ!Readable(k)
  /\ s.at = "drain" =>
       /\ s.slot \in ready /\ AJ!Piped(s.slot)
       /\ \A k \in AJ!Slots \cap ready : k >= s.slot /\ AJ!Piped(k) => AJ!Readable(k)
  /\ s.at \in {"teardown", "reapall"} =>
       \A k \in AJ!Slots : Command(k) => k >= s.slot
  /\ s.at = "gone" => \A k \in AJ!Slots : ~Command(k)

JobInv ==
  /\ LoopTyped /\ ProcsTyped /\ Answered /\ OneSlot /\ OnItsWay
  /\ Commands /\ Processes /\ Outcomes /\ Fits(step)

LEMMA AgentConstants ==
  /\ MaxJobs \in Nat \ {0} /\ BufSize \in Nat \ {0} /\ MaxOut \in Nat
  /\ Execs \cap Waits = {} /\ "none" \notin AJ!Requests
BY SessionAssumption DEF AJ!AgentJobsAssumption, AJ!Requests

LEMMA FirstOf ==
  ASSUME NEW S \in SUBSET AJ!Slots, S # {}
  PROVE  AJ!First(S) \in S /\ \A k \in S : AJ!First(S) <= k
<1>1. S \in SUBSET Nat BY AgentConstants DEF AJ!Slots
<1>2. \E m \in S : \A k \in S : m <= k BY <1>1, LeastOfSet
<1>3. QED BY <1>2 DEF AJ!First

\* Wherever the loop goes from a slot, it finds what it relies on.
GoesOn ==
  /\ \A i \in 0..MaxJobs :
       (\A k \in AJ!Slots \cap ready : k > i /\ AJ!Piped(k) => AJ!Readable(k)) =>
         Fits(AJ!DrainFrom(i)) /\ AJ!DrainFrom(i) \in [at : Phases, slot : 0..MaxJobs]
  /\ \A i \in 0..MaxJobs :
       (\A k \in AJ!Slots \cap ready : AJ!Piped(k) => AJ!Readable(k)) =>
         Fits(AJ!ExpireFrom(i)) /\ AJ!ExpireFrom(i) \in [at : Phases, slot : 0..MaxJobs]
  /\ \A i \in 0..MaxJobs :
       (\A k \in AJ!Slots : k <= i => ~Command(k)) =>
         Fits(AJ!TeardownFrom(i)) /\ AJ!TeardownFrom(i) \in [at : Phases, slot : 0..MaxJobs]

LEMMA FindsItsWay == GoesOn
<1> USE AgentConstants DEF AJ!Slots
<1>1. ASSUME NEW i \in 0..MaxJobs,
             \A k \in AJ!Slots \cap ready : k > i /\ AJ!Piped(k) => AJ!Readable(k)
      PROVE  Fits(AJ!DrainFrom(i)) /\ AJ!DrainFrom(i) \in [at : Phases, slot : 0..MaxJobs]
  <2> DEFINE S == {k \in AJ!Slots \cap ready : k > i /\ AJ!Piped(k)}
  <2>1. CASE S # {}
    <3>1. AJ!First(S) \in S /\ \A k \in S : AJ!First(S) <= k BY <2>1, FirstOf
    <3>2. AJ!DrainFrom(i) = [at |-> "drain", slot |-> AJ!First(S)]
      BY <2>1 DEF AJ!DrainFrom, AJ!Is
    <3> HIDE DEF S
    <3> DEFINE f == AJ!First(S)
    <3>3. f \in AJ!Slots \cap ready /\ AJ!Piped(f) /\ f > i BY <3>1 DEF S
    <3> HIDE DEF f
    <3>4. \A k \in AJ!Slots \cap ready : k >= f /\ AJ!Piped(k) => AJ!Readable(k)
      BY <1>1, <3>3
    <3>5. QED BY <3>2, <3>3, <3>4 DEF Fits, AJ!Piped, Phases, f
  <2>2. CASE S = {}
    <3>1. AJ!DrainFrom(i) \in {AJ!Is("serve", 0), AJ!Is("select", 0)}
      BY <2>2 DEF AJ!DrainFrom
    <3>2. QED BY <3>1 DEF AJ!Is, Fits, Phases
  <2>3. QED BY <2>1, <2>2
<1>2. ASSUME NEW i \in 0..MaxJobs,
             \A k \in AJ!Slots \cap ready : AJ!Piped(k) => AJ!Readable(k)
      PROVE  Fits(AJ!ExpireFrom(i)) /\ AJ!ExpireFrom(i) \in [at : Phases, slot : 0..MaxJobs]
  <2> DEFINE S == {k \in AJ!Slots : k > i /\ AJ!Active(k)}
  <2>1. CASE S # {}
    <3>1. AJ!First(S) \in S BY <2>1, FirstOf
    <3>2. AJ!ExpireFrom(i) = [at |-> "expire", slot |-> AJ!First(S)]
      BY <2>1 DEF AJ!ExpireFrom, AJ!Is
    <3>3. QED BY <1>2, <3>1, <3>2 DEF Fits, Phases
  <2>2. CASE S = {}
    <3>1. AJ!ExpireFrom(i) = AJ!DrainFrom(0) BY <2>2 DEF AJ!ExpireFrom
    <3>2. QED BY <1>1, <1>2, <3>1
  <2>3. QED BY <2>1, <2>2
<1>3. ASSUME NEW i \in 0..MaxJobs, \A k \in AJ!Slots : k <= i => ~Command(k)
      PROVE  Fits(AJ!TeardownFrom(i)) /\ AJ!TeardownFrom(i) \in [at : Phases, slot : 0..MaxJobs]
  <2> DEFINE S == {k \in AJ!Slots : k > i /\ Command(k)}
  <2>1. S = {k \in AJ!Slots : k > i /\ AJ!Active(k) /\ ~AJ!IsWait(k)} BY DEF Command
  <2>2. CASE S # {}
    <3>1. AJ!First(S) \in S /\ \A k \in S : AJ!First(S) <= k BY <2>2, FirstOf
    <3>2. AJ!TeardownFrom(i) = [at |-> "teardown", slot |-> AJ!First(S)]
      BY <2>1, <2>2 DEF AJ!TeardownFrom, AJ!Is
    <3> HIDE DEF S
    <3> DEFINE f == AJ!First(S)
    <3>3. f \in AJ!Slots /\ Command(f) BY <3>1 DEF S
    <3>4. \A k \in AJ!Slots : Command(k) => k >= f BY <1>3, <3>1 DEF S
    <3> HIDE DEF f
    <3>5. QED BY <3>2, <3>3, <3>4 DEF Fits, Command, Phases, f
  <2>3. CASE S = {}
    <3>1. AJ!TeardownFrom(i) = [at |-> "gone", slot |-> 0]
      BY <2>1, <2>3 DEF AJ!TeardownFrom, AJ!Is
    <3>2. \A k \in AJ!Slots : ~Command(k) BY <1>3, <2>3
    <3>3. QED BY <3>1, <3>2 DEF Fits, Phases
  <2>4. QED BY <2>2, <2>3
<1>4. QED BY <1>1, <1>2, <1>3 DEF GoesOn

LEMMA FindsItsWayNext == GoesOn'
BY FindsItsWay, PTL

\* What happens to a process beside the loop, or when its group is killed: it
\* prints and ends, and does not come back.
Ages(r) ==
  /\ child[r] = "none" <=> child'[r] = "none"
  /\ AJ!Ended(r) => child'[r] = child[r]
  /\ ~AJ!Open(r) => ~AJ!Open(r)' /\ written'[r] = written[r] /\ unread'[r] = unread[r]
  /\ AJ!Ended(r) /\ ~bg[r] => ~bg'[r]
  /\ child[r] = "none" => ~bg'[r] /\ written'[r] = written[r] /\ unread'[r] = unread[r]
  /\ written'[r] - unread'[r] = written[r] - unread[r] /\ unread[r] <= unread'[r]

ProcessStep(r) ==
  AJ!Setsid(r) \/ AJ!Prints(r) \/ AJ!Redirects(r) \/ AJ!Background(r)
    \/ AJ!BackgroundEnds(r) \/ AJ!Exits(r)

LEMMA ProcessesAge ==
  ASSUME ProcsTyped, Processes, NEW r \in Execs, ProcessStep(r)
  PROVE  ProcsTyped' /\ \A x \in Execs : Ages(x)
<1> USE AgentConstants DEF ProcsTyped, Processes, Ages, AJ!Open, AJ!Ended
<1>1. CASE AJ!Setsid(r) \/ AJ!Redirects(r) \/ AJ!Exits(r)
  <2>1. ProcsTyped' BY <1>1 DEF AJ!Setsid, AJ!Redirects, AJ!Exits
  <2>2. \A x \in Execs : Ages(x) BY <1>1 DEF AJ!Setsid, AJ!Redirects, AJ!Exits
  <2>3. QED BY <2>1, <2>2
<1>2. CASE AJ!Background(r) \/ AJ!BackgroundEnds(r)
  <2>1. ProcsTyped' BY <1>2 DEF AJ!Background, AJ!BackgroundEnds
  <2>2. \A x \in Execs : Ages(x) BY <1>2 DEF AJ!Background, AJ!BackgroundEnds
  <2>3. QED BY <2>1, <2>2
<1>3. CASE AJ!Prints(r)
  <2>1. written[r] \in Nat /\ unread[r] \in Nat /\ unread[r] <= written[r] /\ written[r] < MaxOut
    BY <1>3 DEF AJ!Prints
  <2>2. ProcsTyped' BY <1>3, <2>1 DEF AJ!Prints
  <2>3. \A x \in Execs : Ages(x) BY <1>3, <2>1 DEF AJ!Prints
  <2>4. QED BY <2>2, <2>3
<1>4. QED BY <1>1, <1>2, <1>3 DEF ProcessStep

LEMMA GroupAges ==
  ASSUME ProcsTyped, Processes, NEW r \in Execs, AJ!KillGroup(r), UNCHANGED <<written, unread>>
  PROVE  /\ ProcsTyped' /\ \A x \in Execs : Ages(x)
         /\ missed' \in {missed, missed \cup {r}}
         /\ child[r] # "none" => Killed(r)'
<1> USE AgentConstants
    DEF ProcsTyped, Processes, Ages, AJ!Open, AJ!Ended, AJ!KillGroup, AJ!Alive, Killed
<1>1. ProcsTyped' OBVIOUS
<1>2. \A x \in Execs : Ages(x) OBVIOUS
<1>3. child[r] # "none" => Killed(r)' OBVIOUS
<1>4. QED BY <1>1, <1>2, <1>3

(* The account of the table holds while the processes go on and are killed. *)
LEMMA AgingKeeps ==
  ASSUME JobInv, \A r \in Execs : Ages(r), ProcsTyped', missed \subseteq missed',
         UNCHANGED <<inbox, ready, job, reaped, answers>>
  PROVE  /\ Answered' /\ OneSlot' /\ OnItsWay' /\ Commands' /\ Processes' /\ Outcomes'
         /\ \A r \in Execs : Killed(r) => Killed(r)'
         /\ \A k \in AJ!Slots : AJ!Piped(k) /\ AJ!Readable(k) => AJ!Readable(k)'
         /\ UNCHANGED step => Fits(step)'
<1>1. /\ ProcsTyped /\ Answered /\ OneSlot /\ OnItsWay /\ Commands /\ Processes /\ Outcomes
      /\ \A i \in AJ!Slots : job[i] = AJ!Free \/ job[i] \in Jobs
      /\ inbox \in Seq(AJ!Requests)
      /\ reaped \subseteq Execs
  BY DEF JobInv, LoopTyped
<1>2. ASSUME NEW r \in Execs
      PROVE  /\ Ages(r) /\ Caught(r)' = Caught(r)
             /\ AJ!Ended(r) => AJ!Ended(r)'
             /\ Killed(r) => Killed(r)'
  <2>1. Ages(r) OBVIOUS
  <2>2. Caught(r)' = Caught(r) BY <2>1 DEF Ages, Caught
  <2>3. AJ!Ended(r) => AJ!Ended(r)' BY <2>1 DEF Ages, AJ!Ended
  <2>4. Killed(r) => Killed(r)' BY <2>1, <2>3 DEF Ages, Killed
  <2>5. QED BY <2>1, <2>2, <2>3, <2>4
<1>3. ASSUME NEW i \in AJ!Slots
      PROVE  /\ AJ!Active(i)' <=> AJ!Active(i)
             /\ Command(i)' <=> Command(i)
             /\ AJ!Piped(i)' <=> AJ!Piped(i)
             /\ Command(i) => job[i].req \in Execs
             /\ AJ!Piped(i) => Command(i)
  <2>1. /\ AJ!Active(i)' <=> AJ!Active(i)
        /\ Command(i)' <=> Command(i)
        /\ AJ!Piped(i)' <=> AJ!Piped(i)
        /\ AJ!Piped(i) => Command(i)
    BY DEF AJ!Active, AJ!IsWait, Command, AJ!Piped
  <2>2. ASSUME Command(i) PROVE job[i].req \in Execs
    <3>1. job[i].req \in AJ!Requests /\ job[i].req \notin Waits
      BY <1>1, <2>2 DEF Command, AJ!Active, AJ!IsWait, Jobs
    <3>2. QED BY <3>1 DEF AJ!Requests
  <2>3. QED BY <2>1, <2>2
<1>4. Answered' /\ OneSlot'
  BY <1>1, <1>3 DEF Answered, OneSlot
<1>5. OnItsWay'
  BY <1>1, <1>2, <1>3 DEF OnItsWay, Ages
<1>6. Commands'
  BY <1>1, <1>2, <1>3 DEF Commands, Ages
<1>7. Processes'
  BY <1>1, <1>2, AgentConstants DEF Processes, Ages, ProcsTyped
<1>8. Outcomes'
  <2> SUFFICES ASSUME NEW r \in Execs
               PROVE  /\ Said(r, "code") =>
                           /\ child'[r] = "exited" /\ ~bg'[r] /\ written'[r] = written[r]
                      /\ Said(r, "timeout") => Killed(r)' /\ r \in reaped
                      /\ answers[r] = <<>> /\ child'[r] # "none" =>
                           \/ \E i \in AJ!Slots : Command(i) /\ job[i].req = r
                           \/ Killed(r)' /\ r \in reaped
    BY <1>1, <1>3 DEF Outcomes, Said
  <2>1. Said(r, "code") => child'[r] = "exited" /\ ~bg'[r] /\ written'[r] = written[r]
    BY <1>1, <1>2 DEF Outcomes, Ages, AJ!Ended, AJ!Open
  <2>2. Said(r, "timeout") => Killed(r)' /\ r \in reaped
    BY <1>1, <1>2 DEF Outcomes
  <2>3. answers[r] = <<>> /\ child'[r] # "none" =>
          \/ \E i \in AJ!Slots : Command(i) /\ job[i].req = r
          \/ Killed(r)' /\ r \in reaped
    BY <1>1, <1>2 DEF Outcomes, Ages
  <2>4. QED BY <2>1, <2>2, <2>3
<1>9. ASSUME NEW k \in AJ!Slots, AJ!Piped(k), AJ!Readable(k) PROVE AJ!Readable(k)'
  <2>1. job[k].req \in Execs BY <1>3, <1>9
  <2>2. Ages(job[k].req) BY <2>1
  <2>3. unread[job[k].req] \in Nat /\ unread'[job[k].req] \in Nat
    BY <2>1, AgentConstants DEF ProcsTyped, JobInv
  <2>4. QED BY <1>3, <1>9, <2>2, <2>3 DEF AJ!Readable, Ages
<1>10. ASSUME UNCHANGED step PROVE Fits(step)'
  BY <1>2, <1>3, <1>9, <1>10 DEF Fits, JobInv
<1>11. QED BY <1>2, <1>4, <1>5, <1>6, <1>7, <1>8, <1>9, <1>10

\* A slot with a new content, and what is left of the rest.
LEMMA JobRecords ==
  /\ \A j \in Jobs : /\ j.req \in AJ!Requests /\ j.eof \in BOOLEAN /\ j.len \in 0..BufSize
                     /\ j # AJ!Free /\ j.req # "none"
                     /\ j.eof => j.req \notin Waits
                     /\ [j EXCEPT !.due = TRUE] \in Jobs
                     /\ j.req \notin Waits => [j EXCEPT !.eof = TRUE] \in Jobs
                     /\ \A n \in 0..BufSize : [j EXCEPT !.len = n] \in Jobs
  /\ \A r \in AJ!Requests : AJ!NewJob(r) \in Jobs
<1> USE AgentConstants
<1>1. ASSUME NEW j \in Jobs
      PROVE  /\ j.req \in AJ!Requests /\ j.eof \in BOOLEAN /\ j.len \in 0..BufSize
             /\ j # AJ!Free /\ j.req # "none"
             /\ j.eof => j.req \notin Waits
  <2>1. /\ j.req \in AJ!Requests /\ j.eof \in BOOLEAN /\ j.len \in 0..BufSize
        /\ j.eof => j.req \notin Waits
    BY DEF Jobs
  <2>2. j # AJ!Free /\ j.req # "none" BY <2>1 DEF AJ!Free
  <2>3. QED BY <2>1, <2>2
<1> DEFINE R == [req : AJ!Requests, eof : BOOLEAN, len : 0..BufSize, due : BOOLEAN]
<1>2. ASSUME NEW j \in Jobs PROVE [j EXCEPT !.due = TRUE] \in Jobs
  <2>1. [j EXCEPT !.due = TRUE] \in R BY Zenon DEF Jobs
  <2>2. [j EXCEPT !.due = TRUE].eof = j.eof /\ [j EXCEPT !.due = TRUE].req = j.req
    BY Zenon DEF Jobs
  <2>3. QED BY <1>1, <2>1, <2>2, Zenon DEF Jobs
<1>3. ASSUME NEW j \in Jobs, j.req \notin Waits PROVE [j EXCEPT !.eof = TRUE] \in Jobs
  <2>1. [j EXCEPT !.eof = TRUE] \in R BY Zenon DEF Jobs
  <2>2. [j EXCEPT !.eof = TRUE].req = j.req BY Zenon DEF Jobs
  <2>3. QED BY <1>3, <2>1, <2>2, Zenon DEF Jobs
<1>4. ASSUME NEW j \in Jobs, NEW n \in 0..BufSize PROVE [j EXCEPT !.len = n] \in Jobs
  <2>1. [j EXCEPT !.len = n] \in R BY Zenon DEF Jobs
  <2>2. [j EXCEPT !.len = n].eof = j.eof /\ [j EXCEPT !.len = n].req = j.req
    BY Zenon DEF Jobs
  <2>3. QED BY <1>1, <2>1, <2>2, Zenon DEF Jobs
<1>5. ASSUME NEW r \in AJ!Requests PROVE AJ!NewJob(r) \in Jobs
  <2>1. 0 \in 0..BufSize OBVIOUS
  <2>2. AJ!NewJob(r) \in R BY <2>1, Zenon DEF AJ!NewJob
  <2>3. ~AJ!NewJob(r).eof BY Zenon DEF AJ!NewJob
  <2>4. QED BY <2>2, <2>3, Zenon DEF Jobs
<1>6. QED BY <1>1, <1>2, <1>3, <1>4, <1>5

\* Who is where, apart from the slot that changes.
LEMMA SlotFacts ==
  ASSUME JobInv, NEW i \in AJ!Slots, AJ!Active(i)
  PROVE  /\ job[i] \in Jobs /\ job[i].req \in AJ!Requests /\ job[i].len \in 0..BufSize
         /\ answers[job[i].req] = <<>>
         /\ Command(i) => job[i].req \in Execs
         /\ ~Command(i) => job[i].req \in Waits /\ job[i].req \notin Execs
<1>1. job[i] \in Jobs BY DEF JobInv, LoopTyped, AJ!Active
<1>2. answers[job[i].req] = <<>> BY DEF JobInv, OneSlot
<1>3. job[i].req \in AJ!Requests /\ job[i].len \in 0..BufSize BY <1>1, JobRecords
<1>4. Command(i) <=> job[i].req \notin Waits BY DEF Command, AJ!IsWait
<1>5. QED BY <1>1, <1>2, <1>3, <1>4, AgentConstants DEF AJ!Requests

(* A slot is freed when its request is answered, and its shell reaped with  *)
(* it, or without an answer when the connection has ended.                  *)
LEMMA FreeKeeps ==
  ASSUME JobInv, NEW i \in AJ!Slots, AJ!Active(i),
         job' = [job EXCEPT ![i] = AJ!Free],
         UNCHANGED <<inbox, missed, child, bg, written, unread>>,
         reaped' = IF Command(i) THEN reaped \cup {job[i].req} ELSE reaped,
         Command(i) => AJ!Ended(job[i].req),
         \/ /\ answers' = answers
            /\ Command(i) => Killed(job[i].req)
         \/ \E a \in Replies :
              /\ answers' = [answers EXCEPT ![job[i].req] = <<a>>]
              /\ Command(i) /\ a.what = "timeout" => Killed(job[i].req)
              /\ Command(i) /\ a.what = "code" =>
                   /\ child[job[i].req] = "exited" /\ ~bg[job[i].req]
                   /\ a.len = IF written[job[i].req] < BufSize THEN written[job[i].req]
                                                              ELSE BufSize
  PROVE  /\ Answered' /\ OneSlot' /\ OnItsWay' /\ Commands' /\ Processes' /\ Outcomes'
         /\ \A k \in AJ!Slots : job'[k] = AJ!Free \/ job'[k] \in Jobs
         /\ job' = [k \in AJ!Slots |-> job'[k]] /\ reaped' \subseteq Execs
         /\ ~AJ!Active(i)' /\ ~Command(i)' /\ ~AJ!Piped(i)'
         /\ \A k \in AJ!Slots : k # i =>
              /\ job'[k] = job[k] /\ (AJ!Active(k)' <=> AJ!Active(k))
              /\ (Command(k)' <=> Command(k)) /\ (AJ!Piped(k)' <=> AJ!Piped(k))
              /\ (AJ!Readable(k)' <=> AJ!Readable(k))
<1> DEFINE r == job[i].req
<1>1. /\ Answered /\ OneSlot /\ OnItsWay /\ Commands /\ Processes /\ Outcomes
      /\ \A k \in AJ!Slots : job[k] = AJ!Free \/ job[k] \in Jobs
      /\ job = [k \in AJ!Slots |-> job[k]] /\ reaped \subseteq Execs
      /\ inbox \in Seq(AJ!Requests)
  BY DEF JobInv, LoopTyped
<1>2. /\ r \in AJ!Requests /\ answers[r] = <<>>
      /\ Command(i) => r \in Execs
      /\ ~Command(i) => r \notin Execs
  BY SlotFacts
<1>3. /\ job'[i] = AJ!Free /\ \A k \in AJ!Slots : k # i => job'[k] = job[k]
      /\ \A k \in AJ!Slots : job'[k] = AJ!Free \/ job'[k] \in Jobs
      /\ job' = [k \in AJ!Slots |-> job'[k]]
  BY <1>1
<1>4. ~AJ!Active(i)' /\ ~Command(i)' /\ ~AJ!Piped(i)'
  BY <1>3 DEF AJ!Active, Command, AJ!Piped
<1>5. ASSUME NEW k \in AJ!Slots, k # i
      PROVE  /\ job'[k] = job[k] /\ (AJ!Active(k)' <=> AJ!Active(k))
             /\ (Command(k)' <=> Command(k)) /\ (AJ!Piped(k)' <=> AJ!Piped(k))
             /\ (AJ!Readable(k)' <=> AJ!Readable(k))
  BY <1>3, <1>5
  DEF AJ!Active, Command, AJ!IsWait, AJ!Piped, AJ!Readable, AJ!Open
<1>6. reaped' \subseteq Execs BY <1>1, <1>2
<1>7. /\ \A q \in AJ!Requests : q # r => answers'[q] = answers[q]
      /\ answers'[r] = <<>> \/ \E a \in Replies : answers'[r] = <<a>>
      /\ answers' = [q \in AJ!Requests |-> answers'[q]]
  BY <1>1, <1>2 DEF Answered
<1>8. Answered' BY <1>1, <1>7 DEF Answered
<1>9. ASSUME NEW k \in AJ!Slots, k # i, AJ!Active(k)
      PROVE  job[k].req # r /\ job[k].req \in AJ!Requests
  BY <1>1, <1>9, SlotFacts DEF OneSlot
<1>10. OneSlot'
  BY <1>1, <1>4, <1>5, <1>7, <1>9 DEF OneSlot
<1>11. OnItsWay'
  <2>1. \A k \in DOMAIN inbox : inbox[k] \in AJ!Requests /\ inbox[k] # r
    BY <1>1 DEF OnItsWay
  <2>2. QED BY <1>1, <1>4, <1>5, <1>7, <2>1 DEF OnItsWay
<1>12. Commands'
  <2>1. ASSUME NEW k \in AJ!Slots, k # i, Command(k)
        PROVE  /\ child[job[k].req] # "none" /\ job[k].req \notin reaped'
               /\ job[k].len = Caught(job[k].req)
               /\ job[k].eof => unread[job[k].req] = 0 /\ ~AJ!Open(job[k].req)
    <3>1. job[k].req # r BY <1>9, <2>1 DEF Command
    <3>2. QED BY <1>1, <2>1, <3>1 DEF Commands
  <2>2. QED BY <1>4, <1>5, <2>1 DEF Commands, Caught, AJ!Open
<1>13. Processes'
  BY <1>1, <1>2 DEF Processes, AJ!Ended
<1>14. Outcomes'
  <2> SUFFICES ASSUME NEW q \in Execs
               PROVE  /\ Said(q, "code")' =>
                           /\ child[q] = "exited" /\ ~bg[q]
                           /\ answers'[q][1].len = IF written[q] < BufSize THEN written[q]
                                                                         ELSE BufSize
                      /\ Said(q, "timeout")' => Killed(q) /\ q \in reaped'
                      /\ answers'[q] = <<>> /\ child[q] # "none" =>
                           \/ \E k \in AJ!Slots : Command(k)' /\ job'[k].req = q
                           \/ Killed(q) /\ q \in reaped'
    BY DEF Outcomes, Killed, AJ!Ended
  <2>1. q \in AJ!Requests BY DEF AJ!Requests
  <2>2. CASE q # r
    <3>1. answers'[q] = answers[q] BY <1>7, <2>1, <2>2
    <3>2. \A k \in AJ!Slots : Command(k) /\ job[k].req = q => Command(k)' /\ job'[k].req = q
      BY <1>5, <2>2
    <3>3. QED BY <1>1, <3>1, <3>2 DEF Outcomes, Said
  <2>3. CASE q = r
    <3>1. Command(i) /\ q \in reaped' BY <1>2, <2>3
    <3>2. ASSUME answers' = answers, Command(i) => Killed(r)
          PROVE  answers'[q] = <<>> /\ Killed(q)
      BY <1>2, <2>3, <3>1, <3>2
    <3>3. ASSUME NEW a \in Replies, answers' = [answers EXCEPT ![r] = <<a>>],
                 a.what = "timeout" => Killed(r),
                 a.what = "code" =>
                   /\ child[r] = "exited" /\ ~bg[r]
                   /\ a.len = IF written[r] < BufSize THEN written[r] ELSE BufSize
          PROVE  /\ Said(q, "code")' =>
                      /\ child[q] = "exited" /\ ~bg[q]
                      /\ answers'[q][1].len = IF written[q] < BufSize THEN written[q]
                                                                    ELSE BufSize
                 /\ Said(q, "timeout")' => Killed(q) /\ q \in reaped'
                 /\ answers'[q] # <<>>
      <4>1. answers'[q] = <<a>> /\ answers'[q][1] = a
        BY <1>1, <1>2, <2>3, <3>3 DEF Answered
      <4>2. QED BY <2>3, <3>1, <3>3, <4>1 DEF Said
    <3>4. QED BY <3>1, <3>2, <3>3 DEF Said
  <2>4. QED BY <2>2, <2>3
<1>15. QED
  BY <1>3, <1>4, <1>5, <1>6, <1>8, <1>10, <1>11, <1>12, <1>13, <1>14

\* An agent that has died of a closed connection relies on nothing.
LEMMA DeadFits ==
  ASSUME step' = AJ!Is("dead", 0)
  PROVE  Fits(step)' /\ step' \in [at : Phases, slot : 0..MaxJobs]
BY AgentConstants DEF Fits, AJ!Is, Phases

\* A first reply is the only one.
LEMMA FirstReply ==
  ASSUME NEW r \in AJ!Requests, answers[r] = <<>>,
         NEW what \in {"ok", "err", "code", "null", "timeout"}, NEW len \in 0..BufSize,
         NEW after, AJ!Reply(r, what, len, after)
  PROVE  /\ step' \in {after, AJ!Is("dead", 0)}
         /\ \E a \in Replies :
              a.what = what /\ a.len = len /\ answers' = [answers EXCEPT ![r] = <<a>>]
<1> DEFINE a == [what |-> what, len |-> len]
<1>1. a \in Replies /\ a.what = what /\ a.len = len BY DEF Replies
<1>2. Append(answers[r], a) = <<a>> OBVIOUS
<1>3. answers' = [answers EXCEPT ![r] = <<a>>] BY <1>2 DEF AJ!Reply
<1>4. step' \in {after, AJ!Is("dead", 0)} BY DEF AJ!Reply
<1>5. QED BY <1>1, <1>3, <1>4

(* A command is answered with what it printed and its shell reaped          *)
(* (deliver_exec), by the drain or by the timers.                           *)
LEMMA DeliverKeeps ==
  ASSUME JobInv, NEW i \in AJ!Slots, Command(i),
         step.at \in {"expire", "reap", "drain"}, step.slot = i,
         AJ!Ended(job[i].req),
         NEW what \in {"code", "null", "timeout"}, AJ!Deliver(i, what),
         UNCHANGED <<host, inbox, missed, AJ!procVars>>,
         what = "timeout" => Killed(job[i].req),
         what = "code" =>
           /\ child[job[i].req] = "exited" /\ ~bg[job[i].req]
           /\ job[i].len = IF written[job[i].req] < BufSize THEN written[job[i].req] ELSE BufSize
  PROVE  JobInv'
<1> DEFINE r == job[i].req
<1>1. AJ!Active(i) BY DEF Command
<1>2. /\ r \in AJ!Requests /\ answers[r] = <<>> /\ job[i].len \in 0..BufSize
  BY <1>1, SlotFacts
<1>3. /\ job' = [job EXCEPT ![i] = AJ!Free] /\ reaped' = reaped \cup {r} /\ ready' = ready
      /\ AJ!Reply(r, what, job[i].len,
                  IF step.at = "drain" THEN AJ!DrainFrom(i)' ELSE AJ!ExpireFrom(i)')
  BY DEF AJ!Deliver
<1>4. /\ step' \in {IF step.at = "drain" THEN AJ!DrainFrom(i)' ELSE AJ!ExpireFrom(i)',
                    AJ!Is("dead", 0)}
      /\ \E a \in Replies :
           a.what = what /\ a.len = job[i].len /\ answers' = [answers EXCEPT ![r] = <<a>>]
  BY <1>2, <1>3, FirstReply
<1>5. /\ Answered' /\ OneSlot' /\ OnItsWay' /\ Commands' /\ Processes' /\ Outcomes'
      /\ \A k \in AJ!Slots : job'[k] = AJ!Free \/ job'[k] \in Jobs
      /\ job' = [k \in AJ!Slots |-> job'[k]] /\ reaped' \subseteq Execs
      /\ ~AJ!Piped(i)'
      /\ \A k \in AJ!Slots : k # i =>
           (AJ!Piped(k)' <=> AJ!Piped(k)) /\ (AJ!Readable(k)' <=> AJ!Readable(k))
  <2>1. \E a \in Replies :
          /\ answers' = [answers EXCEPT ![r] = <<a>>]
          /\ Command(i) /\ a.what = "timeout" => Killed(r)
          /\ Command(i) /\ a.what = "code" =>
               /\ child[r] = "exited" /\ ~bg[r]
               /\ a.len = IF written[r] < BufSize THEN written[r] ELSE BufSize
    BY <1>4
  <2>2. /\ UNCHANGED <<inbox, missed, child, bg, written, unread>>
        /\ reaped' = IF Command(i) THEN reaped \cup {r} ELSE reaped
    BY <1>3 DEF AJ!procVars
  <2> HIDE DEF r
  <2>3. QED BY <1>1, <1>3, <2>1, <2>2, FreeKeeps DEF r
<1>6. \/ step' = AJ!Is("dead", 0)
      \/ Fits(step)' /\ step' \in [at : Phases, slot : 0..MaxJobs]
  <2>1. i \in Nat /\ i \in 0..MaxJobs BY AgentConstants DEF AJ!Slots
  <2>2. CASE step.at = "drain"
    <3>1. \A k \in AJ!Slots \cap ready : k >= i /\ AJ!Piped(k) => AJ!Readable(k)
      BY <2>2 DEF JobInv, Fits
    <3>2. \A k \in AJ!Slots \cap ready' : k > i /\ AJ!Piped(k)' => AJ!Readable(k)'
      BY <1>3, <1>5, <2>1, <3>1 DEF AJ!Slots
    <3>3. Fits(AJ!DrainFrom(i))' /\ AJ!DrainFrom(i)' \in [at : Phases, slot : 0..MaxJobs]
      BY <2>1, <3>2, FindsItsWayNext DEF GoesOn
    <3>4. QED BY <1>4, <2>2, <3>3 DEF Fits
  <2>3. CASE step.at # "drain"
    <3>1. \A k \in AJ!Slots \cap ready : AJ!Piped(k) => AJ!Readable(k)
      BY <2>3 DEF JobInv, Fits
    <3>2. \A k \in AJ!Slots \cap ready' : AJ!Piped(k)' => AJ!Readable(k)'
      BY <1>3, <1>5, <3>1
    <3>3. Fits(AJ!ExpireFrom(i))' /\ AJ!ExpireFrom(i)' \in [at : Phases, slot : 0..MaxJobs]
      BY <2>1, <3>2, FindsItsWayNext DEF GoesOn
    <3>4. QED BY <1>4, <2>3, <3>3 DEF Fits
  <2>4. QED BY <2>2, <2>3
<1>7. Fits(step)' /\ step' \in [at : Phases, slot : 0..MaxJobs]
  BY <1>6, DeadFits
<1>8. LoopTyped' /\ ProcsTyped'
  BY <1>3, <1>5, <1>7 DEF JobInv, LoopTyped, ProcsTyped, AJ!procVars
<1>9. QED BY <1>5, <1>7, <1>8 DEF JobInv
(* expire_jobs: a command whose pipe is at its end and whose shell has      *)
(* ended, and one whose shell was waited for after the kill.                *)
LEMMA ExpireReapsKeeps ==
  ASSUME JobInv, NEW i \in AJ!Slots, AJ!ExpireReaps(i) PROVE JobInv'
<1> DEFINE r == job[i].req
<1>1. step.at = "expire" /\ step.slot = i /\ AJ!Active(i)
  BY DEF AJ!ExpireReaps, AJ!At, JobInv, Fits
<1>2. Command(i) /\ r \in Execs
  BY <1>1, SlotFacts, JobRecords DEF AJ!ExpireReaps, Command, AJ!IsWait
<1>3. /\ child[r] \in {"exited", "killed"} /\ ~bg[r]
      /\ job[i].len = IF written[r] < BufSize THEN written[r] ELSE BufSize
  <2>1. unread[r] = 0 /\ ~AJ!Open(r) /\ job[i].len = Caught(r)
    BY <1>2 DEF JobInv, Commands, AJ!ExpireReaps
  <2>2. written[r] \in Nat BY <1>2, AgentConstants DEF JobInv, ProcsTyped
  <2>3. QED BY <2>1, <2>2 DEF Caught, AJ!Open, AJ!ExpireReaps, AJ!Ended
<1>4. QED
  BY <1>1, <1>2, <1>3, DeliverKeeps DEF AJ!ExpireReaps, AJ!CodeOf

LEMMA ReapKeeps ==
  ASSUME JobInv, NEW i \in AJ!Slots, AJ!Reap(i) PROVE JobInv'
<1>1. step.at = "reap" /\ step.slot = i /\ Command(i) /\ Killed(job[i].req)
  BY DEF AJ!Reap, AJ!At, JobInv, Fits
<1>2. QED BY <1>1, DeliverKeeps DEF AJ!Reap

\* Only the connection and the place of the loop change.
LEMMA QuietKeeps ==
  ASSUME JobInv, UNCHANGED <<job, reaped, answers, missed, AJ!procVars>>, OnItsWay',
         inbox' \in Seq(AJ!Requests), host' \in {"here", "gone"}, ready' \subseteq 0..MaxJobs,
         step' \in [at : Phases, slot : 0..MaxJobs], Fits(step)'
  PROVE  JobInv'
<1> USE DEF JobInv, AJ!procVars
<1>1. LoopTyped' BY DEF LoopTyped
<1>2. ProcsTyped' BY DEF ProcsTyped
<1>3. Answered' /\ OneSlot' BY DEF Answered, OneSlot, AJ!Active
<1>4. Commands'
  BY DEF Commands, Command, AJ!Active, AJ!IsWait, Caught, AJ!Open
<1>5. Processes' BY DEF Processes, AJ!Ended
<1>6. Outcomes'
  BY DEF Outcomes, Said, Killed, AJ!Ended, Command, AJ!Active, AJ!IsWait
<1>7. QED BY <1>1, <1>2, <1>3, <1>4, <1>5, <1>6

\* The same with the connection left alone.
LEMMA StillOnItsWay ==
  ASSUME JobInv, UNCHANGED <<job, inbox, answers, child>>
  PROVE  OnItsWay' /\ inbox' \in Seq(AJ!Requests)
BY DEF JobInv, LoopTyped, OnItsWay, AJ!Active

LEMMA StillFits ==
  ASSUME UNCHANGED <<job, ready, missed, AJ!procVars>>, NEW s, Fits(s), step' = s
  PROVE  Fits(step)'
BY DEF Fits, AJ!Active, Command, AJ!IsWait, Killed, AJ!Ended, AJ!Piped, AJ!Readable, AJ!Open,
       AJ!procVars

LEMMA ExpirePassesKeeps ==
  ASSUME JobInv, NEW i \in AJ!Slots, AJ!ExpirePasses(i) PROVE JobInv'
<1>1. step.at = "expire" BY DEF AJ!ExpirePasses, AJ!At
<1>2. \A k \in AJ!Slots \cap ready : AJ!Piped(k) => AJ!Readable(k)
  BY <1>1 DEF JobInv, Fits
<1>3. i \in 0..MaxJobs BY AgentConstants DEF AJ!Slots
<1>4. Fits(AJ!ExpireFrom(i)) /\ AJ!ExpireFrom(i) \in [at : Phases, slot : 0..MaxJobs]
  BY <1>2, <1>3, FindsItsWay DEF GoesOn
<1>5. step' = AJ!ExpireFrom(i) BY DEF AJ!ExpirePasses
<1>6. UNCHANGED <<host, inbox, ready, job, reaped, answers, missed, AJ!procVars>>
  BY DEF AJ!ExpirePasses
<1>7. Fits(step)' BY <1>4, <1>5, <1>6, StillFits
<1>8. OnItsWay' /\ inbox' \in Seq(AJ!Requests)
  BY <1>6, StillOnItsWay DEF AJ!procVars
<1>9. host' \in {"here", "gone"} /\ ready' \subseteq 0..MaxJobs
  BY <1>6 DEF JobInv, LoopTyped
<1>10. QED BY <1>4, <1>5, <1>6, <1>7, <1>8, <1>9, QuietKeeps

\* A select() reports what can be read.
LEMMA SelectKeeps ==
  ASSUME JobInv, AJ!Select PROVE JobInv'
<1>1. UNCHANGED <<host, inbox, job, reaped, answers, missed, AJ!procVars>>
  BY DEF AJ!Select
<1>2. ready' \subseteq 0..MaxJobs /\ \A k \in AJ!Slots \cap ready' : AJ!Readable(k)
  BY AgentConstants DEF AJ!Select, AJ!Slots
<1>3. \A k \in AJ!Slots \cap ready' : AJ!Readable(k)'
  BY <1>1, <1>2
  DEF AJ!Readable, AJ!Piped, AJ!Active, AJ!IsWait, AJ!Open, AJ!procVars
<1>4. Fits(AJ!ExpireFrom(0))' /\ AJ!ExpireFrom(0)' \in [at : Phases, slot : 0..MaxJobs]
  BY <1>3, AgentConstants, FindsItsWayNext DEF GoesOn
<1>5. step' = AJ!ExpireFrom(0)' BY DEF AJ!Select
<1>6. Fits(step)' /\ step' \in [at : Phases, slot : 0..MaxJobs]
  BY <1>4, <1>5 DEF Fits
<1>7. OnItsWay' /\ inbox' \in Seq(AJ!Requests)
  BY <1>1, StillOnItsWay DEF AJ!procVars
<1>8. host' \in {"here", "gone"} BY <1>1 DEF JobInv, LoopTyped
<1>9. QED BY <1>1, <1>2, <1>6, <1>7, <1>8, QuietKeeps

LEMMA ConnectionEndsKeeps ==
  ASSUME JobInv, AJ!ConnectionEnds PROVE JobInv'
<1>1. UNCHANGED <<host, inbox, job, reaped, answers, missed, AJ!procVars>> /\ ready' = {}
  BY DEF AJ!ConnectionEnds
<1>2. AJ!TeardownFrom(0)' = AJ!TeardownFrom(0)
  BY <1>1 DEF AJ!TeardownFrom, AJ!Active, AJ!IsWait
<1>3. \A k \in AJ!Slots : ~(k <= 0) BY AgentConstants DEF AJ!Slots
<1>4. Fits(AJ!TeardownFrom(0))' /\ AJ!TeardownFrom(0)' \in [at : Phases, slot : 0..MaxJobs]
  BY <1>3, AgentConstants, FindsItsWayNext DEF GoesOn
<1>5. step' = AJ!TeardownFrom(0)' BY <1>2 DEF AJ!ConnectionEnds
<1>6. Fits(step)' /\ step' \in [at : Phases, slot : 0..MaxJobs]
  BY <1>4, <1>5 DEF Fits
<1>7. OnItsWay' /\ inbox' \in Seq(AJ!Requests)
  BY <1>1, StillOnItsWay DEF AJ!procVars
<1>8. host' \in {"here", "gone"} BY <1>1 DEF JobInv, LoopTyped
<1>9. QED BY <1>1, <1>6, <1>7, <1>8, QuietKeeps

LEMMA HostLeavesKeeps ==
  ASSUME JobInv, AJ!HostLeaves PROVE JobInv'
<1>1. UNCHANGED <<inbox, step, ready, job, reaped, answers, missed, AJ!procVars>>
      /\ host' = "gone"
  BY DEF AJ!HostLeaves, AJ!loopVars
<1>2. Fits(step)' BY <1>1, StillFits DEF JobInv
<1>3. OnItsWay' /\ inbox' \in Seq(AJ!Requests)
  BY <1>1, StillOnItsWay DEF AJ!procVars
<1>4. step' \in [at : Phases, slot : 0..MaxJobs] /\ ready' \subseteq 0..MaxJobs
  BY <1>1 DEF JobInv, LoopTyped
<1>5. QED BY <1>1, <1>2, <1>3, <1>4, QuietKeeps
(* A job that stays in its slot: it is read from, marked, or due.           *)
LEMMA TouchKeeps ==
  ASSUME JobInv, NEW i \in AJ!Slots, AJ!Active(i),
         job'[i] \in Jobs, job'[i].req = job[i].req,
         \A k \in AJ!Slots : k # i => job'[k] = job[k],
         job' = [k \in AJ!Slots |-> job'[k]],
         UNCHANGED <<inbox, reaped, answers, missed, child, bg, written>>,
         unread' \in [Execs -> 0..MaxOut],
         \A q \in Execs : unread'[q] <= unread[q] /\ (q # job[i].req => unread'[q] = unread[q]),
         Command(i) =>
           /\ job'[i].len = Caught(job[i].req)'
           /\ job'[i].eof => unread'[job[i].req] = 0 /\ ~AJ!Open(job[i].req)
  PROVE  /\ Answered' /\ OneSlot' /\ OnItsWay' /\ Commands' /\ Processes' /\ Outcomes'
         /\ ProcsTyped'
         /\ \A k \in AJ!Slots : job'[k] = AJ!Free \/ job'[k] \in Jobs
         /\ \A k \in AJ!Slots :
              /\ job'[k].req = job[k].req
              /\ (AJ!Active(k)' <=> AJ!Active(k)) /\ (Command(k)' <=> Command(k))
         /\ \A k \in AJ!Slots : k # i =>
              (AJ!Piped(k)' <=> AJ!Piped(k)) /\ (AJ!Readable(k)' <=> AJ!Readable(k))
<1> DEFINE r == job[i].req
<1>1. /\ ProcsTyped /\ Answered /\ OneSlot /\ OnItsWay /\ Commands /\ Processes /\ Outcomes
      /\ \A k \in AJ!Slots : job[k] = AJ!Free \/ job[k] \in Jobs
      /\ inbox \in Seq(AJ!Requests)
  BY DEF JobInv, LoopTyped
<1>2. job'[i] # AJ!Free BY JobRecords
<1>3. \A k \in AJ!Slots :
        /\ job'[k].req = job[k].req
        /\ (AJ!Active(k)' <=> AJ!Active(k)) /\ (Command(k)' <=> Command(k))
  BY <1>2 DEF AJ!Active, Command, AJ!IsWait
<1>4. \A k \in AJ!Slots : job'[k] = AJ!Free \/ job'[k] \in Jobs BY <1>1
<1>5. ASSUME NEW k \in AJ!Slots, Command(k)
      PROVE  /\ job[k].req \in Execs
             /\ k # i => job[k].req # r /\ unread'[job[k].req] = unread[job[k].req]
  <2>1. AJ!Active(k) BY <1>5 DEF Command
  <2>2. job[k].req \in Execs BY <1>5, <2>1, SlotFacts
  <2>3. k # i => job[k].req # r BY <1>1, <2>1 DEF OneSlot
  <2>4. QED BY <2>2, <2>3
<1>6. ASSUME NEW k \in AJ!Slots, k # i
      PROVE  (AJ!Piped(k)' <=> AJ!Piped(k)) /\ (AJ!Readable(k)' <=> AJ!Readable(k))
  <2>1. AJ!Piped(k)' <=> AJ!Piped(k)
    BY <1>6 DEF AJ!Piped, AJ!Active, AJ!IsWait
  <2>2. AJ!Piped(k) => unread'[job[k].req] = unread[job[k].req]
    BY <1>5, <1>6 DEF AJ!Piped, Command
  <2>3. QED BY <1>6, <2>1, <2>2 DEF AJ!Readable, AJ!Open
<1>7. Answered' BY <1>1 DEF Answered
<1>8. OneSlot' BY <1>1, <1>3 DEF OneSlot
<1>9. OnItsWay' BY <1>1, <1>3 DEF OnItsWay
<1>10. Commands'
  <2>1. ASSUME NEW k \in AJ!Slots, k # i, Command(k)
        PROVE  /\ child'[job'[k].req] # "none" /\ job'[k].req \notin reaped'
               /\ job'[k].len = Caught(job[k].req)'
               /\ job'[k].eof => unread'[job'[k].req] = 0 /\ ~AJ!Open(job[k].req)'
    <3>1. job'[k] = job[k] /\ unread'[job[k].req] = unread[job[k].req]
      BY <1>5, <2>1
    <3>2. QED BY <1>1, <2>1, <3>1 DEF Commands, Caught, AJ!Open
  <2>2. Command(i) =>
          /\ child'[job'[i].req] # "none" /\ job'[i].req \notin reaped'
          /\ job'[i].len = Caught(job[i].req)'
          /\ job'[i].eof => unread'[job'[i].req] = 0 /\ ~AJ!Open(job[i].req)'
    BY <1>1 DEF Commands, Caught, AJ!Open
  <2>3. QED BY <1>3, <2>1, <2>2 DEF Commands
<1>11. Processes'
  <2>1. \A q \in Execs : unread[q] \in Nat /\ unread'[q] \in Nat /\ written[q] \in Nat
    BY <1>1, AgentConstants DEF ProcsTyped
  <2>2. QED BY <1>1, <2>1 DEF Processes, AJ!Ended
<1>12. Outcomes' BY <1>1, <1>3 DEF Outcomes, Said, Killed, AJ!Ended
<1>13. ProcsTyped' BY <1>1 DEF ProcsTyped
<1>14. QED
  BY <1>3, <1>4, <1>6, <1>7, <1>8, <1>9, <1>10, <1>11, <1>12, <1>13

\* The drain goes on from a slot as it would have before the slot changed.
LEMMA SameDrain ==
  ASSUME NEW i \in AJ!Slots, UNCHANGED ready,
         \A k \in AJ!Slots : k # i => (AJ!Piped(k)' <=> AJ!Piped(k))
  PROVE  AJ!DrainFrom(i)' = AJ!DrainFrom(i)
<1>1. i \in Nat BY AgentConstants DEF AJ!Slots
<1>2. {k \in AJ!Slots \cap ready : k > i /\ AJ!Piped(k)'}
        = {k \in AJ!Slots \cap ready : k > i /\ AJ!Piped(k)}
  BY <1>1 DEF AJ!Slots
<1>3. QED BY <1>2 DEF AJ!DrainFrom, AJ!First, AJ!Is

LEMMA DrainGoesOn ==
  ASSUME JobInv, NEW i \in AJ!Slots, AJ!At("drain", i), UNCHANGED ready,
         \A k \in AJ!Slots : k # i =>
           (AJ!Piped(k)' <=> AJ!Piped(k)) /\ (AJ!Readable(k)' <=> AJ!Readable(k)),
         step' = AJ!DrainFrom(i)
  PROVE  Fits(step)' /\ step' \in [at : Phases, slot : 0..MaxJobs]
<1>1. i \in Nat /\ i \in 0..MaxJobs BY AgentConstants DEF AJ!Slots
<1>2. \A k \in AJ!Slots \cap ready : k >= i /\ AJ!Piped(k) => AJ!Readable(k)
  BY DEF JobInv, Fits, AJ!At
<1>3. \A k \in AJ!Slots \cap ready' : k > i /\ AJ!Piped(k)' => AJ!Readable(k)'
  BY <1>1, <1>2 DEF AJ!Slots
<1>4. Fits(AJ!DrainFrom(i))' /\ AJ!DrainFrom(i)' \in [at : Phases, slot : 0..MaxJobs]
  BY <1>1, <1>3, FindsItsWayNext DEF GoesOn
<1>5. step' = AJ!DrainFrom(i)' BY SameDrain
<1>6. QED BY <1>4, <1>5 DEF Fits

LEMMA DrainReadsKeeps ==
  ASSUME JobInv, NEW i \in AJ!Slots, AJ!DrainReads(i) PROVE JobInv'
<1> DEFINE r == job[i].req
           room == BufSize - job[i].len
           n == IF room > 0 /\ unread[r] > room THEN room ELSE unread[r]
           len == IF room > 0 THEN job[i].len + n ELSE job[i].len
<1>1. /\ AJ!At("drain", i) /\ n > 0
      /\ unread' = [unread EXCEPT ![r] = @ - n]
      /\ job' = [job EXCEPT ![i].len = IF room > 0 THEN @ + n ELSE @]
      /\ step' = AJ!DrainFrom(i)
      /\ UNCHANGED <<host, inbox, ready, reaped, answers, missed, child, bg, written>>
  BY DEF AJ!DrainReads
<1>2. AJ!Piped(i) BY <1>1 DEF JobInv, Fits, AJ!At
<1>3. AJ!Active(i) /\ Command(i) /\ r \in Execs
  BY <1>2, SlotFacts DEF AJ!Piped, Command
<1>4. /\ job[i] \in Jobs /\ job[i].len \in 0..BufSize /\ job[i].len = Caught(r)
      /\ ~job[i].eof
  BY <1>2, <1>3, SlotFacts DEF JobInv, Commands, AJ!Piped
<1>5. /\ unread[r] \in 0..MaxOut /\ written[r] \in 0..MaxOut /\ unread[r] <= written[r]
      /\ unread \in [Execs -> 0..MaxOut]
  BY <1>3 DEF JobInv, ProcsTyped, Processes
<1>6. /\ len \in 0..BufSize /\ unread[r] - n \in 0..MaxOut /\ unread[r] - n <= unread[r]
      /\ len = IF written[r] - (unread[r] - n) < BufSize THEN written[r] - (unread[r] - n)
                                                        ELSE BufSize
  BY <1>4, <1>5, <1>1, AgentConstants DEF Caught
<1>7. /\ unread' \in [Execs -> 0..MaxOut] /\ unread'[r] = unread[r] - n
      /\ \A q \in Execs : unread'[q] <= unread[q] /\ (q # r => unread'[q] = unread[q])
  <2> HIDE DEF n, r
  <2>1. unread'[r] = unread[r] - n /\ \A q \in Execs : q # r => unread'[q] = unread[q]
    BY <1>1, <1>3, <1>5
  <2>2. unread' \in [Execs -> 0..MaxOut] BY <1>1, <1>3, <1>5, <1>6
  <2>3. \A q \in Execs : unread[q] \in Nat BY <1>5, AgentConstants
  <2>4. QED BY <1>3, <1>6, <2>1, <2>2, <2>3
<1>8. /\ job'[i] = [job[i] EXCEPT !.len = len]
      /\ \A k \in AJ!Slots : k # i => job'[k] = job[k]
      /\ job' = [k \in AJ!Slots |-> job'[k]]
  <2>1. job = [k \in AJ!Slots |-> job[k]] BY DEF JobInv, LoopTyped
  <2> HIDE DEF n, room
  <2>2. QED BY <1>1, <2>1
<1>9. /\ job'[i] \in Jobs /\ job'[i].req = r /\ job'[i].len = len /\ ~job'[i].eof
  <2> HIDE DEF len
  <2>1. job'[i] \in Jobs
    <3>1. job[i] \in Jobs /\ len \in 0..BufSize BY <1>4, <1>6
    <3>2. [job[i] EXCEPT !.len = len] \in Jobs BY <3>1, JobRecords, Zenon
    <3>3. QED BY <1>8, <3>2, Zenon
  <2>2. /\ job'[i].req = job[i].req /\ job'[i].eof = job[i].eof
        /\ job'[i].len = len
    BY <1>4, <1>8, Zenon DEF Jobs
  <2>3. QED BY <1>4, <2>1, <2>2
<1>10. Caught(r)' = len
  BY <1>1, <1>6, <1>7 DEF Caught
<1>11. /\ Answered' /\ OneSlot' /\ OnItsWay' /\ Commands' /\ Processes' /\ Outcomes'
       /\ ProcsTyped'
       /\ \A k \in AJ!Slots : job'[k] = AJ!Free \/ job'[k] \in Jobs
       /\ \A k \in AJ!Slots : k # i =>
            (AJ!Piped(k)' <=> AJ!Piped(k)) /\ (AJ!Readable(k)' <=> AJ!Readable(k))
  <2> HIDE DEF len, n, room, r
  <2>1. UNCHANGED <<inbox, reaped, answers, missed, child, bg, written>> BY <1>1
  <2>2. QED BY <1>3, <1>7, <1>8, <1>9, <1>10, <2>1, TouchKeeps DEF r
<1> HIDE DEF n, room, len
<1>12. Fits(step)' /\ step' \in [at : Phases, slot : 0..MaxJobs]
  BY <1>1, <1>11, DrainGoesOn
<1>13. LoopTyped' BY <1>1, <1>8, <1>11, <1>12 DEF JobInv, LoopTyped
<1>14. QED BY <1>11, <1>12, <1>13 DEF JobInv
(* drain_job at the end of the file: the command is answered, or waits for  *)
(* its shell.                                                               *)
LEMMA DrainEndsKeeps ==
  ASSUME JobInv, NEW i \in AJ!Slots, AJ!DrainEnds(i) PROVE JobInv'
<1> DEFINE r == job[i].req
<1>1. /\ step.at = "drain" /\ step.slot = i /\ AJ!At("drain", i)
      /\ unread[r] = 0 /\ ~AJ!Open(r) /\ AJ!EndOfFile(i)
      /\ UNCHANGED <<host, inbox, missed, AJ!procVars>>
  BY DEF AJ!DrainEnds, AJ!At
<1>2. AJ!Piped(i) BY <1>1 DEF JobInv, Fits
<1>3. AJ!Active(i) /\ Command(i) /\ r \in Execs /\ r \notin Waits
  BY <1>2, SlotFacts DEF AJ!Piped, Command, AJ!IsWait
<1>4. /\ job[i] \in Jobs /\ ~bg[r]
      /\ job[i].len = IF written[r] < BufSize THEN written[r] ELSE BufSize
  <2>1. job[i] \in Jobs /\ job[i].len = Caught(r)
    BY <1>3, SlotFacts DEF JobInv, Commands
  <2>2. written[r] \in Nat BY <1>3, AgentConstants DEF JobInv, ProcsTyped
  <2>3. QED BY <1>1, <2>1, <2>2 DEF Caught, AJ!Open
<1>5. CASE AJ!Ended(r)
  BY <1>1, <1>3, <1>4, <1>5, DeliverKeeps DEF AJ!EndOfFile, AJ!CodeOf, AJ!Ended
<1>6. CASE ~AJ!Ended(r)
  <2>1. /\ job' = [job EXCEPT ![i].eof = TRUE] /\ step' = AJ!DrainFrom(i)
        /\ UNCHANGED <<ready, reaped, answers>>
    BY <1>1, <1>6 DEF AJ!EndOfFile
  <2>2. /\ job'[i] = [job[i] EXCEPT !.eof = TRUE]
        /\ \A k \in AJ!Slots : k # i => job'[k] = job[k]
        /\ job' = [k \in AJ!Slots |-> job'[k]]
    <3>1. job = [k \in AJ!Slots |-> job[k]] BY DEF JobInv, LoopTyped
    <3>2. QED BY <2>1, <3>1
  <2>3. job'[i] \in Jobs /\ job'[i].req = r /\ job'[i].len = job[i].len
    <3>1. [job[i] EXCEPT !.eof = TRUE] \in Jobs BY <1>3, <1>4, JobRecords, Zenon
    <3>2. job'[i].req = r /\ job'[i].len = job[i].len BY <1>4, <2>2, Zenon DEF Jobs
    <3>3. QED BY <2>2, <3>1, <3>2, Zenon
  <2>4. /\ UNCHANGED <<inbox, reaped, answers, missed, child, bg, written, unread>>
        /\ unread \in [Execs -> 0..MaxOut] /\ \A q \in Execs : unread[q] <= unread[q]
    BY <1>1, <2>1, AgentConstants DEF AJ!procVars, JobInv, ProcsTyped
  <2>5. Caught(r)' = job[i].len
    BY <1>3, <2>3, <2>4 DEF Caught, JobInv, Commands
  <2>6. /\ Answered' /\ OneSlot' /\ OnItsWay' /\ Commands' /\ Processes' /\ Outcomes'
        /\ ProcsTyped'
        /\ \A k \in AJ!Slots : job'[k] = AJ!Free \/ job'[k] \in Jobs
        /\ \A k \in AJ!Slots : k # i =>
             (AJ!Piped(k)' <=> AJ!Piped(k)) /\ (AJ!Readable(k)' <=> AJ!Readable(k))
    <3> HIDE DEF r
    <3>1. UNCHANGED <<inbox, reaped, answers, missed, child, bg, written>>
          /\ unread' \in [Execs -> 0..MaxOut]
          /\ \A q \in Execs : unread'[q] <= unread[q] /\ (q # r => unread'[q] = unread[q])
          /\ unread'[r] = 0 /\ ~AJ!Open(r)
      BY <1>1, <2>4
    <3>2. QED BY <1>3, <2>2, <2>3, <2>5, <3>1, TouchKeeps DEF r
  <2>7. Fits(step)' /\ step' \in [at : Phases, slot : 0..MaxJobs]
    BY <1>1, <2>1, <2>6, DrainGoesOn
  <2>8. LoopTyped' BY <1>1, <2>1, <2>2, <2>6, <2>7 DEF JobInv, LoopTyped
  <2>9. QED BY <2>6, <2>7, <2>8 DEF JobInv
<1>7. QED BY <1>5, <1>6

\* Time passes to a deadline.
LEMMA LateKeeps ==
  ASSUME JobInv, NEW i \in AJ!Slots, AJ!Late(i) PROVE JobInv'
<1> DEFINE r == job[i].req
<1>1. /\ AJ!Active(i) /\ job' = [job EXCEPT ![i].due = TRUE]
      /\ UNCHANGED <<host, inbox, step, ready, reaped, answers, missed, AJ!procVars>>
  BY DEF AJ!Late
<1>2. job[i] \in Jobs /\ (Command(i) => r \in Execs) BY <1>1, SlotFacts
<1>3. /\ job'[i] = [job[i] EXCEPT !.due = TRUE]
      /\ \A k \in AJ!Slots : k # i => job'[k] = job[k]
      /\ job' = [k \in AJ!Slots |-> job'[k]]
  <2>1. job = [k \in AJ!Slots |-> job[k]] BY DEF JobInv, LoopTyped
  <2>2. QED BY <1>1, <2>1
<1>4. /\ job'[i] \in Jobs /\ job'[i].req = r
      /\ job'[i].len = job[i].len /\ job'[i].eof = job[i].eof
  <2>1. [job[i] EXCEPT !.due = TRUE] \in Jobs BY <1>2, JobRecords, Zenon
  <2>2. job'[i].req = r /\ job'[i].len = job[i].len /\ job'[i].eof = job[i].eof
    BY <1>2, <1>3, Zenon DEF Jobs
  <2>3. QED BY <1>3, <2>1, <2>2, Zenon
<1>5. /\ UNCHANGED <<inbox, reaped, answers, missed, child, bg, written, unread>>
      /\ unread \in [Execs -> 0..MaxOut] /\ \A q \in Execs : unread[q] <= unread[q]
  BY <1>1, AgentConstants DEF AJ!procVars, JobInv, ProcsTyped
<1>6. Command(i) =>
        /\ job'[i].len = Caught(r)'
        /\ job'[i].eof => unread'[r] = 0 /\ ~AJ!Open(r)
  BY <1>4, <1>5 DEF Caught, JobInv, Commands
<1>7. /\ Answered' /\ OneSlot' /\ OnItsWay' /\ Commands' /\ Processes' /\ Outcomes'
      /\ ProcsTyped'
      /\ \A k \in AJ!Slots : job'[k] = AJ!Free \/ job'[k] \in Jobs
      /\ \A k \in AJ!Slots :
           /\ job'[k].req = job[k].req
           /\ (AJ!Active(k)' <=> AJ!Active(k)) /\ (Command(k)' <=> Command(k))
      /\ \A k \in AJ!Slots : k # i =>
           (AJ!Piped(k)' <=> AJ!Piped(k)) /\ (AJ!Readable(k)' <=> AJ!Readable(k))
  <2> HIDE DEF r
  <2>1. UNCHANGED <<inbox, reaped, answers, missed, child, bg, written>>
        /\ unread' \in [Execs -> 0..MaxOut]
        /\ \A q \in Execs : unread'[q] <= unread[q] /\ (q # r => unread'[q] = unread[q])
    BY <1>5
  <2>2. QED BY <1>1, <1>3, <1>4, <1>6, <2>1, TouchKeeps DEF r
<1>8. (AJ!Piped(i)' <=> AJ!Piped(i)) /\ (AJ!Readable(i)' <=> AJ!Readable(i))
  <2>1. AJ!Piped(i)' <=> AJ!Piped(i)
    BY <1>4, <1>7 DEF AJ!Piped, Command
  <2>2. QED BY <1>4, <1>5, <2>1 DEF AJ!Readable, AJ!Open
<1>9. Fits(step)'
  <2>1. \A k \in AJ!Slots :
          (AJ!Piped(k)' <=> AJ!Piped(k)) /\ (AJ!Readable(k)' <=> AJ!Readable(k))
    BY <1>7, <1>8
  <2>2. Fits(step) /\ UNCHANGED <<step, ready>> /\ (\A q : Killed(q)' <=> Killed(q))
    BY <1>1, <1>5 DEF JobInv, Killed, AJ!Ended
  <2>3. QED BY <1>7, <2>1, <2>2 DEF Fits
<1>10. LoopTyped' BY <1>1, <1>3, <1>7 DEF JobInv, LoopTyped
<1>11. QED BY <1>7, <1>9, <1>10 DEF JobInv

\* A timer is answered when its time has come.
LEMMA ExpireWaitKeeps ==
  ASSUME JobInv, NEW i \in AJ!Slots, AJ!ExpireWait(i) PROVE JobInv'
<1> DEFINE r == job[i].req
<1>1. /\ step.at = "expire" /\ step.slot = i /\ AJ!Active(i) /\ ~Command(i)
      /\ job' = [job EXCEPT ![i] = AJ!Free]
      /\ UNCHANGED <<host, inbox, ready, reaped, missed, AJ!procVars>>
      /\ AJ!Reply(r, "ok", 0, AJ!ExpireFrom(i)')
  BY DEF AJ!ExpireWait, AJ!At, JobInv, Fits, Command
<1>2. r \in AJ!Requests /\ answers[r] = <<>> /\ 0 \in 0..BufSize
  BY <1>1, SlotFacts, AgentConstants
<1>3. /\ step' \in {AJ!ExpireFrom(i)', AJ!Is("dead", 0)}
      /\ \E a \in Replies : answers' = [answers EXCEPT ![r] = <<a>>]
  BY <1>1, <1>2, FirstReply
<1>4. /\ Answered' /\ OneSlot' /\ OnItsWay' /\ Commands' /\ Processes' /\ Outcomes'
      /\ \A k \in AJ!Slots : job'[k] = AJ!Free \/ job'[k] \in Jobs
      /\ job' = [k \in AJ!Slots |-> job'[k]] /\ reaped' \subseteq Execs
      /\ ~AJ!Piped(i)'
      /\ \A k \in AJ!Slots : k # i =>
           (AJ!Piped(k)' <=> AJ!Piped(k)) /\ (AJ!Readable(k)' <=> AJ!Readable(k))
  <2>1. /\ UNCHANGED <<inbox, missed, child, bg, written, unread>>
        /\ reaped' = IF Command(i) THEN reaped \cup {r} ELSE reaped
    BY <1>1 DEF AJ!procVars
  <2> HIDE DEF r
  <2>2. QED BY <1>1, <1>3, <2>1, FreeKeeps DEF r
<1>5. Fits(step)' /\ step' \in [at : Phases, slot : 0..MaxJobs]
  <2>1. i \in 0..MaxJobs BY AgentConstants DEF AJ!Slots
  <2>2. \A k \in AJ!Slots \cap ready : AJ!Piped(k) => AJ!Readable(k)
    BY <1>1 DEF JobInv, Fits
  <2>3. \A k \in AJ!Slots \cap ready' : AJ!Piped(k)' => AJ!Readable(k)'
    BY <1>1, <1>4, <2>2
  <2>4. Fits(AJ!ExpireFrom(i))' /\ AJ!ExpireFrom(i)' \in [at : Phases, slot : 0..MaxJobs]
    BY <2>1, <2>3, FindsItsWayNext DEF GoesOn
  <2>5. CASE step' = AJ!ExpireFrom(i)' BY <2>4, <2>5 DEF Fits
  <2>6. QED BY <1>3, <2>5, DeadFits
<1>6. LoopTyped' /\ ProcsTyped'
  BY <1>1, <1>4, <1>5 DEF JobInv, LoopTyped, ProcsTyped, AJ!procVars
<1>7. QED BY <1>4, <1>5, <1>6 DEF JobInv

(* reap_all_jobs: a shell that was killed is waited for, and nobody is      *)
(* answered.                                                                *)
LEMMA TeardownReapsKeeps ==
  ASSUME JobInv, NEW i \in AJ!Slots, AJ!TeardownReaps(i) PROVE JobInv'
<1> DEFINE r == job[i].req
<1>1. /\ step.at = "reapall" /\ step.slot = i /\ AJ!Active(i) /\ Command(i)
      /\ Killed(r) /\ AJ!Ended(r)
      /\ \A k \in AJ!Slots : Command(k) => k >= i
      /\ reaped' = reaped \cup {r} /\ job' = [job EXCEPT ![i] = AJ!Free]
      /\ step' = AJ!TeardownFrom(i)
      /\ UNCHANGED <<host, inbox, ready, answers, missed, AJ!procVars>>
  BY DEF AJ!TeardownReaps, AJ!At, JobInv, Fits
<1>2. /\ Answered' /\ OneSlot' /\ OnItsWay' /\ Commands' /\ Processes' /\ Outcomes'
      /\ \A k \in AJ!Slots : job'[k] = AJ!Free \/ job'[k] \in Jobs
      /\ job' = [k \in AJ!Slots |-> job'[k]] /\ reaped' \subseteq Execs
      /\ ~Command(i)'
      /\ \A k \in AJ!Slots : k # i =>
           job'[k] = job[k] /\ (AJ!Active(k)' <=> AJ!Active(k)) /\ (Command(k)' <=> Command(k))
  <2>1. /\ UNCHANGED <<inbox, missed, child, bg, written, unread>> /\ answers' = answers
        /\ reaped' = IF Command(i) THEN reaped \cup {r} ELSE reaped
    BY <1>1 DEF AJ!procVars
  <2> HIDE DEF r
  <2>2. QED BY <1>1, <2>1, FreeKeeps DEF r
<1>3. i \in Nat /\ i \in 0..MaxJobs BY AgentConstants DEF AJ!Slots
<1>4. AJ!TeardownFrom(i)' = AJ!TeardownFrom(i)
  <2>1. {k \in AJ!Slots : k > i /\ AJ!Active(k)' /\ ~AJ!IsWait(k)'}
          = {k \in AJ!Slots : k > i /\ AJ!Active(k) /\ ~AJ!IsWait(k)}
    BY <1>2, <1>3 DEF AJ!Slots, AJ!IsWait
  <2>2. QED BY <2>1 DEF AJ!TeardownFrom, AJ!First, AJ!Is
<1>5. \A k \in AJ!Slots : k <= i => ~Command(k)'
  BY <1>1, <1>2, <1>3 DEF AJ!Slots
<1>6. Fits(AJ!TeardownFrom(i))' /\ AJ!TeardownFrom(i)' \in [at : Phases, slot : 0..MaxJobs]
  BY <1>3, <1>5, FindsItsWayNext DEF GoesOn
<1>7. step' = AJ!TeardownFrom(i)' BY <1>1, <1>4
<1>8. Fits(step)' /\ step' \in [at : Phases, slot : 0..MaxJobs]
  BY <1>6, <1>7 DEF Fits
<1>9. LoopTyped' /\ ProcsTyped'
  BY <1>1, <1>2, <1>8 DEF JobInv, LoopTyped, ProcsTyped, AJ!procVars
<1>10. QED BY <1>2, <1>8, <1>9 DEF JobInv
(* kill(-pid) of a command that has had its time, or that is left when the  *)
(* connection ends; the loop waits for its shell.                           *)
LEMMA KillKeeps ==
  ASSUME JobInv, NEW i \in AJ!Slots, Command(i),
         \/ step.at = "expire" /\ step' = AJ!Is("reap", i)
         \/ /\ step.at = "teardown" /\ step' = AJ!Is("reapall", i)
            /\ \A k \in AJ!Slots : Command(k) => k >= i,
         AJ!KillGroup(job[i].req),
         UNCHANGED <<host, inbox, ready, job, reaped, answers, written, unread>>
  PROVE  JobInv'
<1> DEFINE r == job[i].req
<1>1. AJ!Active(i) /\ r \in Execs /\ child[r] # "none"
  BY SlotFacts DEF Command, JobInv, Commands
<1>2. /\ ProcsTyped' /\ \A x \in Execs : Ages(x)
      /\ missed' \in {missed, missed \cup {r}}
      /\ Killed(r)'
  BY <1>1, GroupAges DEF JobInv
<1>3. /\ Answered' /\ OneSlot' /\ OnItsWay' /\ Commands' /\ Processes' /\ Outcomes'
      /\ \A k \in AJ!Slots : AJ!Piped(k) /\ AJ!Readable(k) => AJ!Readable(k)'
  <2> HIDE DEF r
  <2>1. missed \subseteq missed' BY <1>2
  <2>2. QED BY <1>2, <2>1, AgingKeeps
<1>4. \A k \in AJ!Slots :
        /\ (AJ!Active(k)' <=> AJ!Active(k)) /\ (Command(k)' <=> Command(k))
        /\ (AJ!Piped(k)' <=> AJ!Piped(k))
  BY DEF AJ!Active, AJ!IsWait, Command, AJ!Piped
<1>5. Fits(step)'
  <2>1. CASE step.at = "expire" /\ step' = AJ!Is("reap", i)
    <3>1. \A k \in AJ!Slots \cap ready : AJ!Piped(k) => AJ!Readable(k)
      BY <2>1 DEF JobInv, Fits
    <3>2. \A k \in AJ!Slots \cap ready : AJ!Piped(k)' => AJ!Readable(k)'
      BY <1>3, <1>4, <3>1
    <3>3. step'.at = "reap" /\ step'.slot = i /\ Killed(job[i].req)'
      BY <1>2, <2>1 DEF AJ!Is
    <3>4. QED BY <1>1, <1>4, <3>2, <3>3 DEF Fits
  <2>2. CASE /\ step.at = "teardown" /\ step' = AJ!Is("reapall", i)
             /\ \A k \in AJ!Slots : Command(k) => k >= i
    <3>1. step'.at = "reapall" /\ step'.slot = i /\ Killed(job[i].req)'
      BY <1>2, <2>2 DEF AJ!Is
    <3>2. QED BY <1>1, <1>4, <2>2, <3>1 DEF Fits
  <2>3. QED BY <2>1, <2>2
<1>6. LoopTyped'
  <2>1. step' \in [at : Phases, slot : 0..MaxJobs]
    BY AgentConstants DEF AJ!Is, Phases, AJ!Slots
  <2>2. missed' \subseteq Execs BY <1>1, <1>2 DEF JobInv, LoopTyped
  <2>3. QED BY <2>1, <2>2 DEF JobInv, LoopTyped
<1>7. QED BY <1>2, <1>3, <1>5, <1>6 DEF JobInv

LEMMA ExpireKillsKeeps ==
  ASSUME JobInv, NEW i \in AJ!Slots, AJ!ExpireKills(i) PROVE JobInv'
<1>1. step.at = "expire" /\ step.slot = i /\ Command(i)
  BY DEF AJ!ExpireKills, AJ!At, JobInv, Fits, Command
<1>2. QED BY <1>1, KillKeeps DEF AJ!ExpireKills

LEMMA TeardownKillsKeeps ==
  ASSUME JobInv, NEW i \in AJ!Slots, AJ!TeardownKills(i) PROVE JobInv'
<1>1. /\ step.at = "teardown" /\ Command(i)
      /\ \A k \in AJ!Slots : Command(k) => k >= i
  BY DEF AJ!TeardownKills, AJ!At, JobInv, Fits
<1>2. QED BY <1>1, KillKeeps DEF AJ!TeardownKills

\* A request that is taken from the connection is nowhere else.
LEMMA TakenIsGone ==
  ASSUME JobInv, NEW r \in AJ!Requests, AJ!TakeRequest(r)
  PROVE  /\ inbox' \in Seq(AJ!Requests) /\ ready' = {}
         /\ answers[r] = <<>> /\ (r \in Execs => child[r] = "none")
         /\ \A i \in AJ!Slots : AJ!Active(i) => job[i].req # r
         /\ \A k \in DOMAIN inbox' :
              /\ inbox'[k] # r /\ inbox'[k] \in AJ!Requests
              /\ answers[inbox'[k]] = <<>>
              /\ inbox'[k] \in Execs => child[inbox'[k]] = "none"
              /\ \A i \in AJ!Slots : AJ!Active(i) => job[i].req # inbox'[k]
              /\ \A l \in DOMAIN inbox' : inbox'[l] = inbox'[k] => l = k
<1>1. inbox \in Seq(AJ!Requests) /\ OnItsWay BY DEF JobInv, LoopTyped
<1>2. inbox # <<>> /\ r = Head(inbox) /\ inbox' = Tail(inbox) /\ ready' = {}
  BY DEF AJ!TakeRequest
<1>3. 1 \in DOMAIN inbox /\ inbox[1] = r BY <1>1, <1>2
<1>4. /\ inbox' \in Seq(AJ!Requests)
      /\ \A k \in DOMAIN inbox' :
           k \in Nat \ {0} /\ k + 1 \in DOMAIN inbox /\ inbox'[k] = inbox[k + 1]
  BY <1>1, <1>2
<1>5. ASSUME NEW k \in DOMAIN inbox'
      PROVE  /\ inbox'[k] # r /\ inbox'[k] \in AJ!Requests
             /\ answers[inbox'[k]] = <<>>
             /\ inbox'[k] \in Execs => child[inbox'[k]] = "none"
             /\ \A i \in AJ!Slots : AJ!Active(i) => job[i].req # inbox'[k]
             /\ \A l \in DOMAIN inbox' : inbox'[l] = inbox'[k] => l = k
  <2>1. /\ k \in Nat \ {0} /\ k + 1 \in DOMAIN inbox /\ inbox'[k] = inbox[k + 1]
        /\ k + 1 # 1
    BY <1>4
  <2>2. inbox'[k] # r BY <1>1, <1>3, <2>1 DEF OnItsWay
  <2>3. \A l \in DOMAIN inbox' : inbox'[l] = inbox'[k] => l = k
    BY <1>1, <1>4, <2>1 DEF OnItsWay
  <2>4. inbox'[k] \in AJ!Requests BY <1>1, <2>1
  <2>5. QED BY <1>1, <2>1, <2>2, <2>3, <2>4 DEF OnItsWay
<1>6. /\ answers[r] = <<>> /\ (r \in Execs => child[r] = "none")
      /\ \A i \in AJ!Slots : AJ!Active(i) => job[i].req # r
  BY <1>1, <1>3 DEF OnItsWay
<1>7. QED BY <1>2, <1>4, <1>5, <1>6

LEMMA DropWaitKeeps ==
  ASSUME JobInv, NEW r \in AJ!Requests, AJ!DropWait(r) PROVE JobInv'
<1>1. /\ AJ!TakeRequest(r) /\ step' = AJ!Is("select", 0)
      /\ UNCHANGED <<host, job, reaped, answers, missed, AJ!procVars>>
  BY DEF AJ!DropWait
<1>2. OnItsWay' /\ inbox' \in Seq(AJ!Requests) /\ ready' \subseteq 0..MaxJobs
  BY <1>1, TakenIsGone DEF OnItsWay, AJ!Active, AJ!procVars
<1>3. Fits(step)' /\ step' \in [at : Phases, slot : 0..MaxJobs]
  BY <1>1, AgentConstants DEF Fits, AJ!Is, Phases
<1>4. host' \in {"here", "gone"} BY <1>1 DEF JobInv, LoopTyped
<1>5. QED BY <1>1, <1>2, <1>3, <1>4, QuietKeeps

LEMMA SendKeeps ==
  ASSUME JobInv, NEW r \in AJ!Requests, AJ!Send(r) PROVE JobInv'
<1>1. /\ answers[r] = <<>> /\ (r \in Execs => child[r] = "none")
      /\ \A k \in DOMAIN inbox : inbox[k] # r
      /\ \A i \in AJ!Slots : job[i].req # r
      /\ inbox' = Append(inbox, r)
      /\ UNCHANGED <<host, step, ready, job, reaped, answers, missed, AJ!procVars>>
  BY DEF AJ!Send, AJ!loopVars
<1>2. inbox \in Seq(AJ!Requests) /\ OnItsWay BY DEF JobInv, LoopTyped
<1>3. /\ inbox' \in Seq(AJ!Requests) /\ DOMAIN inbox' = DOMAIN inbox \cup {Len(inbox) + 1}
      /\ inbox'[Len(inbox) + 1] = r /\ Len(inbox) + 1 \notin DOMAIN inbox
      /\ \A k \in DOMAIN inbox : inbox'[k] = inbox[k]
  BY <1>1, <1>2
<1>4. UNCHANGED <<job, answers, child>> BY <1>1 DEF AJ!procVars
<1>5. OnItsWay'
  <2>1. ASSUME NEW k \in DOMAIN inbox'
        PROVE  /\ answers[inbox'[k]] = <<>>
               /\ inbox'[k] \in Execs => child[inbox'[k]] = "none"
               /\ \A i \in AJ!Slots : AJ!Active(i) => job[i].req # inbox'[k]
               /\ \A l \in DOMAIN inbox' : inbox'[l] = inbox'[k] => l = k
    <3>1. CASE k \in DOMAIN inbox BY <1>1, <1>2, <1>3, <3>1 DEF OnItsWay
    <3>2. CASE k = Len(inbox) + 1 BY <1>1, <1>3, <3>2
    <3>3. QED BY <1>3, <3>1, <3>2
  <2>2. QED BY <1>4, <2>1 DEF OnItsWay, AJ!Active
<1>6. Fits(step)' BY <1>1, StillFits DEF JobInv
<1>7. /\ host' \in {"here", "gone"} /\ ready' \subseteq 0..MaxJobs
      /\ step' \in [at : Phases, slot : 0..MaxJobs]
  BY <1>1 DEF JobInv, LoopTyped
<1>8. QED BY <1>1, <1>3, <1>5, <1>6, <1>7, QuietKeeps
LEMMA RefuseExecKeeps ==
  ASSUME JobInv, NEW r \in AJ!Requests, AJ!RefuseExec(r) PROVE JobInv'
<1>1. /\ AJ!TakeRequest(r) /\ AJ!Reply(r, "err", 0, AJ!Is("select", 0))
      /\ UNCHANGED <<host, job, reaped, missed, AJ!procVars>>
  BY DEF AJ!RefuseExec
<1>2. /\ inbox' \in Seq(AJ!Requests) /\ ready' = {}
      /\ answers[r] = <<>>
      /\ \A i \in AJ!Slots : AJ!Active(i) => job[i].req # r
      /\ \A k \in DOMAIN inbox' :
           /\ inbox'[k] # r /\ inbox'[k] \in AJ!Requests
           /\ answers[inbox'[k]] = <<>>
           /\ inbox'[k] \in Execs => child[inbox'[k]] = "none"
           /\ \A i \in AJ!Slots : AJ!Active(i) => job[i].req # inbox'[k]
           /\ \A l \in DOMAIN inbox' : inbox'[l] = inbox'[k] => l = k
  BY <1>1, TakenIsGone
<1>3. /\ step' \in {AJ!Is("select", 0), AJ!Is("dead", 0)}
      /\ \E a \in Replies : a.what = "err" /\ answers' = [answers EXCEPT ![r] = <<a>>]
  BY <1>1, <1>2, FirstReply, AgentConstants
<1>4. PICK a \in Replies : a.what = "err" /\ answers' = [answers EXCEPT ![r] = <<a>>]
  BY <1>3
<1>5. /\ answers'[r] = <<a>> /\ \A q \in AJ!Requests : q # r => answers'[q] = answers[q]
      /\ answers' = [q \in AJ!Requests |-> answers'[q]]
  BY <1>4 DEF JobInv, Answered
<1>6. Fits(step)' /\ step' \in [at : Phases, slot : 0..MaxJobs]
  <2>1. CASE step' = AJ!Is("select", 0)
    BY <2>1, AgentConstants DEF Fits, AJ!Is, Phases
  <2>2. QED BY <1>3, <2>1, DeadFits
<1>7. Answered' BY <1>5 DEF JobInv, Answered
<1>8. OneSlot'
  <2>1. \A i \in AJ!Slots : AJ!Active(i) => job[i].req # r /\ job[i].req \in AJ!Requests
    BY <1>2, SlotFacts
  <2>2. QED BY <1>1, <1>5, <2>1 DEF JobInv, OneSlot, AJ!Active
<1>9. OnItsWay' BY <1>1, <1>2, <1>5 DEF OnItsWay, AJ!Active, AJ!procVars
<1>10. Commands'
  BY <1>1 DEF JobInv, Commands, Command, AJ!Active, AJ!IsWait, Caught, AJ!Open, AJ!procVars
<1>11. Processes' BY <1>1 DEF JobInv, Processes, AJ!Ended, AJ!procVars
<1>12. Outcomes'
  <2>1. UNCHANGED <<job, child, bg, written, reaped, missed>> BY <1>1 DEF AJ!procVars
  <2>2. \A q \in Execs : Killed(q)' <=> Killed(q) BY <2>1 DEF Killed, AJ!Ended
  <2>3. \A i \in AJ!Slots : Command(i)' <=> Command(i)
    BY <2>1 DEF Command, AJ!Active, AJ!IsWait
  <2>4. ~Said(r, "code")' /\ ~Said(r, "timeout")' /\ answers'[r] # <<>>
    BY <1>4, <1>5 DEF Said
  <2>5. \A q \in Execs : q # r => answers'[q] = answers[q] BY <1>5 DEF AJ!Requests
  <2>6. QED BY <2>1, <2>2, <2>3, <2>4, <2>5 DEF JobInv, Outcomes, Said
<1>13. LoopTyped' /\ ProcsTyped'
  BY <1>1, <1>2, <1>6 DEF JobInv, LoopTyped, ProcsTyped, AJ!procVars
<1>14. QED BY <1>6, <1>7, <1>8, <1>9, <1>10, <1>11, <1>12, <1>13 DEF JobInv

(* start_exec_capture and start_wait: a request that was nowhere else gets  *)
(* a slot, and a command a process that nobody has waited for yet.          *)
LEMMA StartJobKeeps ==
  ASSUME JobInv, NEW r \in AJ!Requests, AJ!StartJob(r) PROVE JobInv'
<1>1. /\ AJ!TakeRequest(r) /\ step' = AJ!Is("select", 0)
      /\ child' = IF r \in Execs THEN [child EXCEPT ![r] = "forked"] ELSE child
      /\ UNCHANGED <<host, reaped, answers, missed, bg, written, unread>>
  BY DEF AJ!StartJob
<1>2. PICK i \in AJ!Slots : ~AJ!Active(i) /\ job' = [job EXCEPT ![i] = AJ!NewJob(r)]
  BY DEF AJ!StartJob, AJ!Alloc
<1>3. /\ inbox' \in Seq(AJ!Requests) /\ ready' = {}
      /\ answers[r] = <<>> /\ (r \in Execs => child[r] = "none")
      /\ \A k \in AJ!Slots : AJ!Active(k) => job[k].req # r
      /\ \A k \in DOMAIN inbox' :
           /\ inbox'[k] # r /\ inbox'[k] \in AJ!Requests
           /\ answers[inbox'[k]] = <<>>
           /\ inbox'[k] \in Execs => child[inbox'[k]] = "none"
           /\ \A j \in AJ!Slots : AJ!Active(j) => job[j].req # inbox'[k]
           /\ \A l \in DOMAIN inbox' : inbox'[l] = inbox'[k] => l = k
  BY <1>1, TakenIsGone
<1>4. /\ ProcsTyped /\ Answered /\ OneSlot /\ Commands /\ Processes /\ Outcomes
      /\ \A k \in AJ!Slots : job[k] = AJ!Free \/ job[k] \in Jobs
      /\ job = [k \in AJ!Slots |-> job[k]]
  BY DEF JobInv, LoopTyped
<1>5. /\ job'[i] = AJ!NewJob(r) /\ \A k \in AJ!Slots : k # i => job'[k] = job[k]
      /\ job' = [k \in AJ!Slots |-> job'[k]]
  BY <1>2, <1>4
<1>6. /\ AJ!NewJob(r) \in Jobs /\ AJ!NewJob(r) # AJ!Free /\ AJ!NewJob(r).req = r
      /\ AJ!NewJob(r).len = 0 /\ ~AJ!NewJob(r).eof
  <2>1. AJ!NewJob(r) \in Jobs /\ AJ!NewJob(r) # AJ!Free BY JobRecords
  <2>2. AJ!NewJob(r).req = r /\ AJ!NewJob(r).len = 0 /\ ~AJ!NewJob(r).eof
    BY Zenon DEF AJ!NewJob
  <2>3. QED BY <2>1, <2>2
<1>7. /\ AJ!Active(i)' /\ (Command(i)' <=> r \notin Waits)
      /\ \A k \in AJ!Slots : k # i =>
           (AJ!Active(k)' <=> AJ!Active(k)) /\ (Command(k)' <=> Command(k))
      /\ ~Command(i)
  BY <1>2, <1>5, <1>6 DEF AJ!Active, Command, AJ!IsWait
<1>8. r \notin Waits <=> r \in Execs BY AgentConstants DEF AJ!Requests
<1>9. /\ \A q \in Execs : q # r => child'[q] = child[q]
      /\ r \in Execs => child'[r] = "forked"
      /\ ProcsTyped'
  BY <1>1, <1>4 DEF ProcsTyped
<1>10. Fits(step)' /\ step' \in [at : Phases, slot : 0..MaxJobs]
  BY <1>1, AgentConstants DEF Fits, AJ!Is, Phases
<1>11. Answered' BY <1>1, <1>4 DEF Answered
<1>12. OneSlot' BY <1>1, <1>3, <1>4, <1>5, <1>6, <1>7 DEF OneSlot
<1>13. OnItsWay'
  <2>1. \A k \in DOMAIN inbox' : inbox'[k] \in Execs => child'[inbox'[k]] = "none"
    BY <1>3, <1>9
  <2>2. QED BY <1>1, <1>3, <1>5, <1>6, <1>7, <2>1 DEF OnItsWay
<1>14. r \in Execs => /\ r \notin reaped /\ ~bg[r] /\ written[r] = 0 /\ unread[r] = 0
  BY <1>3, <1>4 DEF Processes, AJ!Ended
<1>15. Commands'
  <2>1. ASSUME NEW k \in AJ!Slots, k # i, Command(k)
        PROVE  /\ child'[job[k].req] # "none" /\ job[k].req \notin reaped
               /\ job[k].len = Caught(job[k].req)
               /\ job[k].eof => unread[job[k].req] = 0 /\ ~AJ!Open(job[k].req)
               /\ job[k].req \in Execs /\ job[k].req # r
    <3>1. AJ!Active(k) BY <2>1 DEF Command
    <3>2. job[k].req \in Execs /\ job[k].req # r BY <1>3, <2>1, <3>1, SlotFacts
    <3>3. QED BY <1>4, <1>9, <2>1, <3>2 DEF Commands
  <2>2. \A k \in AJ!Slots : k # i /\ Command(k) =>
          /\ child'[job'[k].req] # "none" /\ job'[k].req \notin reaped'
          /\ job'[k].len = Caught(job[k].req)' /\ job'[k].req = job[k].req
          /\ job'[k].eof => unread'[job'[k].req] = 0 /\ ~AJ!Open(job[k].req)'
    BY <1>1, <1>5, <1>9, <2>1 DEF Caught, AJ!Open
  <2>3. Command(i)' =>
          /\ child'[job'[i].req] # "none" /\ job'[i].req \notin reaped'
          /\ job'[i].len = Caught(job[i].req)' /\ ~job'[i].eof
    BY <1>1, <1>5, <1>6, <1>7, <1>8, <1>9, <1>14, AgentConstants DEF Caught
  <2>4. QED BY <1>7, <2>2, <2>3 DEF Commands
<1>16. Processes'
  BY <1>1, <1>4, <1>9, <1>14 DEF Processes, AJ!Ended
<1>17. Outcomes'
  <2>1. \A q \in Execs : q # r => (Killed(q)' <=> Killed(q))
    BY <1>1, <1>9 DEF Killed, AJ!Ended
  <2>2. ASSUME NEW k \in AJ!Slots, Command(k)
        PROVE  Command(k)' /\ job'[k].req = job[k].req
    BY <1>5, <1>7, <2>2
  <2>3. \A q \in Execs : Said(q, "code")' <=> Said(q, "code")
    BY <1>1 DEF Said
  <2>4. \A q \in Execs : Said(q, "timeout")' <=> Said(q, "timeout")
    BY <1>1 DEF Said
  <2>5. ~Said(r, "code") /\ ~Said(r, "timeout") BY <1>3 DEF Said
  <2>6. r \in Execs => Command(i)' /\ job'[i].req = r BY <1>5, <1>6, <1>7, <1>8
  <2>7. QED BY <1>1, <1>4, <1>9, <2>1, <2>2, <2>3, <2>4, <2>5, <2>6 DEF Outcomes
<1>18. LoopTyped'
  BY <1>1, <1>3, <1>4, <1>5, <1>6, <1>10 DEF JobInv, LoopTyped
<1>19. QED
  BY <1>9, <1>10, <1>11, <1>12, <1>13, <1>15, <1>16, <1>17, <1>18 DEF JobInv

LEMMA ProcessKeeps ==
  ASSUME JobInv, NEW r \in Execs, ProcessStep(r) PROVE JobInv'
<1>1. UNCHANGED <<host, inbox, step, ready, job, reaped, answers, missed>>
  BY DEF ProcessStep, AJ!Setsid, AJ!Prints, AJ!Redirects, AJ!Background, AJ!BackgroundEnds,
         AJ!Exits, AJ!loopVars
<1>2. ProcsTyped' /\ \A x \in Execs : Ages(x) BY ProcessesAge DEF JobInv
<1>3. /\ Answered' /\ OneSlot' /\ OnItsWay' /\ Commands' /\ Processes' /\ Outcomes'
      /\ Fits(step)'
  BY <1>1, <1>2, AgingKeeps
<1>4. LoopTyped' BY <1>1 DEF JobInv, LoopTyped
<1>5. QED BY <1>2, <1>3, <1>4 DEF JobInv

LEMMA JobInit == AJ!Init => JobInv
<1> SUFFICES ASSUME AJ!Init PROVE JobInv OBVIOUS
<1> USE AgentConstants DEF AJ!Init
<1>1. LoopTyped BY DEF LoopTyped, Phases
<1>2. ProcsTyped BY DEF ProcsTyped
<1>3. Answered BY DEF Answered
<1>4. \A i \in AJ!Slots : ~AJ!Active(i) /\ ~Command(i) BY DEF AJ!Active, Command
<1>5. OneSlot /\ OnItsWay /\ Commands BY <1>4 DEF OneSlot, OnItsWay, Commands
<1>6. Processes BY DEF Processes
<1>7. Outcomes BY DEF Outcomes, Said, AJ!Requests
<1>8. Fits(step) BY DEF Fits
<1>9. QED BY <1>1, <1>2, <1>3, <1>5, <1>6, <1>7, <1>8 DEF JobInv

LEMMA JobStep == JobInv /\ [AJ!Next]_(AJ!vars) => JobInv'
<1> SUFFICES ASSUME JobInv, [AJ!Next]_(AJ!vars) PROVE JobInv' OBVIOUS
<1>1. CASE AJ!Select BY <1>1, SelectKeeps
<1>2. CASE AJ!ConnectionEnds BY <1>2, ConnectionEndsKeeps
<1>3. ASSUME NEW r \in AJ!Requests, AJ!StartJob(r) PROVE JobInv' BY <1>3, StartJobKeeps
<1>4. ASSUME NEW r \in AJ!Requests, AJ!RefuseExec(r) PROVE JobInv' BY <1>4, RefuseExecKeeps
<1>5. ASSUME NEW r \in AJ!Requests, AJ!DropWait(r) PROVE JobInv' BY <1>5, DropWaitKeeps
<1>6. ASSUME NEW i \in AJ!Slots, AJ!ExpirePasses(i) PROVE JobInv' BY <1>6, ExpirePassesKeeps
<1>7. ASSUME NEW i \in AJ!Slots, AJ!ExpireReaps(i) PROVE JobInv' BY <1>7, ExpireReapsKeeps
<1>8. ASSUME NEW i \in AJ!Slots, AJ!ExpireWait(i) PROVE JobInv' BY <1>8, ExpireWaitKeeps
<1>9. ASSUME NEW i \in AJ!Slots, AJ!ExpireKills(i) PROVE JobInv' BY <1>9, ExpireKillsKeeps
<1>10. ASSUME NEW i \in AJ!Slots, AJ!Reap(i) PROVE JobInv' BY <1>10, ReapKeeps
<1>11. ASSUME NEW i \in AJ!Slots, AJ!DrainReads(i) PROVE JobInv' BY <1>11, DrainReadsKeeps
<1>12. ASSUME NEW i \in AJ!Slots, AJ!DrainEnds(i) PROVE JobInv' BY <1>12, DrainEndsKeeps
<1>13. ASSUME NEW i \in AJ!Slots, AJ!TeardownKills(i) PROVE JobInv'
  BY <1>13, TeardownKillsKeeps
<1>14. ASSUME NEW i \in AJ!Slots, AJ!TeardownReaps(i) PROVE JobInv'
  BY <1>14, TeardownReapsKeeps
<1>15. CASE AJ!HostLeaves BY <1>15, HostLeavesKeeps
<1>16. ASSUME NEW r \in AJ!Requests, AJ!Send(r) PROVE JobInv' BY <1>16, SendKeeps
<1>17. ASSUME NEW r \in Execs, ProcessStep(r) PROVE JobInv' BY <1>17, ProcessKeeps
<1>18. ASSUME NEW i \in AJ!Slots, AJ!Late(i) PROVE JobInv' BY <1>18, LateKeeps
<1>19. CASE UNCHANGED AJ!vars
  <2>1. UNCHANGED <<host, inbox, step, ready, job, reaped, answers, missed, AJ!procVars>>
    BY <1>19 DEF AJ!vars, AJ!loopVars
  <2>2. Fits(step)' BY <2>1, StillFits DEF JobInv
  <2>3. OnItsWay' /\ inbox' \in Seq(AJ!Requests) BY <2>1, StillOnItsWay DEF AJ!procVars
  <2>4. /\ host' \in {"here", "gone"} /\ ready' \subseteq 0..MaxJobs
        /\ step' \in [at : Phases, slot : 0..MaxJobs]
    BY <2>1 DEF JobInv, LoopTyped
  <2>5. QED BY <2>1, <2>2, <2>3, <2>4, QuietKeeps
<1>20. CASE AJ!AgentStep
  BY <1>1, <1>2, <1>3, <1>4, <1>5, <1>6, <1>7, <1>8, <1>9, <1>10, <1>11, <1>12, <1>13,
     <1>14, <1>20 DEF AJ!AgentStep
<1>21. QED
  BY <1>15, <1>16, <1>17, <1>18, <1>19, <1>20 DEF AJ!Next, AJ!Over, ProcessStep
LEMMA JobSafe == JobInv => AJ!JobsSound
<1> SUFFICES ASSUME JobInv PROVE AJ!JobsSound OBVIOUS
<1>1. ProcsTyped /\ Answered /\ OneSlot /\ Commands /\ Processes /\ Outcomes /\ Fits(step)
  BY DEF JobInv
<1>2. ASSUME NEW r \in AJ!Requests
      PROVE  /\ Len(answers[r]) <= 1
             /\ \A k \in DOMAIN answers[r] : k = 1
             /\ answers[r] # <<>> <=> 1 \in DOMAIN answers[r]
  <2>1. CASE answers[r] = <<>> BY <2>1
  <2>2. CASE \E a \in Replies : answers[r] = <<a>>
    <3>1. PICK a \in Replies : answers[r] = <<a>> BY <2>2
    <3>2. Len(answers[r]) = 1 /\ DOMAIN answers[r] = {1} /\ answers[r] # <<>> BY <3>1
    <3>3. QED BY <3>2
  <2>3. answers[r] = <<>> \/ \E a \in Replies : answers[r] = <<a>>
    BY <1>1, Zenon DEF Answered
  <2>4. QED BY <2>1, <2>2, <2>3
<1>3. AJ!AnswersRight
  <2>1. ASSUME NEW r \in Execs, NEW k \in DOMAIN answers[r], answers[r][k].what = "code"
        PROVE  /\ child[r] = "exited" /\ ~AJ!Open(r)
               /\ answers[r][k].len = IF written[r] < BufSize THEN written[r] ELSE BufSize
    <3>1. k = 1 /\ answers[r] # <<>> BY <1>2 DEF AJ!Requests
    <3>2. Said(r, "code") BY <2>1, <3>1 DEF Said
    <3>3. QED BY <1>1, <3>1, <3>2 DEF Outcomes, AJ!Open
  <2>2. QED BY <1>2, <2>1 DEF AJ!AnswersRight
<1>4. AJ!NoneSurvives
  <2> SUFFICES ASSUME NEW r \in Execs, r \notin missed,
                      \/ \E k \in DOMAIN answers[r] : answers[r][k].what = "timeout"
                      \/ step.at = "gone" /\ answers[r] = <<>>
               PROVE  ~AJ!Alive(r) /\ ~bg[r] /\ (child[r] # "none" => r \in reaped)
    BY DEF AJ!NoneSurvives
  <2>1. CASE \E k \in DOMAIN answers[r] : answers[r][k].what = "timeout"
    <3>1. Said(r, "timeout") BY <1>2, <2>1 DEF Said, AJ!Requests
    <3>2. QED BY <1>1, <3>1 DEF Outcomes, Killed, AJ!Ended, AJ!Alive
  <2>2. CASE step.at = "gone" /\ answers[r] = <<>>
    <3>1. \A i \in AJ!Slots : ~Command(i) BY <1>1, <2>2 DEF Fits
    <3>2. CASE child[r] = "none" BY <1>1, <3>2 DEF Processes, AJ!Alive
    <3>3. CASE child[r] # "none"
      BY <1>1, <2>2, <3>1, <3>3 DEF Outcomes, Killed, AJ!Ended, AJ!Alive
    <3>4. QED BY <3>2, <3>3
  <2>3. QED BY <2>1, <2>2
<1>5. AJ!NumbersValid
  <2>1. \A i, k \in AJ!Slots :
          AJ!Active(i) /\ job[i] = job[k] /\ job[i].req = job[k].req => i = k
    BY <1>1 DEF OneSlot, AJ!Active
  <2>2. \A i \in AJ!Slots : AJ!At("drain", i) => AJ!Readable(i)
    <3>1. ASSUME NEW i \in AJ!Slots, AJ!At("drain", i) PROVE AJ!Readable(i)
      <4>1. step.at = "drain" /\ step.slot = i BY <3>1 DEF AJ!At
      <4>2. i >= i BY AgentConstants DEF AJ!Slots
      <4>3. QED BY <1>1, <4>1, <4>2 DEF Fits
    <3>2. QED BY <3>1
  <2>3. \A i \in AJ!Slots : AJ!Active(i) /\ ~AJ!IsWait(i) =>
          job[i].req \notin reaped /\ child[job[i].req] # "none"
    BY <1>1 DEF Commands, Command
  <2>4. QED BY <2>1, <2>2, <2>3 DEF AJ!NumbersValid
<1>6. QED BY <1>3, <1>4, <1>5 DEF AJ!JobsSound

LEMMA JobTyped == JobInv => AJ!TypeOK
<1> SUFFICES ASSUME JobInv PROVE AJ!TypeOK OBVIOUS
<1>1. job \in [AJ!Slots -> {AJ!Free} \cup
                 [req : AJ!Requests, eof : BOOLEAN, len : 0..BufSize, due : BOOLEAN]]
  BY DEF JobInv, LoopTyped, Jobs
<1>2. answers \in [AJ!Requests -> Seq(Replies)]
  <2>1. ASSUME NEW r \in AJ!Requests PROVE answers[r] \in Seq(Replies)
    <3>1. \A a \in Replies : <<a>> \in Seq(Replies) OBVIOUS
    <3>2. <<>> \in Seq(Replies) OBVIOUS
    <3>3. QED BY <3>1, <3>2 DEF JobInv, Answered
  <2>2. QED BY <2>1 DEF JobInv, Answered
<1>3. QED
  BY <1>1, <1>2 DEF JobInv, LoopTyped, ProcsTyped, Phases, Replies, AJ!TypeOK

-----------------------------------------------------------------------------
(* Whatever disks, shares and console the configuration asks for, a guest   *)
(* that starts finds each device where its environment says it is, and a    *)
(* start that fails, or a session that is dropped, leaves nothing on the    *)
(* host (Session::start, build_vz_config, BootParams).                      *)
THEOREM StartSound == ST!Spec => [](ST!TypeOK /\ ST!GuestAgrees /\ ST!LeavesNothing)
<1>1. StartInv => ST!TypeOK /\ ST!GuestAgrees /\ ST!LeavesNothing
  BY StartAgrees DEF StartInv
<1>2. QED BY <1>1, StartInit, StartStep, PTL DEF ST!Spec

(* Each request of the agent has one answer at most, an exit code comes     *)
(* with all of the output that is kept, a command that is answered at its   *)
(* deadline or left at the end of the connection leaves no process, and no  *)
(* process number or pipe is used that is not the job's own (drain_job,     *)
(* expire_jobs, reap_all_jobs).                                             *)
THEOREM AgentSound == AJ!Spec => [](AJ!TypeOK /\ AJ!JobsSound)
<1>1. JobInv => AJ!TypeOK /\ AJ!JobsSound BY JobSafe, JobTyped
<1>2. QED BY <1>1, JobInit, JobStep, PTL DEF AJ!Spec

\* Without a timeout the timer alone does not act, and a session that has ended
\* satisfies the invariant of the end.
LEMMA UntimedNext == Untimed!Next => Next
BY DEF Untimed!Next, Untimed!QueueStep, Untimed!GuestStep, Untimed!TimerFires, Untimed!Over,
       Untimed!StartRuns, Untimed!StartCompletes, Untimed!StartFails, Untimed!GuestDidStop,
       Untimed!DidStopWithError, Untimed!WriteExitFile, Untimed!Stop, Untimed!StopRuns,
       Untimed!StopCompletes, Untimed!WaitEnd, Untimed!Set, Untimed!AskVm, Untimed!Verdict,
       Untimed!Askers, Untimed!vars, Untimed!ReadExitFile, Untimed!HasCode, Untimed!Wrote,
       Untimed!Exited, Untimed!NoFile, Untimed!Garbled, Untimed!Running, Untimed!Error,
       Untimed!TimedOut, Untimed!Stopped, Untimed!Timer,
       Next, QueueStep, GuestStep, Over, StartRuns, StartCompletes, StartFails, GuestDidStop,
       DidStopWithError, WriteExitFile, Stop, StopRuns, StopCompletes, WaitEnd, Set, AskVm,
       Verdict, Askers, vars, ReadExitFile, HasCode, Wrote, Exited, NoFile, Garbled, Running,
       Error, TimedOut, Stopped, Timer

LEMMA NoSessionInv == NoSession => Inv
BY EndTypes DEF NoSession, Inv, TypeOK, OneVerdict, ExitIsFinal

LEMMA SessionParts ==
  [SessionNext]_<<part, vars, startVars, jobVars>> =>
    [Next]_vars /\ [ST!Next]_(ST!vars) /\ [AJ!Next]_(AJ!vars)
<1>1. [SessionNext]_<<part, vars, startVars, jobVars>> =>
        [ST!Next]_(ST!vars) /\ [AJ!Next]_(AJ!vars)
  BY DEF SessionNext, startVars, jobVars, ST!vars, AJ!vars, AJ!loopVars, AJ!procVars
<1>2. [SessionNext]_<<part, vars, startVars, jobVars>> => [Next]_vars
  BY UntimedNext DEF SessionNext
<1>3. QED BY <1>1, <1>2

LEMMA SessionInvariance == SessionSpec => [](Inv /\ StartInv /\ JobInv)
<1>1. SessionInit => Inv /\ StartInv /\ JobInv
  BY InvInit, NoSessionInv, StartInit, JobInit DEF SessionInit
<1>2. Inv /\ StartInv /\ JobInv /\ [SessionNext]_<<part, vars, startVars, jobVars>>
        => Inv' /\ StartInv' /\ JobInv'
  BY SessionParts, InvStep, StartStep, JobStep
<1>3. QED BY <1>1, <1>2, PTL DEF SessionSpec

(* The same in the behaviours of the composition, with a timeout and        *)
(* without: the end, ...                                                    *)
THEOREM SessionEndSound == SessionSpec => [](TypeOK /\ OneVerdict /\ SuccessIsReal)
<1>1. Inv => TypeOK /\ OneVerdict /\ SuccessIsReal BY SuccessHolds DEF Inv
<1>2. QED BY <1>1, SessionInvariance, PTL

(* ... which a timer that has fired decides, ...                            *)
THEOREM SessionTimeoutWins == SessionSpec => TimeoutNotMasked
<1>1. [SessionNext]_<<part, vars, startVars, jobVars>> => [Next]_vars
  BY SessionParts
<1>2. QED
  BY <1>1, NotMasked, SessionInvariance, PTL DEF SessionSpec, TimeoutNotMasked

(* ... the devices and the boot contract, ...                               *)
THEOREM SessionAgrees == SessionSpec => []GuestAgrees
<1>1. StartInv => GuestAgrees BY StartAgrees DEF GuestAgrees
<1>2. QED BY <1>1, SessionInvariance, PTL

(* ... what a start that fails leaves on the host, ...                      *)
THEOREM SessionLeavesNothing == SessionSpec => []LeavesNothing
<1>1. StartInv => LeavesNothing BY DEF StartInv, LeavesNothing
<1>2. QED BY <1>1, SessionInvariance, PTL

(* ... and the agent's jobs.                                                *)
THEOREM SessionJobsSound == SessionSpec => []JobsSound
<1>1. JobInv => JobsSound BY JobSafe DEF JobsSound
<1>2. QED BY <1>1, SessionInvariance, PTL
=============================================================================
