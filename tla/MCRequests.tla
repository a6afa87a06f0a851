----------------------------- MODULE MCRequests -----------------------------
(* Instances for TLC of what a client's request goes through: the daemon is *)
(* found or started; a one-shot run and the reading of its output; the      *)
(* detector behind a settled screenshot; and the tools that make several    *)
(* requests of one session.  Each has behaviours of its own, in which the   *)
(* variables of the others stay as they are.                                *)
EXTENDS RunLane, Sequences

CONSTANTS
  Cols, Rows, SettleFrames, ChurnWindow, ChurnThreshold,
  Callers, Points,
  Threads, Home, MaxDaemons

VARIABLES
  part, case,
  warm, stable, window, unclean, verdict, moving, lone, stuck,
  tool, at, target, baseline, painted, report, prev, screen, pointer, clip,
  clicked, slid, bare, pasted, mixed, began, final, changed,
  place, lock, daemon, owner, path, gaveUp, strangers, robbed

OU == INSTANCE Output
SE == INSTANCE Settle
DT == INSTANCE DesktopTools
AS == INSTANCE AutoStart WITH at <- place

ASSUME RequestsAssumption ==
  SE!SettleAssumption /\ AS!AutoStartAssumption /\ DT!DesktopToolsAssumption

settleVars == <<warm, stable, window, unclean, verdict, moving, lone, stuck>>
toolVars   == <<tool, at, target, baseline, painted, report, prev, screen, pointer,
                clip, clicked, slid, bare, pasted, mixed, began, final, changed>>
startVars  == <<place, lock, daemon, owner, path, gaveUp, strangers, robbed>>
allVars == <<part, case, vars, settleVars, toolVars, startVars>>

-----------------------------------------------------------------------------
(* All strings of up to five bytes, with the needle's bytes or with those of *)
(* a character, in all the pieces they can come in.                          *)
Needle    == <<"R", "Y", "N">>
OutputCap == 3

Pieces(bytes, ends) ==
  [i \in DOMAIN ends |->
     SubSeq(bytes, IF i = 1 THEN 1 ELSE ends[i - 1] + 1, ends[i])]

\* Where the pieces of n bytes can end.
Ends(n) ==
  UNION {{e \in [1..k -> 1..n] : e[k] = n /\ \A i \in 1..(k - 1) : e[i] < e[i + 1]} :
           k \in 1..n}

Strings == UNION {[1..n -> {"R", "Y", "N"}] \cup [1..n -> {"N", OU!Lead, OU!Trail}] :
                    n \in 1..5}
Reads   == UNION {{Pieces(b, ends) : ends \in Ends(Len(b))} : b \in Strings}

-----------------------------------------------------------------------------
\* There is no run: its task is over.
NoRun ==
  /\ worker = "failed" /\ loop = "over" /\ vm = "off" /\ capture = "off"
  /\ handle = FALSE /\ stopping = FALSE /\ client = "gone"
  /\ printed = 0 /\ captured = 0 /\ taken = 0
  /\ chan = <<>> /\ got = <<>>

RequestsInit ==
  /\ part \in {"run", "output", "settle", "tools", "start"}
  /\ case \in IF part = "output" THEN Reads ELSE {<<>>}
  /\ IF part = "run" THEN Init ELSE NoRun
  /\ SE!Init
  /\ AS!Init
  /\ DT!Init
  /\ part = "tools" \/
       /\ tool = [c \in Callers |-> "click"] /\ prev = "none"
       /\ pointer = CHOOSE p \in Points : TRUE
       /\ target = [c \in Callers |-> pointer]

RequestsNext ==
  /\ UNCHANGED <<part, case>>
  /\ \/ part = "run" /\ Next /\ UNCHANGED <<settleVars, toolVars, startVars>>
     \/ part = "output" /\ UNCHANGED allVars
     \/ part = "settle" /\ SE!Next /\ UNCHANGED <<vars, toolVars, startVars>>
     \/ part = "tools" /\ DT!Next /\ UNCHANGED <<vars, settleVars, startVars>>
     \/ part = "start" /\ AS!Next /\ UNCHANGED <<vars, settleVars, toolVars>>

RequestsSpec == RequestsInit /\ [][RequestsNext]_allVars /\ Fairness

-----------------------------------------------------------------------------
(* However the bytes are cut into reads, the client gets the output's bytes *)
(* up to the cap, as the text they are but for the characters that a read   *)
(* has cut in two, and READY is found (drain_capture, run_workload_inproc,  *)
(* echo_loop): Output!CaptureExact, TextExact and ReadyExact.               *)
ChunksRight ==
  part = "output" =>
    /\ OU!CaptureExact(case, OutputCap)
    /\ OU!TextExact(OU!Passed(OU!Captured(case, OutputCap)))
    /\ OU!ReadyExact(case, Needle)

(* A screen that is called settled is still but for the areas that are      *)
(* named as moving, which are those of the connected churning tiles, and    *)
(* one moving spot cannot put the verdict off (SettleDetector::push):       *)
(* Settle!SettledIsStill, BoxesOfComponents and LoneSpotPasses.             *)
SettleSound ==
  part = "settle" =>
    /\ SE!SettledIsStill /\ SE!LoneSpotPasses
    /\ SE!BoxesOfComponents(
         {t \in SE!Tiles : SE!IsChurning(stable[t], window[t], unclean[t])})

(* What the tools report is so (click_at, desktop_paste, desktop_launch):   *)
(* DesktopTools!ReportsTrue.                                                *)
ReportsTrue == part = "tools" => DT!ReportsTrue

(* The threads of a process start one daemon between them (Client::connect, *)
(* start_and_connect): AutoStart!SpawnedOnce.                               *)
SpawnedOnce == part = "start" => AS!SpawnedOnce

-----------------------------------------------------------------------------
\* Two threads of the MCP server, and the command line's one.
TwoProcesses == [t \in Threads |-> IF t = "cli" THEN "cli" ELSE "mcp"]
=============================================================================
