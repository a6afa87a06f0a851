------------------------------ MODULE RunLane -------------------------------
(***************************************************************************)
(* A one-shot run in the daemon (vmette-daemon/main.rs,                    *)
(* run_workload_inproc): a blocking worker that owns the session, the      *)
(* capture thread of the session (vmette/session.rs, drain_capture), the   *)
(* bounded channel of frames, the async loop that writes them to the       *)
(* client's socket, and the client, who may hang up.                       *)
(*                                                                         *)
(* The captured output is a sequence of chunks, numbered; the unbounded    *)
(* channel that carries them from the capture thread to the worker is the  *)
(* interval (taken, captured].  Frames are chunk numbers and Exit.  How    *)
(* the session ends is module SessionEnd; here its VM runs or has ended.   *)
(*                                                                         *)
(* Left out: the cap on the output (module Output), the exit code, and a  *)
(* client that stays but does not read.                                    *)
(***************************************************************************)
EXTENDS Naturals, Sequences

CONSTANTS
  MaxChunks,  \* bound: chunks the guest prints
  Cap         \* 64: frames the channel holds

ASSUME RunLaneAssumption == MaxChunks \in Nat /\ Cap \in Nat \ {0}

VARIABLES
  worker,     \* where the blocking worker is
  vm,         \* "off", "running" or "ended"
  handle,     \* stop_slot holds the session's stop handle
  stopping,   \* the loop has asked the VM to stop
  printed,    \* chunks the guest has printed
  captured,   \* chunks the capture thread has sent on
  capture,    \* "off", "open", or "closed": the capture thread has returned
  taken,      \* chunks the worker has taken from it
  chan,       \* the frames in the channel
  loop,       \* where the async task is
  client,     \* "here" or "gone"
  got         \* what was written to the client while it was there

vars == <<worker, vm, handle, stopping, printed, captured, capture, taken, chan,
          loop, client, got>>

session == <<vm, printed, captured, capture>>

\* The closing frames; the chunks are numbered 1..MaxChunks.
Exit  == 0
Fault == MaxChunks + 1

Init ==
  /\ worker = "setup"
  /\ vm = "off"
  /\ handle = FALSE
  /\ stopping = FALSE
  /\ printed = 0
  /\ captured = 0
  /\ capture = "off"
  /\ taken = 0
  /\ chan = <<>>
  /\ loop = "recv"
  /\ client = "here"
  /\ got = <<>>

-----------------------------------------------------------------------------
(* The session: the guest, its end, and the capture thread.                *)

GuestPrints ==
  /\ vm = "running" /\ printed < MaxChunks
  /\ printed' = printed + 1
  /\ UNCHANGED <<worker, vm, handle, stopping, captured, capture, taken, chan,
                 loop, client, got>>

GuestEnds ==
  /\ vm = "running" /\ vm' = "ended"
  /\ UNCHANGED <<worker, handle, stopping, printed, captured, capture, taken,
                 chan, loop, client, got>>

StopLands ==
  /\ stopping /\ vm = "running" /\ vm' = "ended"
  /\ UNCHANGED <<worker, handle, stopping, printed, captured, capture, taken,
                 chan, loop, client, got>>

CaptureReads ==
  /\ capture = "open" /\ captured < printed
  /\ captured' = captured + 1
  /\ UNCHANGED <<worker, vm, handle, stopping, printed, capture, taken, chan,
                 loop, client, got>>

\* Mutant: the capture thread leaves as soon as the session has ended.
CaptureEndsEarly ==
  /\ capture = "open" /\ vm = "ended"
  /\ capture' = "closed"
  /\ UNCHANGED <<worker, vm, handle, stopping, printed, captured, taken, chan,
                 loop, client, got>>

\* Mutant: the capture thread waits for the end of the pipe, whose write end
\* the session holds.
CaptureEndsAtEof ==
  /\ capture = "open" /\ worker = "done" /\ captured = printed
  /\ capture' = "closed"
  /\ UNCHANGED <<worker, vm, handle, stopping, printed, captured, taken, chan,
                 loop, client, got>>

\* The session has ended and the grace has passed on an empty pipe.
CaptureEnds ==
  /\ capture = "open" /\ vm = "ended" /\ captured = printed
  /\ capture' = "closed"
  /\ UNCHANGED <<worker, vm, handle, stopping, printed, captured, taken, chan,
                 loop, client, got>>

-----------------------------------------------------------------------------
(* The worker.                                                             *)

\* The rootfs does not resolve, or the session does not start.
SetupFails ==
  /\ worker = "setup" /\ worker' = "failed"
  /\ UNCHANGED <<session, handle, stopping, taken, chan, loop, client, got>>

SessionStarts ==
  /\ worker = "setup" /\ worker' = "started"
  /\ vm' = "running" /\ capture' = "open"
  /\ UNCHANGED <<handle, stopping, printed, captured, taken, chan, loop, client, got>>

PublishHandle ==
  /\ worker = "started" /\ worker' = "streaming"
  /\ handle' = TRUE
  /\ UNCHANGED <<session, stopping, taken, chan, loop, client, got>>

\* A numbered chunk stands for the text that its bytes become, read by read, in
\* the lossy conversion: what that text is, is module Output's matter.
TakeChunk ==
  /\ worker = "streaming" /\ taken < captured
  /\ worker' = "sending"
  /\ taken' = taken + 1
  /\ UNCHANGED <<session, handle, stopping, chan, loop, client, got>>

\* blocking_send.  It fails only on a dropped receiver, and the receiver
\* lives as long as the task that awaits the worker.
SendChunk ==
  /\ worker = "sending" /\ Len(chan) < Cap
  /\ worker' = "streaming"
  /\ chan' = Append(chan, taken)
  /\ UNCHANGED <<session, handle, stopping, taken, loop, client, got>>

\* The chunks are over, which needs the session to have ended: session.wait()
\* then returns at once.
OutputDrained ==
  /\ worker = "streaming" /\ taken = captured /\ capture = "closed"
  /\ worker' = "exiting"
  /\ UNCHANGED <<session, handle, stopping, taken, chan, loop, client, got>>

SendExit ==
  /\ worker = "exiting" /\ Len(chan) < Cap
  /\ worker' = "done"
  /\ chan' = Append(chan, Exit)
  /\ UNCHANGED <<session, handle, stopping, taken, loop, client, got>>

-----------------------------------------------------------------------------
(* The async task.                                                         *)

\* A frame is written to the client ...
Forward ==
  /\ loop = "recv" /\ chan # <<>> /\ client = "here"
  /\ chan' = Tail(chan)
  /\ got' = Append(got, Head(chan))
  /\ UNCHANGED <<session, worker, handle, stopping, taken, loop, client>>

\* ... or the write fails, and only so does the task learn of a hang-up.
ForwardFails ==
  /\ loop = "recv" /\ chan # <<>> /\ client = "gone"
  /\ chan' = Tail(chan)
  /\ loop' = "leaving"
  /\ UNCHANGED <<session, worker, handle, stopping, taken, client, got>>

\* The worker has returned, its sender is dropped, and the channel is empty.
ChannelClosed ==
  /\ loop = "recv" /\ chan = <<>> /\ worker \in {"done", "failed"}
  /\ loop' = "joining"
  /\ UNCHANGED <<session, worker, handle, stopping, taken, chan, client, got>>

\* Mutant: the task waits for the worker without stopping the VM.
LeaveRunning ==
  /\ loop = "leaving"
  /\ loop' = "joining"
  /\ UNCHANGED <<session, worker, handle, stopping, taken, chan, client, got>>

\* The client has gone: take the handle, stop the VM.
Leave ==
  /\ loop = "leaving"
  /\ loop' = "joining"
  /\ handle' = FALSE
  /\ stopping' = handle
  /\ UNCHANGED <<session, worker, taken, chan, client, got>>

\* worker.await; a set-up error becomes the closing frame.
Join ==
  /\ loop = "joining" /\ worker \in {"done", "failed"}
  /\ loop' = "over"
  /\ got' = IF worker = "failed" /\ client = "here" THEN Append(got, Fault) ELSE got
  /\ UNCHANGED <<session, worker, handle, stopping, taken, chan, client>>

HangUp ==
  /\ client = "here" /\ loop # "over"
  /\ client' = "gone"
  /\ UNCHANGED <<session, worker, handle, stopping, taken, chan, loop, got>>

Over == loop = "over" /\ UNCHANGED vars

-----------------------------------------------------------------------------
SessionStep == StopLands \/ CaptureReads \/ CaptureEnds
WorkerStep == SetupFails \/ SessionStarts \/ PublishHandle \/ TakeChunk \/ SendChunk
              \/ OutputDrained \/ SendExit
TaskStep == Forward \/ ForwardFails \/ ChannelClosed \/ Leave \/ Join

Next == GuestPrints \/ GuestEnds \/ SessionStep \/ WorkerStep \/ TaskStep
        \/ HangUp \/ Over

Spec == Init /\ [][Next]_vars

(* The threads and the task run, and a stop takes effect.  The guest need   *)
(* neither print nor end, nor the client hang up.                           *)
Fairness ==
  /\ WF_vars(StopLands) /\ WF_vars(CaptureReads) /\ WF_vars(CaptureEnds)
  /\ WF_vars(WorkerStep) /\ WF_vars(TaskStep)
FairSpec == Spec /\ Fairness

-----------------------------------------------------------------------------
(* Type invariant. *)
TypeOK ==
  /\ worker \in {"setup", "started", "streaming", "sending", "exiting", "done",
                 "failed"}
  /\ vm \in {"off", "running", "ended"}
  /\ handle \in BOOLEAN /\ stopping \in BOOLEAN
  /\ printed \in 0..MaxChunks /\ captured \in 0..printed /\ taken \in 0..captured
  /\ capture \in {"off", "open", "closed"}
  /\ chan \in Seq(0..MaxChunks) /\ Len(chan) <= Cap
  /\ loop \in {"recv", "leaving", "joining", "over"}
  /\ client \in {"here", "gone"}
  /\ got \in Seq(0..MaxChunks + 1)

(* A task that has learnt of a hang-up finds the stop handle published: no  *)
(* frame can reach it before run_workload_inproc's worker has stored the    *)
(* handle, so its take() never comes back empty with a VM left running.     *)
HangUpStopsVm ==
  loop = "joining" /\ worker \notin {"done", "failed"} => stopping

closed == got # <<>> /\ got[Len(got)] \in {Exit, Fault}
Stream == INSTANCE RunStream WITH
  closing <- IF ~closed THEN "open" ELSE IF got[Len(got)] = Exit THEN "exit" ELSE "error",
  seen <- IF closed THEN SubSeq(got, 1, Len(got) - 1) ELSE got

(* What the client is sent is the guest's output, in order, and the exit    *)
(* frame comes after the last of it (Session::capture_rx: "all trailing     *)
(* output is flushed").                                                     *)
ImplementsRunStream == Stream!Spec

(* A client that stays gets to the end of a run whose guest has ended. *)
RunReturns == vm = "ended" ~> loop = "over" \/ client = "gone"

(* A hang-up that was learnt of ends the VM. *)
LeaverStopsVm == loop = "leaving" ~> vm = "ended"
=============================================================================
