--------------------------- MODULE RequestsProofs ---------------------------
(* Proofs about what a client's request goes through: what a one-shot run   *)
(* sends, for any number of chunks and any channel, how the daemon is found *)
(* or started, for any number of processes, threads and daemons, what the   *)
(* tools report, for any number of calls and points, when a screen counts   *)
(* as settled, for any screen and any windows, and what is made of the      *)
(* guest's output, for any output and any reads.                            *)
EXTENDS MCRequests, Counting, FiniteSetTheorems, SequenceTheorems, TLAPS

-----------------------------------------------------------------------------
(* The run.  Pipeline orders the ends of the guest, of the capture thread   *)
(* and of the worker; HandOver says that the stop handle is in its slot     *)
(* before a frame can be; Flow says that what was received and what is in   *)
(* the channel are, one after the other, the frames sent.                   *)

Done == {"done", "failed"}

\* Chunks and frames sent on the channel so far, and the k-th frame when
\* n chunks are.
Sent    == IF worker = "sending" THEN taken - 1 ELSE taken
Total   == IF worker = "done" THEN Sent + 1 ELSE Sent
Item(n, k) == IF k <= n THEN k ELSE Exit

\* Who has ended by when.
Pipeline ==
  /\ worker \in {"setup", "failed"} => vm = "off"
  /\ vm = "off" => printed = 0
  /\ worker = "started" => taken = 0
  /\ worker = "sending" => taken >= 1
  /\ capture = "closed" => vm = "ended" /\ captured = printed
  /\ worker \in {"exiting", "done"} => capture = "closed" /\ taken = captured

\* The task acts on a frame, and there is none before the handle is stored.
HandOver ==
  /\ worker \in {"setup", "started"} => loop = "recv"
  /\ worker = "failed" => loop # "leaving"
  /\ worker \in {"streaming", "sending", "exiting", "done"} /\ loop \in {"recv", "leaving"} => handle
  /\ loop = "over" => worker \in Done

\* The channel holds the last frames sent.
InChannel ==
  /\ Len(chan) <= Total
  /\ \A i \in 1..Len(chan) : chan[i] = Item(Sent, Total - Len(chan) + i)

\* The run could not be set up, and the client was told.
Aborted == worker = "failed" /\ loop = "over" /\ got = <<Fault>>

\* What was received is the first frames sent; InStep: the channel has the rest.
Delivered ==
  Aborted \/ /\ Len(got) <= Total
             /\ \A i \in 1..Len(got) : got[i] = Item(Sent, i)

InStep == loop = "recv" /\ client = "here" => Len(got) + Len(chan) = Total

\* The assumptions on the constants, for the solver.
LEMMA RunConstants ==
  /\ MaxChunks \in Nat /\ Cap \in Nat \ {0}
  /\ Exit \in 0..MaxChunks /\ Exit = 0 /\ Fault = MaxChunks + 1
BY RunLaneAssumption DEF RunLaneAssumption, Exit, Fault

\* The initial states are typed.
LEMMA RunTypeInit == Init => TypeOK
<1> SUFFICES ASSUME Init PROVE TypeOK
  OBVIOUS
<1>1. chan \in Seq(0..MaxChunks) /\ Len(chan) <= Cap
  BY RunConstants, EmptySeq DEF Init
<1>2. got \in Seq(0..MaxChunks + 1)
  BY EmptySeq DEF Init
<1>3. /\ worker = "setup" /\ vm = "off" /\ handle = FALSE /\ stopping = FALSE
      /\ printed = 0 /\ captured = 0 /\ capture = "off" /\ taken = 0
      /\ loop = "recv" /\ client = "here"
  BY DEF Init
<1>4. printed \in 0..MaxChunks /\ captured \in 0..printed /\ taken \in 0..captured
  BY <1>3, RunConstants
<1> QED BY <1>1, <1>2, <1>3, <1>4 DEF TypeOK

\* Every step keeps the types.
LEMMA RunTypeStep == ASSUME TypeOK, [Next]_vars PROVE TypeOK'
<1> USE RunConstants DEF TypeOK
<1>1. CASE GuestPrints
  BY <1>1 DEF GuestPrints, session
<1>2. CASE GuestEnds
  BY <1>2 DEF GuestEnds, session
<1>3. CASE StopLands
  BY <1>3 DEF StopLands, session
<1>4. CASE CaptureReads
  BY <1>4 DEF CaptureReads, session
<1>5. CASE CaptureEnds
  BY <1>5 DEF CaptureEnds, session
<1>6. CASE SetupFails
  BY <1>6 DEF SetupFails, session
<1>7. CASE SessionStarts
  BY <1>7 DEF SessionStarts, session
<1>8. CASE PublishHandle
  BY <1>8 DEF PublishHandle, session
<1>9. CASE TakeChunk
  BY <1>9 DEF TakeChunk, session
<1>10. CASE SendChunk
  <2>1. taken \in 0..MaxChunks
    OBVIOUS
  <2>2. chan' \in Seq(0..MaxChunks) /\ Len(chan') = Len(chan) + 1
    BY <1>10, <2>1, AppendProperties DEF SendChunk
  <2>3. Len(chan) < Cap /\ Len(chan) \in Nat
    BY <1>10 DEF SendChunk
  <2> QED BY <1>10, <2>2, <2>3 DEF SendChunk, session
<1>11. CASE OutputDrained
  BY <1>11 DEF OutputDrained, session
<1>12. CASE SendExit
  <2>1. chan' \in Seq(0..MaxChunks) /\ Len(chan') = Len(chan) + 1
    BY <1>12, AppendProperties DEF SendExit
  <2>2. Len(chan) < Cap /\ Len(chan) \in Nat
    BY <1>12 DEF SendExit
  <2> QED BY <1>12, <2>1, <2>2 DEF SendExit, session
<1>13. CASE Forward
  <2>1. /\ chan' \in Seq(0..MaxChunks) /\ Len(chan') <= Cap
        /\ Head(chan) \in 0..MaxChunks + 1
    BY <1>13, HeadTailProperties DEF Forward
  <2>2. got' \in Seq(0..MaxChunks + 1)
    BY <1>13, <2>1, AppendProperties DEF Forward
  <2> QED BY <1>13, <2>1, <2>2 DEF Forward, session
<1>14. CASE ForwardFails
  <2>1. chan' \in Seq(0..MaxChunks) /\ Len(chan') <= Cap
    BY <1>14, HeadTailProperties DEF ForwardFails
  <2> QED BY <1>14, <2>1 DEF ForwardFails, session
<1>15. CASE ChannelClosed
  BY <1>15 DEF ChannelClosed, session
<1>16. CASE Leave
  BY <1>16 DEF Leave, session
<1>17. CASE Join
  <2>1. got' \in Seq(0..MaxChunks + 1)
    <3>1. Append(got, Fault) \in Seq(0..MaxChunks + 1)
      <4>1. Fault \in 0..MaxChunks + 1
        OBVIOUS
      <4> QED BY <4>1, AppendProperties
    <3> QED BY <1>17, <3>1 DEF Join
  <2> QED BY <1>17, <2>1 DEF Join, session
<1>18. CASE HangUp
  BY <1>18 DEF HangUp, session
<1>19. CASE UNCHANGED vars
  BY <1>19 DEF vars
<1> QED BY <1>1, <1>2, <1>3, <1>4, <1>5, <1>6, <1>7, <1>8, <1>9, <1>10, <1>11, <1>12, <1>13, <1>14, <1>15, <1>16, <1>17, <1>18, <1>19
        DEF Next, SessionStep, WorkerStep, TaskStep, Over

\* Every step keeps Pipeline.
LEMMA PipelineStep == ASSUME TypeOK, Pipeline, [Next]_vars PROVE Pipeline'
<1> USE DEF TypeOK, Pipeline
<1>1. CASE GuestPrints
  BY <1>1 DEF GuestPrints, session
<1>2. CASE GuestEnds
  BY <1>2 DEF GuestEnds, session
<1>3. CASE StopLands
  BY <1>3 DEF StopLands, session
<1>4. CASE CaptureReads
  BY <1>4 DEF CaptureReads, session
<1>5. CASE CaptureEnds
  BY <1>5 DEF CaptureEnds, session
<1>6. CASE SetupFails
  BY <1>6 DEF SetupFails, session
<1>7. CASE SessionStarts
  BY <1>7 DEF SessionStarts, session
<1>8. CASE PublishHandle
  BY <1>8 DEF PublishHandle, session
<1>9. CASE TakeChunk
  BY <1>9 DEF TakeChunk, session
<1>10. CASE SendChunk
  BY <1>10 DEF SendChunk, session
<1>11. CASE OutputDrained
  BY <1>11 DEF OutputDrained, session
<1>12. CASE SendExit
  BY <1>12 DEF SendExit, session
<1>13. CASE Forward
  BY <1>13 DEF Forward, session
<1>14. CASE ForwardFails
  BY <1>14 DEF ForwardFails, session
<1>15. CASE ChannelClosed
  BY <1>15 DEF ChannelClosed, session
<1>16. CASE Leave
  BY <1>16 DEF Leave, session
<1>17. CASE Join
  BY <1>17 DEF Join, session
<1>18. CASE HangUp
  BY <1>18 DEF HangUp, session
<1>19. CASE UNCHANGED vars
  BY <1>19 DEF vars
<1> QED BY <1>1, <1>2, <1>3, <1>4, <1>5, <1>6, <1>7, <1>8, <1>9, <1>10, <1>11, <1>12, <1>13, <1>14, <1>15, <1>16, <1>17, <1>18, <1>19
        DEF Next, SessionStep, WorkerStep, TaskStep, Over

\* Every step keeps HandOver and HangUpStopsVm: a frame that fails came from
\* a worker that is past PublishHandle.
LEMMA HandOverStep ==
  ASSUME TypeOK, HandOver, HangUpStopsVm, InChannel, Pipeline, [Next]_vars
  PROVE  HandOver' /\ HangUpStopsVm'
<1> USE DEF HandOver, HangUpStopsVm, Done
<1>1. CASE GuestPrints
  BY <1>1 DEF GuestPrints, session
<1>2. CASE GuestEnds
  BY <1>2 DEF GuestEnds, session
<1>3. CASE StopLands
  BY <1>3 DEF StopLands, session
<1>4. CASE CaptureReads
  BY <1>4 DEF CaptureReads, session
<1>5. CASE CaptureEnds
  BY <1>5 DEF CaptureEnds, session
<1>6. CASE SetupFails
  BY <1>6 DEF SetupFails, session
<1>7. CASE SessionStarts
  BY <1>7 DEF SessionStarts, session
<1>8. CASE PublishHandle
  BY <1>8 DEF PublishHandle, session
<1>9. CASE TakeChunk
  BY <1>9 DEF TakeChunk, session
<1>10. CASE SendChunk
  BY <1>10 DEF SendChunk, session
<1>11. CASE OutputDrained
  BY <1>11 DEF OutputDrained, session
<1>12. CASE SendExit
  BY <1>12 DEF SendExit, session
<1>13. CASE Forward
  BY <1>13 DEF Forward, session
<1>14. CASE ForwardFails
  <2>1. worker \in {"setup", "started", "failed"} => chan = <<>>
    <3>1. worker \in {"setup", "started", "failed"} => taken = 0
      BY DEF TypeOK, Pipeline
    <3>2. worker \in {"setup", "started", "failed"} => Len(chan) = 0
      BY <3>1 DEF TypeOK, InChannel, Total, Sent
    <3> QED BY <3>2, EmptySeq DEF TypeOK
  <2> QED BY <1>14, <2>1 DEF ForwardFails, session
<1>15. CASE ChannelClosed
  BY <1>15 DEF ChannelClosed, session
<1>16. CASE Leave
  BY <1>16 DEF Leave, session, TypeOK
<1>17. CASE Join
  BY <1>17 DEF Join, session
<1>18. CASE HangUp
  BY <1>18 DEF HangUp, session
<1>19. CASE UNCHANGED vars
  BY <1>19 DEF vars
<1> QED BY <1>1, <1>2, <1>3, <1>4, <1>5, <1>6, <1>7, <1>8, <1>9, <1>10, <1>11, <1>12, <1>13, <1>14, <1>15, <1>16, <1>17, <1>18, <1>19
        DEF Next, SessionStep, WorkerStep, TaskStep, Over

Flow == InChannel /\ Delivered /\ InStep

\* Lengths and positions are numbers.
LEMMA FlowTyped == TypeOK /\ Pipeline => /\ Sent \in Nat /\ Total \in Nat /\ taken \in Nat
                                        /\ Len(chan) \in Nat /\ Len(got) \in Nat
<1> SUFFICES ASSUME TypeOK, Pipeline PROVE /\ Sent \in Nat /\ Total \in Nat /\ taken \in Nat
                                           /\ Len(chan) \in Nat /\ Len(got) \in Nat
  OBVIOUS
<1>1. taken \in Nat /\ (worker = "sending" => taken >= 1)
  BY RunConstants DEF TypeOK, Pipeline
<1>2. Len(chan) \in Nat /\ Len(got) \in Nat
  BY LenProperties DEF TypeOK
<1> QED BY <1>1, <1>2 DEF Sent, Total

\* Nothing is sent or received.
LEMMA FlowKept ==
  ASSUME Flow, UNCHANGED <<chan, got>>, Sent' = Sent, Total' = Total,
         loop' = "recv" /\ client' = "here" => loop = "recv" /\ client = "here",
         Aborted => Aborted'
  PROVE  Flow'
<1>1. InChannel'
  BY DEF Flow, InChannel, Item
<1>2. Delivered'
  BY DEF Flow, Delivered, Item
<1>3. InStep'
  BY DEF Flow, InStep
<1> QED BY <1>1, <1>2, <1>3 DEF Flow

\* A frame e goes in.
LEMMA FlowSent ==
  ASSUME TypeOK, Pipeline, Flow, NEW e \in 0..MaxChunks,
         chan' = Append(chan, e), UNCHANGED <<got, loop, client>>,
         Total' = Total + 1, e = Item(Sent', Total + 1), \A k \in 1..Total : Item(Sent', k) = Item(Sent, k),
         worker # "failed"
  PROVE  Flow'
<1>1. /\ Len(chan') = Len(chan) + 1 /\ chan'[Len(chan) + 1] = e
      /\ \A i \in 1..Len(chan) : chan'[i] = chan[i]
  BY AppendProperties DEF TypeOK
<1>2. Total \in Nat /\ Len(chan) \in Nat /\ Len(got) \in Nat
  BY FlowTyped
<1>3. InChannel'
  <2>1. Len(chan) <= Total /\ \A i \in 1..Len(chan) : chan[i] = Item(Sent, Total - Len(chan) + i)
    BY DEF Flow, InChannel
  <2>2. Len(chan') <= Total'
    BY <1>1, <1>2, <2>1
  <2>3. ASSUME NEW i \in 1..Len(chan') PROVE chan'[i] = Item(Sent', Total' - Len(chan') + i)
    <3>1. Total' - Len(chan') + i = Total - Len(chan) + i
      BY <1>1, <1>2
    <3>2. CASE i = Len(chan) + 1
      <4>1. Total - Len(chan) + i = Total + 1
        BY <1>2, <3>2
      <4> QED BY <1>1, <3>1, <3>2, <4>1 DEF Item
    <3>3. CASE i \in 1..Len(chan)
      <4>1. Total - Len(chan) + i \in 1..Total
        BY <1>2, <2>1, <3>3
      <4>2. Item(Sent', Total - Len(chan) + i) = Item(Sent, Total - Len(chan) + i)
        BY <4>1, <1>2
      <4> QED BY <1>1, <2>1, <3>1, <3>3, <4>2 DEF Item
    <3> QED BY <1>1, <1>2, <3>2, <3>3
  <2> QED BY <2>2, <2>3 DEF InChannel
<1>4. Delivered'
  <2>1. Len(got) <= Total /\ \A i \in 1..Len(got) : got[i] = Item(Sent, i)
    BY DEF Flow, Delivered, Aborted
  <2> QED BY <1>2, <2>1 DEF Delivered
<1>5. InStep'
  BY <1>1, <1>2 DEF Flow, InStep
<1> QED BY <1>3, <1>4, <1>5 DEF Flow

\* The first frame comes out.
LEMMA ChannelShorter ==
  ASSUME TypeOK, Pipeline, InChannel, chan # <<>>, chan' = Tail(chan),
         UNCHANGED <<worker, taken>>
  PROVE  InChannel' /\ Head(chan) = Item(Sent, Total - Len(chan) + 1) /\ Len(chan') = Len(chan) - 1
<1>1. /\ Len(chan') = Len(chan) - 1
      /\ \A i \in 1..Len(chan') : chan'[i] = chan[i + 1]
  BY HeadTailProperties DEF TypeOK
<1>2. Total \in Nat /\ Len(chan) \in Nat \ {0} /\ Total' = Total /\ Sent' = Sent
  BY FlowTyped, EmptySeq DEF TypeOK, Total, Sent
<1>3. Head(chan) = chan[1]
  BY DEF TypeOK
<1>4. ASSUME NEW i \in 1..Len(chan') PROVE chan'[i] = Item(Sent', Total' - Len(chan') + i)
  <2>1. i + 1 \in 1..Len(chan) /\ Total' - Len(chan') + i = Total - Len(chan) + (i + 1)
    BY <1>1, <1>2
  <2> QED BY <1>1, <1>2, <2>1 DEF InChannel, Item
<1> QED BY <1>1, <1>2, <1>3, <1>4 DEF InChannel

\* Every step keeps Flow.
LEMMA FlowStep == ASSUME TypeOK, Pipeline, HandOver, Flow, [Next]_vars PROVE Flow'
<1>1. CASE GuestPrints
  <2>1. UNCHANGED <<chan, got>> /\ Sent' = Sent /\ Total' = Total
    BY <1>1, FlowTyped DEF GuestPrints, session, Sent, Total
  <2>2. /\ loop' = "recv" /\ client' = "here" => loop = "recv" /\ client = "here"
        /\ Aborted => Aborted'
    BY <1>1 DEF GuestPrints, session, Aborted
  <2> QED BY <2>1, <2>2, FlowKept
<1>2. CASE GuestEnds
  <2>1. UNCHANGED <<chan, got>> /\ Sent' = Sent /\ Total' = Total
    BY <1>2, FlowTyped DEF GuestEnds, session, Sent, Total
  <2>2. /\ loop' = "recv" /\ client' = "here" => loop = "recv" /\ client = "here"
        /\ Aborted => Aborted'
    BY <1>2 DEF GuestEnds, session, Aborted
  <2> QED BY <2>1, <2>2, FlowKept
<1>3. CASE StopLands
  <2>1. UNCHANGED <<chan, got>> /\ Sent' = Sent /\ Total' = Total
    BY <1>3, FlowTyped DEF StopLands, session, Sent, Total
  <2>2. /\ loop' = "recv" /\ client' = "here" => loop = "recv" /\ client = "here"
        /\ Aborted => Aborted'
    BY <1>3 DEF StopLands, session, Aborted
  <2> QED BY <2>1, <2>2, FlowKept
<1>4. CASE CaptureReads
  <2>1. UNCHANGED <<chan, got>> /\ Sent' = Sent /\ Total' = Total
    BY <1>4, FlowTyped DEF CaptureReads, session, Sent, Total
  <2>2. /\ loop' = "recv" /\ client' = "here" => loop = "recv" /\ client = "here"
        /\ Aborted => Aborted'
    BY <1>4 DEF CaptureReads, session, Aborted
  <2> QED BY <2>1, <2>2, FlowKept
<1>5. CASE CaptureEnds
  <2>1. UNCHANGED <<chan, got>> /\ Sent' = Sent /\ Total' = Total
    BY <1>5, FlowTyped DEF CaptureEnds, session, Sent, Total
  <2>2. /\ loop' = "recv" /\ client' = "here" => loop = "recv" /\ client = "here"
        /\ Aborted => Aborted'
    BY <1>5 DEF CaptureEnds, session, Aborted
  <2> QED BY <2>1, <2>2, FlowKept
<1>6. CASE SetupFails
  <2>1. UNCHANGED <<chan, got>> /\ Sent' = Sent /\ Total' = Total
    BY <1>6, FlowTyped DEF SetupFails, session, Sent, Total
  <2>2. /\ loop' = "recv" /\ client' = "here" => loop = "recv" /\ client = "here"
        /\ Aborted => Aborted'
    BY <1>6 DEF SetupFails, session, Aborted
  <2> QED BY <2>1, <2>2, FlowKept
<1>7. CASE SessionStarts
  <2>1. UNCHANGED <<chan, got>> /\ Sent' = Sent /\ Total' = Total
    BY <1>7, FlowTyped DEF SessionStarts, session, Sent, Total
  <2>2. /\ loop' = "recv" /\ client' = "here" => loop = "recv" /\ client = "here"
        /\ Aborted => Aborted'
    BY <1>7 DEF SessionStarts, session, Aborted
  <2> QED BY <2>1, <2>2, FlowKept
<1>8. CASE PublishHandle
  <2>1. UNCHANGED <<chan, got>> /\ Sent' = Sent /\ Total' = Total
    BY <1>8, FlowTyped DEF PublishHandle, session, Sent, Total
  <2>2. /\ loop' = "recv" /\ client' = "here" => loop = "recv" /\ client = "here"
        /\ Aborted => Aborted'
    BY <1>8 DEF PublishHandle, session, Aborted
  <2> QED BY <2>1, <2>2, FlowKept
<1>9. CASE TakeChunk
  <2>1. UNCHANGED <<chan, got>> /\ Sent' = Sent /\ Total' = Total
    BY <1>9, FlowTyped DEF TakeChunk, session, Sent, Total
  <2>2. /\ loop' = "recv" /\ client' = "here" => loop = "recv" /\ client = "here"
        /\ Aborted => Aborted'
    BY <1>9 DEF TakeChunk, session, Aborted
  <2> QED BY <2>1, <2>2, FlowKept
<1>10. CASE SendChunk
  <2>1. taken \in 0..MaxChunks /\ taken \in Nat /\ taken >= 1
    BY <1>10, RunConstants DEF SendChunk, TypeOK, Pipeline
  <2>2. /\ worker = "sending" /\ worker' = "streaming" /\ taken' = taken
        /\ UNCHANGED <<got, loop, client>> /\ chan' = Append(chan, taken)
    BY <1>10 DEF SendChunk
  <2>3. Sent = taken - 1 /\ Total = taken - 1 /\ Sent' = taken /\ Total' = taken
    BY <2>2 DEF Sent, Total
  <2>4. Total' = Total + 1 /\ taken = Item(Sent', Total + 1) /\ \A k \in 1..Total : Item(Sent', k) = Item(Sent, k)
    BY <2>1, <2>3 DEF Item
  <2> QED BY <2>1, <2>2, <2>4, FlowSent
<1>11. CASE OutputDrained
  <2>1. UNCHANGED <<chan, got>> /\ Sent' = Sent /\ Total' = Total
    BY <1>11, FlowTyped DEF OutputDrained, session, Sent, Total
  <2>2. /\ loop' = "recv" /\ client' = "here" => loop = "recv" /\ client = "here"
        /\ Aborted => Aborted'
    BY <1>11 DEF OutputDrained, session, Aborted
  <2> QED BY <2>1, <2>2, FlowKept
<1>12. CASE SendExit
  <2>1. taken \in Nat /\ Exit \in 0..MaxChunks
    BY FlowTyped, RunConstants
  <2>2. /\ worker = "exiting" /\ worker' = "done" /\ taken' = taken
        /\ UNCHANGED <<got, loop, client>> /\ chan' = Append(chan, Exit)
    BY <1>12 DEF SendExit
  <2>3. Sent = taken /\ Total = taken /\ Sent' = taken /\ Total' = taken + 1
    BY <2>2 DEF Sent, Total
  <2>4. Total' = Total + 1 /\ Exit = Item(Sent', Total + 1) /\ \A k \in 1..Total : Item(Sent', k) = Item(Sent, k)
    BY <2>1, <2>3 DEF Item
  <2> QED BY <2>1, <2>2, <2>4, FlowSent
<1>13. CASE Forward
  <2>1. /\ chan # <<>> /\ chan' = Tail(chan) /\ UNCHANGED <<worker, taken, loop, client>>
        /\ loop = "recv" /\ client = "here" /\ got' = Append(got, Head(chan))
    BY <1>13 DEF Forward
  <2>2. InChannel' /\ Head(chan) = Item(Sent, Total - Len(chan) + 1) /\ Len(chan') = Len(chan) - 1
    BY <2>1, ChannelShorter DEF Flow
  <2>3. /\ Len(got') = Len(got) + 1 /\ got'[Len(got) + 1] = Head(chan)
        /\ \A i \in 1..Len(got) : got'[i] = got[i]
    <3>1. Head(chan) \in 0..MaxChunks + 1
      <4>1. Head(chan) \in 0..MaxChunks
        BY <2>1, HeadTailProperties DEF TypeOK
      <4> QED BY <4>1, RunConstants
    <3> QED BY <2>1, <3>1, AppendProperties DEF TypeOK
  <2>4. /\ Total \in Nat /\ Len(chan) \in Nat \ {0} /\ Len(got) \in Nat
        /\ Total' = Total /\ Sent' = Sent /\ Len(got) + Len(chan) = Total
    BY <2>1, FlowTyped, EmptySeq DEF TypeOK, Total, Sent, Flow, InStep
  <2>5. Head(chan) = Item(Sent, Len(got) + 1)
    <3>1. Total - Len(chan) + 1 = Len(got) + 1
      BY <2>4
    <3> QED BY <2>2, <3>1
  <2>6. \A i \in 1..Len(got) : got[i] = Item(Sent, i)
    BY <2>1 DEF Flow, Delivered, Aborted
  <2>7. Delivered'
    <3>1. \A i \in 1..Len(got') : got'[i] = Item(Sent, i)
      BY <2>3, <2>4, <2>5, <2>6
    <3>2. \A i \in 1..Len(got') : got'[i] = Item(Sent', i)
      BY <2>4, <3>1 DEF Item
    <3> QED BY <2>3, <2>4, <3>2 DEF Delivered
  <2>8. InStep'
    BY <2>2, <2>3, <2>4 DEF InStep
  <2> QED BY <2>2, <2>7, <2>8 DEF Flow
<1>14. CASE ForwardFails
  <2>1. /\ chan # <<>> /\ chan' = Tail(chan) /\ UNCHANGED <<worker, taken, client, got>>
        /\ loop = "recv" /\ loop' = "leaving"
    BY <1>14 DEF ForwardFails
  <2>2. InChannel'
    BY <2>1, ChannelShorter DEF Flow
  <2>3. Delivered'
    BY <2>1 DEF Flow, Delivered, Aborted, Total, Sent, Item
  <2> QED BY <2>1, <2>2, <2>3 DEF Flow, InStep
<1>15. CASE ChannelClosed
  <2>1. UNCHANGED <<chan, got>> /\ Sent' = Sent /\ Total' = Total
    BY <1>15, FlowTyped DEF ChannelClosed, session, Sent, Total
  <2>2. /\ loop' = "recv" /\ client' = "here" => loop = "recv" /\ client = "here"
        /\ Aborted => Aborted'
    BY <1>15 DEF ChannelClosed, session, Aborted
  <2> QED BY <2>1, <2>2, FlowKept
<1>16. CASE Leave
  <2>1. UNCHANGED <<chan, got>> /\ Sent' = Sent /\ Total' = Total
    BY <1>16, FlowTyped DEF Leave, session, Sent, Total
  <2>2. /\ loop' = "recv" /\ client' = "here" => loop = "recv" /\ client = "here"
        /\ Aborted => Aborted'
    BY <1>16 DEF Leave, session, Aborted
  <2> QED BY <2>1, <2>2, FlowKept
<1>17. CASE Join
  <2>1. /\ loop = "joining" /\ loop' = "over" /\ UNCHANGED <<worker, taken, chan, client>>
        /\ got' = IF worker = "failed" /\ client = "here" THEN Append(got, Fault) ELSE got
    BY <1>17 DEF Join
  <2>2. InChannel'
    BY <2>1 DEF Flow, InChannel, Total, Sent, Item
  <2>3. CASE got' = got
    BY <2>1, <2>2, <2>3 DEF Flow, InStep, Delivered, Aborted, Total, Sent, Item
  <2>4. CASE worker = "failed" /\ got' = Append(got, Fault)
    <3>1. taken = 0 /\ Len(got) = 0
      <4>1. taken = 0
        BY <2>4, RunConstants DEF TypeOK, Pipeline
      <4>2. Len(got) <= Total /\ Total = 0
        BY <2>1, <2>4, <4>1 DEF Flow, Delivered, Aborted, Total, Sent
      <4> QED BY <4>1, <4>2, FlowTyped
    <3>2. got = <<>>
      BY <3>1, EmptySeq DEF TypeOK
    <3>3. got' = <<Fault>>
      BY <2>4, <3>2
    <3> QED BY <2>1, <2>2, <2>4, <3>3 DEF Flow, InStep, Delivered, Aborted
  <2> QED BY <2>1, <2>3, <2>4
<1>18. CASE HangUp
  <2>1. UNCHANGED <<chan, got>> /\ Sent' = Sent /\ Total' = Total
    BY <1>18, FlowTyped DEF HangUp, session, Sent, Total
  <2>2. /\ loop' = "recv" /\ client' = "here" => loop = "recv" /\ client = "here"
        /\ Aborted => Aborted'
    BY <1>18 DEF HangUp, session, Aborted
  <2> QED BY <2>1, <2>2, FlowKept
<1>19. CASE UNCHANGED vars
  BY <1>19, FlowKept DEF vars, Sent, Total, Aborted
<1> QED BY <1>1, <1>2, <1>3, <1>4, <1>5, <1>6, <1>7, <1>8, <1>9, <1>10, <1>11, <1>12, <1>13, <1>14, <1>15, <1>16, <1>17, <1>18, <1>19
        DEF Next, SessionStep, WorkerStep, TaskStep, Over

\* The parts together are inductive.
RunInv == TypeOK /\ Pipeline /\ HandOver /\ HangUpStopsVm /\ Flow

LEMMA RunInit == Init => RunInv
<1> SUFFICES ASSUME Init PROVE RunInv
  OBVIOUS
<1>1. TypeOK
  BY RunTypeInit
<1>2. Pipeline /\ HandOver /\ HangUpStopsVm
  BY DEF Init, Pipeline, HandOver, HangUpStopsVm, Done
<1>3. Len(chan) = 0 /\ Len(got) = 0 /\ Sent = 0 /\ Total = 0
  BY EmptySeq DEF Init, Sent, Total
<1>4. Flow
  BY <1>3 DEF Flow, InChannel, Delivered, InStep
<1> QED BY <1>1, <1>2, <1>4 DEF RunInv

LEMMA RunStep == RunInv /\ [Next]_vars => RunInv'
BY RunTypeStep, PipelineStep, HandOverStep, FlowStep DEF RunInv, Flow

LEMMA RunInvariance == Spec => []RunInv
BY RunInit, RunStep, PTL DEF Spec

-----------------------------------------------------------------------------
(* Refinement of RunStream. *)
Seen    == IF closed THEN SubSeq(got, 1, Len(got) - 1) ELSE got
Closing == IF ~closed THEN "open" ELSE IF got[Len(got)] = Exit THEN "exit" ELSE "error"

\* What the client sees, by how far the frames have come.
RunReadings ==
  /\ Aborted => Closing = "error" /\ Seen = <<>>
  /\ ~Aborted /\ Len(got) <= Sent => Closing = "open" /\ Seen = got
  /\ ~Aborted /\ Len(got) > Sent => /\ worker = "done" /\ Closing = "exit"
                                   /\ Len(got) = Sent + 1 /\ Seen = SubSeq(got, 1, Sent)

\* The invariant decides what the client sees.
LEMMA RunRead == RunInv => RunReadings
<1> SUFFICES ASSUME RunInv PROVE RunReadings
  OBVIOUS
<1> USE RunConstants DEF RunInv
<1>0. Sent \in Nat /\ Total \in Nat /\ Len(got) \in Nat /\ Sent <= MaxChunks
  <2>1. taken \in 0..MaxChunks
    BY DEF TypeOK
  <2> QED BY <2>1, FlowTyped DEF Sent
<1>1. ASSUME Aborted PROVE Closing = "error" /\ Seen = <<>>
  <2>1. got = <<Fault>> /\ Len(got) = 1 /\ got[1] = Fault /\ Fault # Exit /\ got # <<>>
    BY <1>1 DEF Aborted
  <2>2. closed
    BY <2>1 DEF closed
  <2>3. SubSeq(got, 1, Len(got) - 1) = <<>>
    BY <2>1, SubSeqEmpty
  <2> QED BY <2>1, <2>2, <2>3 DEF Closing, Seen
<1>2. ASSUME ~Aborted, Len(got) <= Sent PROVE Closing = "open" /\ Seen = got
  <2>1. got # <<>> => got[Len(got)] = Len(got) /\ Len(got) \in 1..MaxChunks
    BY <1>0, <1>2, EmptySeq DEF Flow, Delivered, Item, TypeOK
  <2>2. ~closed
    BY <2>1 DEF closed
  <2> QED BY <2>2 DEF Closing, Seen
<1>3. ASSUME ~Aborted, Len(got) > Sent
      PROVE  /\ worker = "done" /\ Closing = "exit"
             /\ Len(got) = Sent + 1 /\ Seen = SubSeq(got, 1, Sent)
  <2>1. worker = "done" /\ Len(got) = Sent + 1
    BY <1>0, <1>3 DEF Flow, Delivered, Total
  <2>2. got[Len(got)] = Exit /\ got # <<>>
    <3>1. got[Len(got)] = Item(Sent, Len(got))
      BY <1>0, <1>3, <2>1 DEF Flow, Delivered
    <3>2. got # <<>>
      BY <1>0, <2>1, EmptySeq
    <3> QED BY <1>0, <2>1, <3>1, <3>2 DEF Item
  <2>3. closed
    BY <2>2 DEF closed
  <2>4. Len(got) - 1 = Sent
    BY <1>0, <2>1
  <2> QED BY <2>1, <2>2, <2>3, <2>4 DEF Closing, Seen
<1> QED BY <1>1, <1>2, <1>3 DEF RunReadings

\* A step of the run is one of the stream that the client sees, or none.
LEMMA StreamStep == RunInv /\ RunInv' /\ [Next]_vars => [Stream!Next]_(Stream!vars)
<1> DEFINE SEmit == /\ Closing = "open" /\ printed < MaxChunks /\ printed' = printed + 1
                    /\ UNCHANGED <<Seen, Closing>>
           SSend == /\ Closing = "open" /\ Len(Seen) < printed
                    /\ Seen' = Append(Seen, Len(Seen) + 1) /\ UNCHANGED <<printed, Closing>>
           SClose == /\ Closing = "open"
                     /\ \/ Closing' = "exit" /\ Len(Seen) = printed
                        \/ Closing' = "error" /\ printed = 0
                     /\ UNCHANGED <<printed, Seen>>
<1>0. RunInv' => RunReadings'
  BY RunRead, PTL
<1>2. RunInv /\ RunInv' /\ [Next]_vars => SEmit \/ SSend \/ SClose \/ UNCHANGED <<printed, Seen, Closing>>
  <2> SUFFICES ASSUME RunInv, RunInv', [Next]_vars
               PROVE  SEmit \/ SSend \/ SClose \/ UNCHANGED <<printed, Seen, Closing>>
    OBVIOUS
  <2>0. /\ Sent \in Nat /\ Total \in Nat /\ Len(got) \in Nat /\ taken \in 0..printed
        /\ printed \in 0..MaxChunks /\ MaxChunks \in Nat
    BY FlowTyped, RunConstants DEF RunInv, TypeOK
  <2>1. got' = got => UNCHANGED <<Seen, Closing>>
    BY DEF Seen, Closing, closed
  <2>2. CASE GuestPrints
    <3>1. /\ vm = "running" /\ got' = got /\ printed < MaxChunks /\ printed' = printed + 1
      BY <2>2 DEF GuestPrints
    <3>2. worker # "done" /\ ~Aborted
      BY <3>1 DEF RunInv, Pipeline, Aborted
    <3>3. Closing = "open"
      BY <2>0, <3>2, RunRead DEF RunReadings
    <3> QED BY <2>1, <3>1, <3>3
  <2>3. CASE Forward
    <3>1. /\ chan # <<>> /\ loop = "recv" /\ client = "here" /\ got' = Append(got, Head(chan))
          /\ UNCHANGED <<worker, taken, printed, loop>>
      BY <2>3 DEF Forward, session
    <3>2. ~Aborted /\ ~Aborted' /\ Sent' = Sent /\ Total' = Total
      BY <3>1 DEF Aborted, Sent, Total
    <3>3. /\ Len(got') = Len(got) + 1 /\ got' \in Seq(0..MaxChunks + 1)
          /\ \A i \in 1..Len(got) : got'[i] = got[i]
      <4>1. Head(chan) \in 0..MaxChunks + 1
        <5>1. Head(chan) \in 0..MaxChunks
          BY <3>1, HeadTailProperties DEF RunInv, TypeOK
        <5> QED BY <5>1, <2>0
      <4> QED BY <3>1, <4>1, AppendProperties DEF RunInv, TypeOK
    <3>4. Len(got') <= Total /\ got'[Len(got')] = Item(Sent, Len(got'))
      BY <2>0, <3>2, <3>3 DEF RunInv, Flow, Delivered
    <3>5. Len(got) <= Sent
      BY <2>0, <3>3, <3>4 DEF Total
    <3>6. Closing = "open" /\ Seen = got
      BY <3>2, <3>5, RunRead DEF RunReadings
    <3>7. CASE Len(got') <= Sent
      <4>1. Closing' = "open" /\ Seen' = got'
        BY <1>0, <3>2, <3>7 DEF RunReadings
      <4>2. got'[Len(got')] = Len(got) + 1 /\ Len(got) + 1 <= printed
        BY <2>0, <3>3, <3>4, <3>7 DEF Item, Sent
      <4>3. got' = Append(got, Len(got) + 1)
        BY <2>0, <3>1, <3>3, <4>2, AppendProperties DEF RunInv, TypeOK
      <4> QED BY <2>0, <3>1, <3>6, <4>1, <4>2, <4>3
    <3>8. CASE Len(got') > Sent
      <4>1. worker = "done" /\ Closing' = "exit" /\ Seen' = SubSeq(got', 1, Sent)
        BY <1>0, <3>1, <3>2, <3>8 DEF RunReadings
      <4>2. Len(got) = Sent /\ Sent = printed
        <5>1. Len(got) = Sent
          BY <2>0, <3>3, <3>5, <3>8
        <5>2. taken = printed /\ Sent = taken
          BY <4>1 DEF RunInv, Pipeline, Sent
        <5> QED BY <5>1, <5>2
      <4>3. Seen' = got
        <5>1. /\ SubSeq(got', 1, Sent) \in Seq(0..MaxChunks + 1)
              /\ Len(SubSeq(got', 1, Sent)) = Sent
              /\ \A i \in 1..Sent : SubSeq(got', 1, Sent)[i] = got'[i]
          <6>1. \A i \in 1..Sent : got'[i] \in 0..MaxChunks + 1
            BY <2>0, <3>3, <4>2, ElementOfSeq
          <6> QED BY <2>0, <6>1, SubSeqProperties
        <5> QED BY <3>3, <4>1, <4>2, <5>1, SeqEqual DEF RunInv, TypeOK
      <4> QED BY <3>1, <3>6, <4>1, <4>2, <4>3
    <3> QED BY <2>0, <3>3, <3>7, <3>8
  <2>4. CASE Join
    <3>1. CASE got' = got
      BY <2>1, <2>4, <3>1 DEF Join, session
    <3>2. CASE worker = "failed" /\ got' = Append(got, Fault)
      <4>1. printed = 0 /\ ~Aborted /\ printed' = printed
        BY <2>4, <3>2 DEF Join, session, RunInv, Pipeline, Aborted
      <4>2. Len(got) = 0 /\ Len(got) <= Sent
        BY <2>0, <3>2, <4>1 DEF RunInv, Flow, Delivered, Total, Sent
      <4>3. got = <<>>
        BY <4>2, EmptySeq DEF RunInv, TypeOK
      <4>4. Aborted'
        BY <2>4, <3>2, <4>3 DEF Join, Aborted
      <4>5. Closing = "open" /\ Seen = <<>> /\ Closing' = "error" /\ Seen' = <<>>
        BY <1>0, <4>1, <4>2, <4>3, <4>4, RunRead DEF RunReadings
      <4> QED BY <4>1, <4>5
    <3> QED BY <2>4, <3>1, <3>2 DEF Join
  <2>5. CASE GuestEnds \/ SessionStep \/ WorkerStep \/ ForwardFails \/ ChannelClosed \/ Leave
             \/ HangUp \/ UNCHANGED vars
    <3>1. UNCHANGED <<got, printed>>
      BY <2>5 DEF GuestEnds, SessionStep, StopLands, CaptureReads, CaptureEnds, WorkerStep,
        SetupFails, SessionStarts, PublishHandle, TakeChunk, SendChunk, OutputDrained, SendExit,
        ForwardFails, ChannelClosed, Leave, HangUp, session, vars
    <3> QED BY <2>1, <3>1
  <2> QED BY <2>2, <2>3, <2>4, <2>5 DEF Next, TaskStep, Over
<1>4. SEmit \/ SSend \/ SClose \/ UNCHANGED <<printed, Seen, Closing>>
        => [Stream!Next]_(Stream!vars)
  BY DEF Seen, Closing, Stream!Next, Stream!Emit, Stream!Send, Stream!Close, Stream!vars
<1> QED BY <1>2, <1>4

-----------------------------------------------------------------------------
(* The daemon.                                                              *)

\* Behind the spawn lock.
Inside(t) == place[t] \in {"recheck", "spawn", "poll"}

Waits(p) == \E t \in Threads : Home[t] = p /\ place[t] = "poll"

\* The daemons of a process that nobody else has cut off.
Mine(p) == {d \in AS!Serving : owner[d] # "none" /\ Home[owner[d]] = p}
Kept(p) == Mine(p) \ (robbed \cup strangers)

\* A thread behind the lock is alone there.
LockHeld == \A t \in Threads : Inside(t) => lock[Home[t]] = {t}

Owned ==
  /\ \A d \in AS!Daemons : daemon[d] = "unborn" <=> owner[d] = "none"
  /\ \A d \in AS!Daemons :
       path = d => daemon[d] \in {"listening", "draining", "gone"}

\* Such a daemon is at the path, or its starter still waits for it; there is
\* none when the next one is started.
KeptOnce ==
  \A p \in AS!Processes \ gaveUp :
    /\ \A d \in Kept(p) : place[owner[d]] = "poll" \/ (daemon[d] = "listening" /\ path = d)
    /\ \A t \in Threads : Home[t] = p =>
         /\ place[t] = "spawn" => Kept(p) = {}
         /\ place[t] = "poll" => \A d, e \in Kept(p) : d = e

\* Where only one process starts daemons, there is one at a time.
Lives == {d \in AS!Daemons : daemon[d] \in {"started", "cleared", "listening", "draining"}}
Alone(p) == \A d \in AS!Daemons : owner[d] # "none" => Home[owner[d]] = p
AloneOnce ==
  \A p \in AS!Processes \ gaveUp : Alone(p) =>
    /\ \A d, e \in Lives : d = e
    /\ \A d \in Lives : daemon[d] \in {"listening", "draining"} => path = d
    /\ Lives # {} /\ ~Waits(p) => \A d \in Lives : daemon[d] \in {"listening", "draining"}
    /\ \A t \in Threads : Home[t] = p /\ place[t] = "spawn" => Lives = {}

DaemonInv == AS!TypeOK /\ LockHeld /\ Owned /\ KeptOnce /\ AloneOnce
LEMMA DaemonConstants == MaxDaemons \in Nat /\ "none" \notin Threads
BY RequestsAssumption DEF AS!AutoStartAssumption

LEMMA DaemonInit == AS!Init => DaemonInv
<1> SUFFICES ASSUME AS!Init PROVE DaemonInv OBVIOUS
<1> USE DaemonConstants DEF AS!Init
<1>1. AS!TypeOK BY DEF AS!TypeOK
<1>2. LockHeld BY DEF LockHeld, Inside
<1>3. Owned BY DEF Owned, AS!Daemons
<1>4. AS!Serving = {} /\ Lives = {} BY DEF AS!Serving, Lives
<1>5. KeptOnce BY <1>4 DEF KeptOnce, Kept, Mine
<1>6. AloneOnce BY <1>4 DEF AloneOnce
<1>7. QED BY <1>1, <1>2, <1>3, <1>5, <1>6 DEF DaemonInv

\* What a daemon's step does: nobody else's place changes, and who is cut off
\* the path is noted.
LEMMA DaemonMoves ==
  ASSUME AS!TypeOK, NEW d \in AS!Daemons, AS!DaemonStep(d)
  PROVE  /\ UNCHANGED <<place, lock, owner, gaveUp, strangers>>
         /\ \A e \in AS!Daemons : e # d => daemon'[e] = daemon[e]
         /\ robbed \subseteq robbed' /\ robbed' \subseteq AS!Daemons
         /\ \A e \in AS!Daemons : e # d /\ path = e /\ path' # path /\ daemon[e] = "listening"
              => e \in robbed'
         /\ \/ daemon[d] = "started" /\ daemon'[d] = "cleared" /\ path' = 0
            \/ daemon[d] = "cleared" /\ path = 0 /\ daemon'[d] = "listening" /\ path' = d
            \/ daemon[d] = "listening" /\ daemon'[d] = "draining" /\ path' = path
            \/ daemon[d] = "draining" /\ daemon'[d] = "gone" /\ path' = 0
            \/ /\ daemon[d] \in {"started", "cleared", "listening", "draining"}
               /\ daemon'[d] = "gone" /\ path' = path
         /\ daemon' \in [AS!Daemons -> {"unborn", "started", "cleared", "listening",
                                        "draining", "gone"}]
<1> USE DaemonConstants DEF AS!TypeOK, AS!Daemons, AS!Goto, AS!Robs, AS!clients, AS!history
<1>1. CASE AS!RemoveStale(d) BY <1>1 DEF AS!RemoveStale
<1>2. CASE AS!Bind(d) BY <1>2 DEF AS!Bind
<1>3. CASE AS!SignalDaemon(d) BY <1>3 DEF AS!SignalDaemon
<1>4. CASE AS!RemoveSocket(d) BY <1>4 DEF AS!RemoveSocket
<1>5. CASE AS!CrashDaemon(d) BY <1>5 DEF AS!CrashDaemon
<1>6. QED BY <1>1, <1>2, <1>3, <1>4, <1>5 DEF AS!DaemonStep

LEMMA DaemonTyped ==
  ASSUME AS!TypeOK, AS!Next PROVE AS!TypeOK'
<1> USE DaemonConstants DEF AS!TypeOK, AS!Daemons
<1>0. ASSUME NEW t \in Threads,
             \/ lock' = lock
             \/ lock' = [lock EXCEPT ![Home[t]] = {t}]
             \/ lock' = [lock EXCEPT ![Home[t]] = @ \ {t}]
      PROVE  Home[t] \in AS!Processes /\ lock' \in [AS!Processes -> SUBSET Threads]
  <2>1. Home[t] \in AS!Processes BY DEF AS!Processes
  <2>2. {t} \in SUBSET Threads /\ lock[Home[t]] \ {t} \in SUBSET Threads BY <2>1
  <2>3. QED BY <1>0, <2>1, <2>2
<1>1. ASSUME NEW t \in Threads, AS!Connect(t) \/ AS!LockSpawn(t) PROVE AS!TypeOK'
  <2>1. lock' \in [AS!Processes -> SUBSET Threads]
    BY <1>0, <1>1 DEF AS!Connect, AS!LockSpawn
  <2>2. QED BY <1>1, <2>1
    DEF AS!Connect, AS!LockSpawn, AS!Connected, AS!daemons, AS!history
<1>2. ASSUME NEW t \in Threads, AS!Recheck(t) \/ AS!GiveUp(t) PROVE AS!TypeOK'
  <2>1. /\ Home[t] \in AS!Processes /\ lock' \in [AS!Processes -> SUBSET Threads]
    BY <1>0, <1>2 DEF AS!Recheck, AS!GiveUp, AS!Unlock
  <2>2. QED BY <1>2, <2>1
    DEF AS!Recheck, AS!GiveUp, AS!Connected, AS!daemons, AS!history
<1>3. ASSUME NEW t \in Threads, AS!Spawn(t) PROVE AS!TypeOK'
  BY <1>3 DEF AS!Spawn, AS!history
<1>4. ASSUME NEW t \in Threads, AS!Poll(t) PROVE AS!TypeOK'
  <2>1. lock' \in [AS!Processes -> SUBSET Threads] BY <1>0, <1>4 DEF AS!Poll, AS!Unlock
  <2>2. QED BY <1>4, <2>1 DEF AS!Poll, AS!Connected, AS!daemons
<1>5. ASSUME NEW d \in AS!Daemons, AS!DaemonStep(d) PROVE AS!TypeOK'
  <2>1. path' \in 0..MaxDaemons BY <1>5, DaemonMoves
  <2>2. QED BY <1>5, <2>1, DaemonMoves
<1>6. CASE AS!OutOfDaemons
  BY <1>6 DEF AS!OutOfDaemons, AS!vars, AS!clients, AS!daemons, AS!history
<1>7. QED BY <1>1, <1>2, <1>3, <1>4, <1>5, <1>6 DEF AS!Next, AS!ClientStep

LEMMA LockKept ==
  ASSUME AS!TypeOK, LockHeld, AS!Next PROVE LockHeld'
<1> USE DEF AS!TypeOK, AS!Processes, LockHeld, Inside
<1>1. ASSUME NEW t \in Threads, AS!ClientStep(t) PROVE LockHeld'
  BY <1>1
  DEF AS!ClientStep, AS!Connect, AS!LockSpawn, AS!Recheck, AS!Spawn, AS!Poll, AS!GiveUp,
      AS!Connected, AS!Unlock
<1>2. ASSUME NEW d \in AS!Daemons, AS!DaemonStep(d) PROVE LockHeld'
  BY <1>2
  DEF AS!DaemonStep, AS!RemoveStale, AS!Bind, AS!SignalDaemon, AS!RemoveSocket,
      AS!CrashDaemon, AS!clients
<1>3. CASE AS!OutOfDaemons BY <1>3 DEF AS!OutOfDaemons, AS!vars, AS!clients
<1>4. QED BY <1>1, <1>2, <1>3 DEF AS!Next

LEMMA OwnedKept ==
  ASSUME AS!TypeOK, Owned, AS!Next PROVE Owned'
<1> USE DaemonConstants DEF AS!TypeOK, Owned, AS!Daemons
<1>1. ASSUME NEW t \in Threads, AS!ClientStep(t) PROVE Owned'
  BY <1>1
  DEF AS!ClientStep, AS!Connect, AS!LockSpawn, AS!Recheck, AS!Spawn, AS!Poll, AS!GiveUp,
      AS!daemons
<1>2. ASSUME NEW d \in AS!Daemons, AS!DaemonStep(d) PROVE Owned'
  BY <1>2
  DEF AS!DaemonStep, AS!RemoveStale, AS!Bind, AS!SignalDaemon, AS!RemoveSocket,
      AS!CrashDaemon, AS!Goto
<1>3. CASE AS!OutOfDaemons BY <1>3 DEF AS!OutOfDaemons, AS!vars, AS!daemons
<1>4. QED BY <1>1, <1>2, <1>3 DEF AS!Next

\* Two threads of a process are not behind the lock together.
LEMMA Exclusive ==
  ASSUME LockHeld, NEW s \in Threads, NEW t \in Threads, Inside(s), Inside(t),
         Home[s] = Home[t]
  PROVE  s = t
BY DEF LockHeld
LEMMA KeptFacts ==
  ASSUME AS!TypeOK, Owned, NEW p
  PROVE  \A d : d \in Kept(p) <=>
           /\ d \in AS!Daemons /\ daemon[d] \in {"started", "cleared", "listening"}
           /\ owner[d] \in Threads /\ Home[owner[d]] = p
           /\ d \notin robbed /\ d \notin strangers
BY DEF Kept, Mine, AS!Serving, Owned, AS!TypeOK, AS!Daemons

LEMMA KeptFactsNext ==
  (AS!TypeOK /\ Owned =>
    \A p : \A d : d \in Kept(p) <=>
      /\ d \in AS!Daemons /\ daemon[d] \in {"started", "cleared", "listening"}
      /\ owner[d] \in Threads /\ Home[owner[d]] = p
      /\ d \notin robbed /\ d \notin strangers)'
<1>1. AS!TypeOK /\ Owned =>
        \A p : \A d : d \in Kept(p) <=>
          /\ d \in AS!Daemons /\ daemon[d] \in {"started", "cleared", "listening"}
          /\ owner[d] \in Threads /\ Home[owner[d]] = p
          /\ d \notin robbed /\ d \notin strangers
  BY KeptFacts
<1>2. QED BY <1>1, PTL

(* A daemon that is not cut off stays with its starter or at the path.      *)
LEMMA KeptOnceKept ==
  ASSUME AS!TypeOK, LockHeld, Owned, KeptOnce, AS!Next,
         AS!TypeOK', LockHeld', Owned'
  PROVE  KeptOnce'
<1> DEFINE Is(d, p) == /\ d \in AS!Daemons
                       /\ daemon[d] \in {"started", "cleared", "listening"}
                       /\ owner[d] \in Threads /\ Home[owner[d]] = p
                       /\ d \notin robbed /\ d \notin strangers
           IsNext(d, p) == /\ d \in AS!Daemons
                           /\ daemon'[d] \in {"started", "cleared", "listening"}
                           /\ owner'[d] \in Threads /\ Home[owner'[d]] = p
                           /\ d \notin robbed' /\ d \notin strangers'
<1>1. /\ \A p, d : d \in Kept(p) <=> Is(d, p)
      /\ \A p, d : d \in Kept(p)' <=> IsNext(d, p)
  BY KeptFacts, KeptFactsNext
<1> HIDE DEF Is, IsNext
<1> DEFINE Goal(p) ==
             /\ \A d : IsNext(d, p) =>
                  place'[owner'[d]] = "poll" \/ (daemon'[d] = "listening" /\ path' = d)
             /\ \A t \in Threads : Home[t] = p =>
                  /\ place'[t] = "spawn" => \A d : ~IsNext(d, p)
                  /\ place'[t] = "poll" => \A d, e : IsNext(d, p) /\ IsNext(e, p) => d = e
<1>2. SUFFICES ASSUME NEW p \in AS!Processes, p \notin gaveUp' PROVE Goal(p)
  BY <1>1 DEF KeptOnce
<1>3. /\ gaveUp \subseteq gaveUp' /\ p \notin gaveUp
      /\ \A d : Is(d, p) => place[owner[d]] = "poll" \/ (daemon[d] = "listening" /\ path = d)
      /\ \A t \in Threads : Home[t] = p =>
           /\ place[t] = "spawn" => \A d : ~Is(d, p)
           /\ place[t] = "poll" => \A d, e : Is(d, p) /\ Is(e, p) => d = e
  <2>1. gaveUp \subseteq gaveUp'
    <3>1. \A t \in Threads : AS!ClientStep(t) => gaveUp \subseteq gaveUp'
      BY DEF AS!ClientStep, AS!Connect, AS!LockSpawn, AS!Recheck, AS!Spawn, AS!Poll,
             AS!GiveUp, AS!history
    <3>2. \A d \in AS!Daemons : AS!DaemonStep(d) => gaveUp' = gaveUp BY DaemonMoves
    <3>3. AS!OutOfDaemons => gaveUp' = gaveUp
      BY DEF AS!OutOfDaemons, AS!vars, AS!history
    <3>4. QED BY <3>1, <3>2, <3>3 DEF AS!Next
  <2>2. p \in AS!Processes \ gaveUp BY <1>2, <2>1
  <2>3. /\ \A d \in Kept(p) : place[owner[d]] = "poll" \/ (daemon[d] = "listening" /\ path = d)
        /\ \A t \in Threads : Home[t] = p =>
             /\ place[t] = "spawn" => Kept(p) = {}
             /\ place[t] = "poll" => \A d, e \in Kept(p) : d = e
    BY <2>2 DEF KeptOnce
  <2>4. QED BY <1>1, <2>1, <2>2, <2>3
<1>4. ASSUME NEW t \in Threads, AS!Connect(t) \/ AS!LockSpawn(t) PROVE Goal(p)
  <2>1. /\ UNCHANGED <<daemon, owner, path, robbed, strangers>>
        /\ \A s \in Threads : s # t => place'[s] = place[s]
        /\ place[t] \notin {"spawn", "poll"} /\ place'[t] \notin {"spawn", "poll"}
    BY <1>4 DEF AS!Connect, AS!LockSpawn, AS!Connected, AS!daemons, AS!history, AS!TypeOK
  <2>2. QED BY <1>3, <2>1 DEF Is, IsNext
<1>5. ASSUME NEW t \in Threads, AS!Recheck(t) PROVE Goal(p)
  <2>1. /\ UNCHANGED <<daemon, owner, path, robbed, strangers>>
        /\ \A s \in Threads : s # t => place'[s] = place[s]
        /\ place[t] = "recheck" /\ place'[t] \in {"idle", "spawn"}
        /\ place'[t] = "spawn" => ~AS!Reachable
    BY <1>5 DEF AS!Recheck, AS!Connected, AS!daemons, AS!history, AS!TypeOK
  <2>2. ASSUME place'[t] = "spawn", Home[t] = p, NEW d, Is(d, p) PROVE FALSE
    <3>1. owner[d] \in Threads /\ Home[owner[d]] = p /\ d \in AS!Daemons
      BY <2>2 DEF Is
    <3>2. place[owner[d]] # "poll"
      BY <2>1, <2>2, <3>1, Exclusive DEF Inside
    <3>3. daemon[d] = "listening" /\ path = d BY <1>3, <2>2, <3>2
    <3>4. QED BY <2>1, <2>2, <3>1, <3>3 DEF AS!Reachable, AS!Bound
  <2>3. \A d : IsNext(d, p) <=> Is(d, p) BY <2>1 DEF Is, IsNext
  <2>4. \A d : Is(d, p) => owner[d] # t \/ place[t] # "poll" BY <2>1
  <2>5. QED BY <1>3, <2>1, <2>2, <2>3 DEF Is
<1>6. ASSUME NEW t \in Threads, AS!Spawn(t) PROVE Goal(p)
  <2>1. PICK n \in AS!Daemons :
          /\ daemon[n] = "unborn"
          /\ daemon' = [daemon EXCEPT ![n] = "started"] /\ owner' = [owner EXCEPT ![n] = t]
    BY <1>6 DEF AS!Spawn
  <2>2. /\ UNCHANGED <<path, robbed, strangers>> /\ place[t] = "spawn"
        /\ place' = [place EXCEPT ![t] = "poll"]
    BY <1>6 DEF AS!Spawn, AS!history
  <2>3. /\ \A d \in AS!Daemons : d # n => daemon'[d] = daemon[d] /\ owner'[d] = owner[d]
        /\ daemon'[n] = "started" /\ owner'[n] = t
        /\ \A s \in Threads : s # t => place'[s] = place[s]
        /\ place'[t] = "poll"
    BY <2>1, <2>2 DEF AS!TypeOK
  <2>4. \A d : IsNext(d, p) => Is(d, p) \/ (d = n /\ Home[t] = p)
    BY <2>2, <2>3 DEF Is, IsNext
  <2>5. CASE Home[t] = p
    <3>1. \A d : ~Is(d, p) BY <1>3, <2>2, <2>5
    <3>2. \A s \in Threads : Home[s] = p /\ s # t => place[s] # "spawn"
      BY <2>2, <2>5, Exclusive DEF Inside
    <3>3. QED BY <2>3, <2>4, <3>1, <3>2
  <2>6. CASE Home[t] # p
    <3>1. \A d : IsNext(d, p) => Is(d, p) /\ d # n
      BY <2>3, <2>4, <2>6 DEF IsNext
    <3>2. \A d : Is(d, p) => d \in AS!Daemons /\ owner[d] # t /\ owner[d] \in Threads
      BY <2>6 DEF Is
    <3>3. QED BY <1>3, <2>2, <2>3, <2>6, <3>1, <3>2
  <2>7. QED BY <2>5, <2>6
<1>7. ASSUME NEW t \in Threads, AS!Poll(t) PROVE Goal(p)
  <2>1. /\ UNCHANGED <<daemon, owner, path, robbed>> /\ AS!Reachable
        /\ place[t] = "poll" /\ place'[t] = "idle"
        /\ \A s \in Threads : s # t => place'[s] = place[s]
        /\ strangers' = strangers \cup {d \in AS!Daemons \ {path} :
                                          owner[d] = t /\ daemon[d] # "gone"}
    BY <1>7 DEF AS!Poll, AS!Connected, AS!daemons, AS!TypeOK
  <2>2. \A d : IsNext(d, p) => Is(d, p) BY <2>1 DEF Is, IsNext
  <2>3. ASSUME NEW d, IsNext(d, p), place'[owner[d]] # "poll"
        PROVE  daemon[d] = "listening" /\ path = d
    <3>1. Is(d, p) BY <2>2, <2>3
    <3>2. CASE owner[d] = t
      <4>1. path = d BY <2>1, <2>3, <3>1, <3>2 DEF Is, IsNext
      <4>2. QED BY <2>1, <3>1, <4>1 DEF AS!Reachable, AS!Bound, Is
    <3>3. CASE owner[d] # t
      BY <1>3, <2>1, <2>3, <3>1, <3>3 DEF Is
    <3>4. QED BY <3>2, <3>3
  <2>4. QED BY <1>3, <2>1, <2>2, <2>3
<1>8. ASSUME NEW t \in Threads, AS!GiveUp(t) PROVE Goal(p)
  <2>1. /\ UNCHANGED <<daemon, owner, path, robbed, strangers>>
        /\ gaveUp' = gaveUp \cup {Home[t]}
        /\ place'[t] = "idle" /\ \A s \in Threads : s # t => place'[s] = place[s]
    BY <1>8 DEF AS!GiveUp, AS!daemons, AS!TypeOK
  <2>2. Home[t] # p BY <1>2, <2>1
  <2>3. \A d : IsNext(d, p) <=> Is(d, p) BY <2>1 DEF Is, IsNext
  <2>4. \A d : Is(d, p) => owner[d] \in Threads /\ owner[d] # t BY <2>2 DEF Is
  <2>5. QED BY <1>3, <2>1, <2>2, <2>3, <2>4
<1>9. ASSUME NEW n \in AS!Daemons, AS!DaemonStep(n) PROVE Goal(p)
  <2>1. /\ UNCHANGED <<place, owner, strangers>>
        /\ \A e \in AS!Daemons : e # n => daemon'[e] = daemon[e]
        /\ robbed \subseteq robbed'
        /\ \A e \in AS!Daemons : e # n /\ path = e /\ path' # path /\ daemon[e] = "listening"
             => e \in robbed'
        /\ \/ daemon[n] = "started" /\ daemon'[n] = "cleared" /\ path' = 0
           \/ daemon[n] = "cleared" /\ path = 0 /\ daemon'[n] = "listening" /\ path' = n
           \/ daemon[n] = "listening" /\ daemon'[n] = "draining" /\ path' = path
           \/ daemon[n] = "draining" /\ daemon'[n] = "gone" /\ path' = 0
           \/ /\ daemon[n] \in {"started", "cleared", "listening", "draining"}
              /\ daemon'[n] = "gone" /\ path' = path
    BY <1>9, DaemonMoves
  <2>2. \A d : IsNext(d, p) => Is(d, p) BY <2>1 DEF Is, IsNext
  <2>3. ASSUME NEW d, IsNext(d, p), place[owner[d]] # "poll"
        PROVE  daemon'[d] = "listening" /\ path' = d
    <3>1. d \in AS!Daemons /\ daemon[d] = "listening" /\ path = d
      BY <1>3, <2>2, <2>3 DEF Is
    <3>2. daemon'[d] \in {"started", "cleared", "listening"} /\ d \notin robbed'
      BY <2>3 DEF IsNext
    <3>3. d # n BY <2>1, <3>1, <3>2
    <3>4. QED BY <2>1, <3>1, <3>2, <3>3
  <2>4. QED BY <1>3, <2>1, <2>2, <2>3
<1>10. CASE AS!OutOfDaemons
  <2>1. UNCHANGED <<place, daemon, owner, path, robbed, strangers>>
    BY <1>10 DEF AS!OutOfDaemons, AS!vars, AS!clients, AS!daemons, AS!history
  <2>2. QED BY <1>3, <2>1 DEF Is, IsNext
<1>11. QED
  BY <1>4, <1>5, <1>6, <1>7, <1>8, <1>9, <1>10 DEF AS!Next, AS!ClientStep

(* Where one process starts daemons, one lives, and it is at the path or    *)
(* waited for.                                                              *)
LEMMA AloneOnceKept ==
  ASSUME AS!TypeOK, LockHeld, Owned, AloneOnce, AS!Next
  PROVE  AloneOnce'
<1> DEFINE Stages == {"started", "cleared", "listening", "draining"}
           Goal(p) ==
             /\ \A d, e \in AS!Daemons : daemon'[d] \in Stages /\ daemon'[e] \in Stages => d = e
             /\ \A d \in AS!Daemons : daemon'[d] \in {"listening", "draining"} => path' = d
             /\ (\A t \in Threads : Home[t] = p => place'[t] # "poll") =>
                  \A d \in AS!Daemons :
                    daemon'[d] \in Stages => daemon'[d] \in {"listening", "draining"}
             /\ \A t \in Threads : Home[t] = p /\ place'[t] = "spawn" =>
                  \A d \in AS!Daemons : daemon'[d] \notin Stages
           Before(p) ==
             /\ \A d, e \in AS!Daemons : daemon[d] \in Stages /\ daemon[e] \in Stages => d = e
             /\ \A d \in AS!Daemons : daemon[d] \in {"listening", "draining"} => path = d
             /\ (\A t \in Threads : Home[t] = p => place[t] # "poll") =>
                  \A d \in AS!Daemons :
                    daemon[d] \in Stages => daemon[d] \in {"listening", "draining"}
             /\ \A t \in Threads : Home[t] = p /\ place[t] = "spawn" =>
                  \A d \in AS!Daemons : daemon[d] \notin Stages
<1>1. ASSUME NEW p, Goal(p)
      PROVE  /\ \A d, e \in Lives' : d = e
             /\ \A d \in Lives' : daemon'[d] \in {"listening", "draining"} => path' = d
             /\ Lives' # {} /\ ~Waits(p)' =>
                  \A d \in Lives' : daemon'[d] \in {"listening", "draining"}
             /\ \A t \in Threads : Home[t] = p /\ place'[t] = "spawn" => Lives' = {}
  BY <1>1 DEF Lives, Waits
<1>2. SUFFICES ASSUME NEW p \in AS!Processes, p \notin gaveUp', Alone(p)' PROVE Goal(p)
  BY <1>1 DEF AloneOnce
<1>3. ASSUME Alone(p), p \notin gaveUp PROVE Before(p)
  <2>1. /\ \A d, e \in Lives : d = e
        /\ \A d \in Lives : daemon[d] \in {"listening", "draining"} => path = d
        /\ Lives # {} /\ ~Waits(p) => \A d \in Lives : daemon[d] \in {"listening", "draining"}
        /\ \A t \in Threads : Home[t] = p /\ place[t] = "spawn" => Lives = {}
    BY <1>3 DEF AloneOnce
  <2>2. QED BY <2>1 DEF Lives, Waits
<1>4. ASSUME NEW t \in Threads, AS!Connect(t) \/ AS!LockSpawn(t) PROVE Goal(p)
  <2>1. /\ UNCHANGED <<daemon, owner, path, gaveUp>>
        /\ \A s \in Threads : s # t => place'[s] = place[s]
        /\ place[t] \notin {"spawn", "poll"} /\ place'[t] \notin {"spawn", "poll"}
    BY <1>4 DEF AS!Connect, AS!LockSpawn, AS!Connected, AS!daemons, AS!history, AS!TypeOK
  <2>2. Before(p) BY <1>2, <1>3, <2>1 DEF Alone
  <2>3. QED BY <2>1, <2>2
<1>5. ASSUME NEW t \in Threads, AS!Recheck(t) PROVE Goal(p)
  <2>1. /\ UNCHANGED <<daemon, owner, path, gaveUp>>
        /\ \A s \in Threads : s # t => place'[s] = place[s]
        /\ place[t] = "recheck" /\ place'[t] \in {"idle", "spawn"}
        /\ place'[t] = "spawn" => ~AS!Reachable
    BY <1>5 DEF AS!Recheck, AS!Connected, AS!daemons, AS!history, AS!TypeOK
  <2>2. Before(p) BY <1>2, <1>3, <2>1 DEF Alone
  <2>3. ASSUME place'[t] = "spawn", Home[t] = p, NEW d \in AS!Daemons, daemon[d] \in Stages
        PROVE  FALSE
    <3>1. \A s \in Threads : Home[s] = p => place[s] # "poll"
      BY <2>1, <2>3, Exclusive DEF Inside
    <3>2. daemon[d] \in {"listening", "draining"} /\ path = d BY <2>2, <2>3, <3>1
    <3>3. QED BY <2>1, <2>3, <3>2 DEF AS!Reachable, AS!Bound
  <2>4. QED BY <2>1, <2>2, <2>3
<1>6. ASSUME NEW t \in Threads, AS!Spawn(t) PROVE Goal(p)
  <2>1. PICK n \in AS!Daemons :
          /\ daemon[n] = "unborn"
          /\ daemon' = [daemon EXCEPT ![n] = "started"] /\ owner' = [owner EXCEPT ![n] = t]
    BY <1>6 DEF AS!Spawn
  <2>2. /\ UNCHANGED <<path, gaveUp>> /\ place[t] = "spawn"
        /\ place' = [place EXCEPT ![t] = "poll"]
    BY <1>6 DEF AS!Spawn, AS!history
  <2>3. /\ \A d \in AS!Daemons : d # n => daemon'[d] = daemon[d] /\ owner'[d] = owner[d]
        /\ daemon'[n] = "started" /\ owner'[n] = t
        /\ \A s \in Threads : s # t => place'[s] = place[s]
        /\ place'[t] = "poll"
    BY <2>1, <2>2 DEF AS!TypeOK
  <2>4. Home[t] = p BY <1>2, <2>3, DaemonConstants DEF Alone
  <2>5. owner[n] = "none" BY <2>1 DEF Owned
  <2>6. Alone(p) BY <1>2, <2>3, <2>5 DEF Alone
  <2>7. Before(p) BY <1>2, <1>3, <2>2, <2>6
  <2>8. \A d \in AS!Daemons : daemon[d] \notin Stages BY <2>2, <2>4, <2>7
  <2>9. \A s \in Threads : Home[s] = p /\ s # t => place[s] # "spawn"
    BY <2>2, <2>4, Exclusive DEF Inside
  <2>10. \A d \in AS!Daemons : daemon'[d] \in Stages => d = n BY <2>3, <2>8
  <2>11. QED BY <2>3, <2>4, <2>9, <2>10
<1>7. ASSUME NEW t \in Threads, AS!Poll(t) PROVE Goal(p)
  <2>1. /\ UNCHANGED <<daemon, owner, path, gaveUp>> /\ AS!Reachable
        /\ place'[t] = "idle" /\ \A s \in Threads : s # t => place'[s] = place[s]
    BY <1>7 DEF AS!Poll, AS!Connected, AS!daemons, AS!TypeOK
  <2>2. Before(p) BY <1>2, <1>3, <2>1 DEF Alone
  <2>3. \A d \in AS!Daemons : daemon[d] \in Stages => daemon[d] \in {"listening", "draining"}
    BY <2>1, <2>2 DEF AS!Reachable, AS!Bound
  <2>4. QED BY <2>1, <2>2, <2>3
<1>8. ASSUME NEW t \in Threads, AS!GiveUp(t) PROVE Goal(p)
  <2>1. /\ UNCHANGED <<daemon, owner, path>> /\ gaveUp' = gaveUp \cup {Home[t]}
        /\ place'[t] = "idle" /\ \A s \in Threads : s # t => place'[s] = place[s]
    BY <1>8 DEF AS!GiveUp, AS!daemons, AS!TypeOK
  <2>2. Home[t] # p BY <1>2, <2>1
  <2>3. Before(p) BY <1>2, <1>3, <2>1 DEF Alone
  <2>4. QED BY <2>1, <2>2, <2>3
<1>9. ASSUME NEW n \in AS!Daemons, AS!DaemonStep(n) PROVE Goal(p)
  <2>1. /\ UNCHANGED <<place, owner, gaveUp>>
        /\ \A e \in AS!Daemons : e # n => daemon'[e] = daemon[e]
        /\ \/ daemon[n] = "started" /\ daemon'[n] = "cleared" /\ path' = 0
           \/ daemon[n] = "cleared" /\ path = 0 /\ daemon'[n] = "listening" /\ path' = n
           \/ daemon[n] = "listening" /\ daemon'[n] = "draining" /\ path' = path
           \/ daemon[n] = "draining" /\ daemon'[n] = "gone" /\ path' = 0
           \/ /\ daemon[n] \in {"started", "cleared", "listening", "draining"}
              /\ daemon'[n] = "gone" /\ path' = path
    BY <1>9, DaemonMoves
  <2>2. Before(p) BY <1>2, <1>3, <2>1 DEF Alone
  <2>3. \A d \in AS!Daemons : daemon'[d] \in Stages => d = n BY <2>1, <2>2
  <2>4. \A t \in Threads : Home[t] = p => place[t] # "spawn" BY <2>1, <2>2
  <2>5. ASSUME \A t \in Threads : Home[t] = p => place[t] # "poll"
        PROVE  daemon[n] \in {"listening", "draining"}
    BY <2>1, <2>2, <2>5
  <2>6. daemon'[n] \in {"listening", "draining"} => path' = n BY <2>1, <2>2
  <2>7. QED BY <2>1, <2>3, <2>4, <2>5, <2>6
<1>10. CASE AS!OutOfDaemons
  <2>1. UNCHANGED <<place, daemon, owner, path, gaveUp>>
    BY <1>10 DEF AS!OutOfDaemons, AS!vars, AS!clients, AS!daemons, AS!history
  <2>2. Before(p) BY <1>2, <1>3, <2>1 DEF Alone
  <2>3. QED BY <2>1, <2>2
<1>11. QED
  BY <1>4, <1>5, <1>6, <1>7, <1>8, <1>9, <1>10 DEF AS!Next, AS!ClientStep

LEMMA DaemonStep == DaemonInv /\ [AS!Next]_(AS!vars) => DaemonInv'
<1> SUFFICES ASSUME DaemonInv, [AS!Next]_(AS!vars) PROVE DaemonInv' OBVIOUS
<1>1. CASE AS!Next
  <2>1. AS!TypeOK /\ LockHeld /\ Owned /\ KeptOnce /\ AloneOnce BY DEF DaemonInv
  <2>2. AS!TypeOK' /\ LockHeld' /\ Owned'
    BY <1>1, <2>1, DaemonTyped, LockKept, OwnedKept
  <2>3. KeptOnce' /\ AloneOnce' BY <1>1, <2>1, <2>2, KeptOnceKept, AloneOnceKept
  <2>4. QED BY <2>2, <2>3 DEF DaemonInv
<1>2. CASE UNCHANGED AS!vars
  <2> USE <1>2 DEF AS!vars, AS!clients, AS!daemons, AS!history
  <2>1. AS!TypeOK' BY DEF DaemonInv, AS!TypeOK
  <2>2. LockHeld' /\ Owned' BY DEF DaemonInv, LockHeld, Owned, Inside
  <2>3. KeptOnce' BY DEF DaemonInv, KeptOnce, Kept, Mine, AS!Serving
  <2>4. AloneOnce' BY DEF DaemonInv, AloneOnce, Alone, Lives, Waits
  <2>5. QED BY <2>1, <2>2, <2>3, <2>4 DEF DaemonInv
<1>3. QED BY <1>1, <1>2

\* At most one daemon of a process is left, by what KeptOnce says of each.
LEMMA KeptIsOne ==
  ASSUME AS!TypeOK, LockHeld, Owned, KeptOnce, NEW p \in AS!Processes \ gaveUp,
         NEW d \in Kept(p), NEW e \in Kept(p)
  PROVE  d = e
<1>1. /\ owner[d] \in Threads /\ Home[owner[d]] = p
      /\ owner[e] \in Threads /\ Home[owner[e]] = p
  BY KeptFacts
<1>2. /\ place[owner[d]] = "poll" \/ path = d
      /\ place[owner[e]] = "poll" \/ path = e
      /\ \A t \in Threads : Home[t] = p /\ place[t] = "poll" => d = e
  BY DEF KeptOnce
<1>3. QED BY <1>1, <1>2

LEMMA SameCardinality == \A S : AS!Cardinality(S) = Cardinality(S)
<1>1. \A S : AS!IsFiniteSet(S) <=> IsFiniteSet(S) BY DEF AS!IsFiniteSet, IsFiniteSet
<1>2. QED BY <1>1 DEF AS!Cardinality, Cardinality

LEMMA DaemonSafe == DaemonInv => AS!SpawnedOnce
<1> SUFFICES ASSUME DaemonInv PROVE AS!SpawnedOnce OBVIOUS
<1>1. AS!TypeOK /\ LockHeld /\ Owned /\ KeptOnce /\ AloneOnce BY DEF DaemonInv
<1> DEFINE Serves(p) == {d \in AS!Serving : Home[owner[d]] = p}
<1>2. \A p : Serves(p) = Mine(p)
  BY <1>1 DEF Mine, AS!Serving, Owned
<1>3. ASSUME NEW p \in AS!Processes \ gaveUp
      PROVE  AS!Cardinality(Serves(p) \ (robbed \cup strangers)) <= 1
  <2>1. Serves(p) \ (robbed \cup strangers) = Kept(p) BY <1>2 DEF Kept
  <2>2. CASE Kept(p) = {} BY <2>1, <2>2, SameCardinality, FS_EmptySet
  <2>3. CASE Kept(p) # {}
    <3>1. PICK d : d \in Kept(p) BY <2>3
    <3>2. Kept(p) = {d} BY <1>1, <3>1, KeptIsOne
    <3>3. Cardinality({d}) = 1 BY FS_Singleton
    <3>4. QED BY <2>1, <3>2, <3>3, SameCardinality
  <2>4. QED BY <2>2, <2>3
<1>4. ASSUME NEW p \in AS!Processes \ gaveUp, Alone(p), NEW d \in Serves(p),
             daemon[d] = "listening"
      PROVE  path = d
  <2>1. d \in Lives BY <1>4 DEF Lives, AS!Serving
  <2>2. QED BY <1>1, <1>4, <2>1 DEF AloneOnce
<1>5. QED BY <1>3, <1>4 DEF AS!SpawnedOnce, Alone

-----------------------------------------------------------------------------
(* The tools.                                                               *)

HistoryTyped ==
  /\ clicked \in [Callers -> SUBSET Points]
  /\ slid \subseteq Callers /\ bare \subseteq Callers
  /\ pasted \in [Callers -> Callers \cup {"none"}]
  /\ mixed \subseteq Callers
  /\ began \in [Callers -> {"none", "old", "new"}]
  /\ final \in [Callers -> {"none", "old", "new"}]

\* Before it is over a call has told nothing but that it pressed the keys, and
\* pasted nothing.
NothingYet ==
  \A c \in Callers : at[c] # "over" =>
    /\ report[c] \in {"none", "pasted"}
    /\ pasted[c] = "none"
    /\ c \notin bare

\* Before its first click a call has clicked nowhere, and then where the
\* pointer is, if that has not moved.
OwnClicks ==
  \A c \in Callers : tool[c] = "click" =>
    /\ at[c] \in {"first", "fire"} => clicked[c] = {}
    /\ at[c] \in DT!Clicking /\ c \notin slid => clicked[c] = {pointer}

\* The clipboard is the one of a paste that no other has met.
OwnClip ==
  \A c \in Callers \ mixed : tool[c] = "paste" /\ at[c] \in {"key", "fetch"} => clip = c

\* A baseline that is not a crop shows the screen as it began.
OwnBaseline ==
  \A c \in Callers :
    /\ baseline[c] = "none" => began[c] = "none"
    /\ baseline[c] \in {"old", "new"} => began[c] = baseline[c]

ToolsInv ==
  /\ DT!TypeOK /\ HistoryTyped /\ NothingYet /\ OwnClicks /\ OwnClip /\ OwnBaseline
  /\ DT!ReportsTrue

\* A point is told from everything else that is reported.
LEMMA PointsApart ==
  Points \cap {"none", "error", "pasted", "launched", "unchanged"} = {}
BY RequestsAssumption DEF DT!DesktopToolsAssumption, DT!Words

LEMMA ToolsInit == DT!Init => ToolsInv
<1> SUFFICES ASSUME DT!Init PROVE ToolsInv OBVIOUS
<1> USE PointsApart DEF DT!Init
<1>1. DT!TypeOK BY DEF DT!TypeOK, DT!Words
<1>2. HistoryTyped BY DEF HistoryTyped
<1>3. NothingYet /\ OwnClicks /\ OwnClip /\ OwnBaseline
  BY DEF NothingYet, OwnClicks, OwnClip, OwnBaseline, DT!Clicking
<1>4. DT!ReportsTrue BY DEF DT!ReportsTrue
<1>5. QED BY <1>1, <1>2, <1>3, <1>4 DEF ToolsInv

(* One step of the tools: what is typed, ...                                *)
LEMMA ToolsTyped ==
  ASSUME DT!TypeOK, HistoryTyped, DT!Next
  PROVE  DT!TypeOK' /\ HistoryTyped'
<1> USE DEF DT!TypeOK, HistoryTyped, DT!Words, DT!Step, DT!Report, DT!call, DT!guest,
            DT!history
<1>1. ASSUME NEW c \in Callers, \/ DT!MoveFirst(c) \/ DT!Fire(c)
                                  \/ DT!FireAgain(c) \/ DT!Echo(c)
      PROVE  DT!TypeOK' /\ HistoryTyped'
  <2>1. CASE DT!MoveFirst(c) BY <2>1 DEF DT!MoveFirst
  <2>2. CASE DT!Fire(c) \/ DT!FireAgain(c)
    BY <2>2 DEF DT!Fire, DT!FireAgain, DT!Press
  <2>3. CASE DT!Echo(c) BY <2>3 DEF DT!Echo
  <2>4. QED BY <1>1, <2>1, <2>2, <2>3
<1>2. ASSUME NEW c \in Callers, DT!SetClipboard(c)
      PROVE  DT!TypeOK' /\ HistoryTyped'
  BY <1>2 DEF DT!SetClipboard, DT!Pasting
<1>3. ASSUME NEW c \in Callers, DT!PressPaste(c) \/ DT!AppFetches(c) \/ DT!RequestFails(c)
      PROVE  DT!TypeOK' /\ HistoryTyped'
  BY <1>3 DEF DT!PressPaste, DT!AppFetches, DT!RequestFails
<1>4. ASSUME NEW c \in Callers, DT!KeepBaseline(c)
      PROVE  DT!TypeOK' /\ HistoryTyped'
  BY <1>4 DEF DT!KeepBaseline, DT!WhatChanged
<1>5. ASSUME NEW c \in Callers, DT!ExecApp(c) \/ DT!PollEnds(c)
      PROVE  DT!TypeOK' /\ HistoryTyped'
  BY <1>5 DEF DT!ExecApp, DT!PollEnds
<1>6. ASSUME NEW c \in Callers, DT!PollChange(c)
      PROVE  DT!TypeOK' /\ HistoryTyped'
  <2>1. DT!Differs \in BOOLEAN BY DEF DT!Differs
  <2>2. /\ at' = [at EXCEPT ![c] = IF DT!Differs THEN "settle" ELSE "poll"]
        /\ painted' = [painted EXCEPT ![c] = DT!Differs]
        /\ prev' = screen
        /\ UNCHANGED <<tool, target, baseline, report, screen, pointer, clip,
                       clicked, slid, bare, pasted, mixed, began, final>>
    BY <1>6 DEF DT!PollChange
  <2>3. at' \in [Callers -> {"first", "fire", "again", "echo", "key", "fetch", "exec",
                             "poll", "settle", "over"}]
    BY <2>1, <2>2
  <2>4. painted' \in [Callers -> BOOLEAN] BY <2>1, <2>2
  <2>5. QED BY <2>2, <2>3, <2>4
<1>7. ASSUME NEW c \in Callers, DT!SettleShot(c)
      PROVE  DT!TypeOK' /\ HistoryTyped'
  BY <1>7 DEF DT!SettleShot
<1>8. CASE DT!PointerMoves \/ DT!ScreenChanges \/ DT!OtherCapture
  BY <1>8 DEF DT!PointerMoves, DT!ScreenChanges, DT!OtherCapture
<1>9. QED
  BY <1>1, <1>2, <1>3, <1>4, <1>5, <1>6, <1>7, <1>8 DEF DT!Next, DT!CallStep

\* ... that nothing is told before its time, ...
LEMMA NothingYetKept ==
  ASSUME DT!TypeOK, HistoryTyped, NothingYet, DT!Next PROVE NothingYet'
<1> USE DEF DT!TypeOK, HistoryTyped, NothingYet, DT!Step, DT!Report, DT!call, DT!guest,
            DT!history
<1>1. ASSUME NEW c \in Callers,
             \/ DT!MoveFirst(c) \/ DT!Fire(c) \/ DT!FireAgain(c) \/ DT!SetClipboard(c)
             \/ DT!KeepBaseline(c) \/ DT!ExecApp(c) \/ DT!PollChange(c) \/ DT!PollEnds(c)
      PROVE  NothingYet'
  <2>1. /\ UNCHANGED <<report, pasted, bare>> /\ at[c] # "over"
        /\ \A d \in Callers : d # c => at'[d] = at[d]
    BY <1>1 DEF DT!MoveFirst, DT!Fire, DT!FireAgain, DT!Press, DT!SetClipboard,
                DT!KeepBaseline, DT!ExecApp, DT!PollChange, DT!PollEnds
  <2>2. QED BY <2>1
<1>2. ASSUME NEW c \in Callers,
             DT!Echo(c) \/ DT!AppFetches(c) \/ DT!SettleShot(c) \/ DT!RequestFails(c)
      PROVE  NothingYet'
  <2>1. /\ at'[c] = "over"
        /\ \A d \in Callers : d # c =>
             /\ at'[d] = at[d] /\ report'[d] = report[d] /\ pasted'[d] = pasted[d]
             /\ d \in bare' <=> d \in bare
    BY <1>2 DEF DT!Echo, DT!AppFetches, DT!SettleShot, DT!RequestFails
  <2>2. QED BY <2>1
<1>3. ASSUME NEW c \in Callers, DT!PressPaste(c) PROVE NothingYet'
  BY <1>3 DEF DT!PressPaste
<1>4. CASE DT!PointerMoves \/ DT!ScreenChanges \/ DT!OtherCapture
  BY <1>4 DEF DT!PointerMoves, DT!ScreenChanges, DT!OtherCapture
<1>5. QED BY <1>1, <1>2, <1>3, <1>4 DEF DT!Next, DT!CallStep

\* ... where a call has clicked, ...
LEMMA OwnClicksKept ==
  ASSUME DT!TypeOK, HistoryTyped, OwnClicks, DT!Next PROVE OwnClicks'
<1> USE DEF DT!TypeOK, HistoryTyped, OwnClicks, DT!Clicking, DT!Step, DT!Report, DT!call,
            DT!guest, DT!history
<1>1. ASSUME NEW c \in Callers, DT!MoveFirst(c) PROVE OwnClicks'
  <2>1. /\ UNCHANGED <<tool, clicked, slid>> /\ at[c] = "first" /\ at'[c] = "fire"
        /\ \A d \in Callers : d # c => at'[d] = at[d]
        /\ \A d \in Callers : at[d] \notin DT!Clicking
    BY <1>1 DEF DT!MoveFirst, DT!AgentFree
  <2>2. QED BY <2>1
<1>2. ASSUME NEW c \in Callers, DT!Fire(c) \/ DT!FireAgain(c) PROVE OwnClicks'
  <2>1. /\ UNCHANGED <<tool, pointer, slid>> /\ tool[c] = "click"
        /\ at[c] \in {"fire", "again"} /\ at'[c] \in DT!Clicking
        /\ clicked'[c] = clicked[c] \cup {pointer}
        /\ \A d \in Callers : d # c => at'[d] = at[d] /\ clicked'[d] = clicked[d]
    BY <1>2 DEF DT!Fire, DT!FireAgain, DT!Press
  <2>2. c \notin slid => clicked'[c] = {pointer} BY <2>1
  <2>3. QED BY <2>1, <2>2
<1>3. ASSUME NEW c \in Callers,
             \/ DT!Echo(c) \/ DT!SetClipboard(c) \/ DT!PressPaste(c) \/ DT!AppFetches(c)
             \/ DT!KeepBaseline(c) \/ DT!ExecApp(c) \/ DT!PollChange(c) \/ DT!PollEnds(c)
             \/ DT!SettleShot(c) \/ DT!RequestFails(c)
      PROVE  OwnClicks'
  <2>1. /\ UNCHANGED <<tool, pointer, clicked, slid>>
        /\ tool[c] = "click" => at'[c] = "over"
        /\ \A d \in Callers : d # c => at'[d] = at[d]
    BY <1>3
    DEF DT!Echo, DT!SetClipboard, DT!PressPaste, DT!AppFetches, DT!KeepBaseline, DT!ExecApp,
        DT!PollChange, DT!PollEnds, DT!SettleShot, DT!RequestFails
  <2>2. QED BY <2>1
<1>4. CASE DT!PointerMoves
  <2>1. /\ UNCHANGED <<tool, at, clicked>>
        /\ slid' = slid \cup {c \in Callers : at[c] \in DT!Clicking}
    BY <1>4 DEF DT!PointerMoves
  <2>2. QED BY <2>1
<1>5. CASE DT!ScreenChanges \/ DT!OtherCapture
  BY <1>5 DEF DT!ScreenChanges, DT!OtherCapture
<1>6. QED BY <1>1, <1>2, <1>3, <1>4, <1>5 DEF DT!Next, DT!CallStep

\* ... whose the clipboard is, ...
LEMMA OwnClipKept ==
  ASSUME DT!TypeOK, HistoryTyped, OwnClip, DT!Next PROVE OwnClip'
<1> USE DEF DT!TypeOK, HistoryTyped, OwnClip, DT!Step, DT!call, DT!guest, DT!history
<1>1. ASSUME NEW c \in Callers,
             \/ DT!MoveFirst(c) \/ DT!Fire(c) \/ DT!FireAgain(c) \/ DT!Echo(c)
             \/ DT!KeepBaseline(c) \/ DT!ExecApp(c) \/ DT!PollChange(c) \/ DT!PollEnds(c)
             \/ DT!AppFetches(c) \/ DT!SettleShot(c) \/ DT!RequestFails(c)
      PROVE  OwnClip'
  <2>1. /\ UNCHANGED <<tool, clip, mixed>>
        /\ tool[c] = "paste" => at'[c] \notin {"key", "fetch"}
        /\ \A d \in Callers : d # c => at'[d] = at[d]
    BY <1>1
    DEF DT!MoveFirst, DT!Fire, DT!FireAgain, DT!Press, DT!Echo, DT!KeepBaseline, DT!ExecApp,
        DT!PollChange, DT!PollEnds, DT!AppFetches, DT!SettleShot, DT!RequestFails
  <2>2. QED BY <2>1
<1>2. ASSUME NEW c \in Callers, DT!SetClipboard(c) PROVE OwnClip'
  <2>1. /\ clip' = c /\ mixed' = mixed \cup DT!Pasting /\ tool' = tool
        /\ \A d \in Callers : d # c => at'[d] = at[d]
    BY <1>2 DEF DT!SetClipboard
  <2>2. QED BY <2>1 DEF DT!Pasting
<1>3. ASSUME NEW c \in Callers, DT!PressPaste(c) PROVE OwnClip'
  BY <1>3 DEF DT!PressPaste
<1>4. CASE DT!PointerMoves \/ DT!ScreenChanges \/ DT!OtherCapture
  BY <1>4 DEF DT!PointerMoves, DT!ScreenChanges, DT!OtherCapture
<1>5. QED BY <1>1, <1>2, <1>3, <1>4 DEF DT!Next, DT!CallStep

\* ... what a baseline shows, ...
LEMMA OwnBaselineKept ==
  ASSUME DT!TypeOK, HistoryTyped, OwnBaseline, DT!Next PROVE OwnBaseline'
<1> USE DEF DT!TypeOK, HistoryTyped, OwnBaseline, DT!call, DT!guest, DT!history
<1>1. ASSUME NEW c \in Callers, DT!KeepBaseline(c) PROVE OwnBaseline'
  <2>1. CASE UNCHANGED <<baseline, began>> BY <2>1
  <2>2. CASE /\ baseline' = [baseline EXCEPT ![c] = DT!WhatChanged]
             /\ began' = [began EXCEPT ![c] = screen]
    <3>1. DT!WhatChanged \in {"crop", screen} BY DEF DT!WhatChanged
    <3>2. QED BY <2>2, <3>1
  <2>3. QED BY <1>1, <2>1, <2>2 DEF DT!KeepBaseline
<1>2. ASSUME NEW c \in Callers, DT!CallStep(c), ~DT!KeepBaseline(c) PROVE OwnBaseline'
  BY <1>2
  DEF DT!CallStep, DT!MoveFirst, DT!Fire, DT!FireAgain, DT!Press, DT!Echo, DT!SetClipboard,
      DT!PressPaste, DT!AppFetches, DT!ExecApp, DT!PollChange, DT!PollEnds, DT!SettleShot, DT!RequestFails
<1>3. CASE DT!PointerMoves \/ DT!ScreenChanges \/ DT!OtherCapture
  BY <1>3 DEF DT!PointerMoves, DT!ScreenChanges, DT!OtherCapture
<1>4. QED BY <1>1, <1>2, <1>3 DEF DT!Next

(* ... and that the reports are true: of the click that happened, of the    *)
(* text that the app got, and of the screen that the baseline showed.       *)
LEMMA ReportsKept ==
  ASSUME DT!TypeOK, HistoryTyped, NothingYet, OwnClicks, OwnClip, OwnBaseline,
         DT!ReportsTrue, DT!Next
  PROVE  DT!ReportsTrue'
<1> USE PointsApart DEF DT!TypeOK, HistoryTyped, DT!Step, DT!Report, DT!call, DT!guest, DT!history
<1> DEFINE Told(c) == /\ report'[c] \in Points =>
                           \/ clicked'[c] = {report'[c]}
                           \/ c \in slid' \ bare'
                           \/ c \in bare' /\ report'[c] = target'[c]
                      /\ c \notin mixed' => pasted'[c] \in {"none", c}
                      /\ report'[c] = "unchanged" => began'[c] \in {"none", final'[c]}
<1>0. SUFFICES \A c \in Callers : Told(c) BY DEF DT!ReportsTrue
<1>1. ASSUME NEW c \in Callers, mixed \subseteq mixed',
             \/ report'[c] = report[c]
             \/ report'[c] \in {"none", "error", "pasted", "launched"},
             report[c] \in Points => clicked'[c] = clicked[c],
             slid \subseteq slid', c \in bare' <=> c \in bare, target' = target,
             pasted'[c] = pasted[c],
             report'[c] = "unchanged" => began'[c] = began[c] /\ final'[c] = final[c]
      PROVE  Told(c)
  BY <1>1 DEF DT!ReportsTrue
<1>2. ASSUME NEW c \in Callers,
             \/ DT!MoveFirst(c) \/ DT!SetClipboard(c) \/ DT!PressPaste(c) \/ DT!ExecApp(c)
             \/ DT!PollChange(c) \/ DT!PollEnds(c) \/ DT!RequestFails(c)
      PROVE  \A d \in Callers : Told(d)
  <2>1. /\ UNCHANGED <<target, clicked, slid, bare, pasted, began, final>>
        /\ mixed \subseteq mixed'
        /\ \A d \in Callers : report'[d] = report[d] \/ report'[d] \in {"error", "pasted"}
    BY <1>2 DEF DT!MoveFirst, DT!SetClipboard, DT!PressPaste, DT!ExecApp, DT!PollChange,
                DT!PollEnds, DT!RequestFails
  <2>2. QED BY <1>1, <2>1
<1>3. ASSUME NEW c \in Callers, DT!Echo(c) PROVE \A d \in Callers : Told(d)
  <2>1. /\ UNCHANGED <<target, clicked, slid, pasted, mixed, began, final>>
        /\ tool[c] = "click" /\ at[c] \in DT!Clicking
        /\ \A d \in Callers : d # c =>
             report'[d] = report[d] /\ (d \in bare' <=> d \in bare)
        /\ \/ report'[c] = pointer /\ bare' = bare
           \/ report'[c] = target[c] /\ c \in bare'
    BY <1>3 DEF DT!Echo, DT!Clicking
  <2>2. c \in slid \/ clicked[c] = {pointer} BY <2>1 DEF OwnClicks
  <2>3. c \notin bare BY <2>1 DEF NothingYet, DT!Clicking
  <2>4. report'[c] \in Points BY <2>1
  <2>5. Told(c) BY <2>1, <2>2, <2>3, <2>4 DEF DT!ReportsTrue
  <2>6. QED BY <1>1, <2>1, <2>5
<1>4. ASSUME NEW c \in Callers, DT!AppFetches(c) PROVE \A d \in Callers : Told(d)
  <2>1. /\ UNCHANGED <<target, report, clicked, slid, bare, mixed, began, final>>
        /\ \A d \in Callers : d # c => pasted'[d] = pasted[d]
        /\ pasted'[c] = clip /\ tool[c] = "paste" /\ at[c] = "fetch"
    BY <1>4 DEF DT!AppFetches
  <2>2. c \notin mixed => clip = c BY <2>1 DEF OwnClip
  <2>3. Told(c) BY <2>1, <2>2 DEF DT!ReportsTrue
  <2>4. QED BY <1>1, <2>1, <2>3
<1>5. ASSUME NEW c \in Callers, DT!KeepBaseline(c) PROVE \A d \in Callers : Told(d)
  <2>1. /\ UNCHANGED <<target, report, clicked, slid, bare, pasted, mixed, final>>
        /\ at[c] = "first"
        /\ \A d \in Callers : d # c => began'[d] = began[d]
    BY <1>5 DEF DT!KeepBaseline
  <2>2. report[c] # "unchanged" BY <2>1 DEF NothingYet
  <2>3. QED BY <1>1, <2>1, <2>2
<1>6. ASSUME NEW c \in Callers, DT!SettleShot(c) PROVE \A d \in Callers : Told(d)
  <2>1. /\ UNCHANGED <<target, clicked, slid, bare, pasted, mixed, began>>
        /\ \A d \in Callers : d # c => report'[d] = report[d] /\ final'[d] = final[d]
        /\ final'[c] = screen
        /\ report'[c] = IF DT!Started(c) THEN "launched" ELSE "unchanged"
    BY <1>6 DEF DT!SettleShot
  <2>2. ~DT!Started(c) => began[c] \in {"none", screen}
    BY DEF DT!Started, OwnBaseline
  <2>3. Told(c) BY <2>1, <2>2 DEF DT!ReportsTrue
  <2>4. QED BY <1>1, <2>1, <2>3
<1>7. ASSUME DT!PointerMoves \/ DT!ScreenChanges \/ DT!OtherCapture
      PROVE  \A d \in Callers : Told(d)
  <2>1. /\ UNCHANGED <<target, report, clicked, bare, pasted, mixed, began, final>>
        /\ slid \subseteq slid'
    BY <1>7 DEF DT!PointerMoves, DT!ScreenChanges, DT!OtherCapture
  <2>2. QED BY <1>1, <2>1
<1>8. ASSUME NEW c \in Callers, DT!Fire(c) \/ DT!FireAgain(c)
      PROVE  \A d \in Callers : Told(d)
  <2>1. /\ UNCHANGED <<target, report, slid, bare, pasted, mixed, began, final>>
        /\ at[c] # "over"
        /\ \A d \in Callers : d # c => clicked'[d] = clicked[d]
    BY <1>8 DEF DT!Fire, DT!FireAgain, DT!Press
  <2>2. report[c] \notin Points BY <2>1 DEF NothingYet
  <2>3. QED BY <1>1, <2>1, <2>2
<1>9. QED
  BY <1>2, <1>3, <1>4, <1>5, <1>6, <1>7, <1>8 DEF DT!Next, DT!CallStep

LEMMA ToolsStep == ToolsInv /\ [DT!Next]_(DT!vars) => ToolsInv'
<1> SUFFICES ASSUME ToolsInv, [DT!Next]_(DT!vars) PROVE ToolsInv' OBVIOUS
<1>1. CASE DT!Next
  BY <1>1, ToolsTyped, NothingYetKept, OwnClicksKept, OwnClipKept, OwnBaselineKept, ReportsKept
  DEF ToolsInv
<1>2. CASE UNCHANGED DT!vars
  BY <1>2
  DEF ToolsInv, DT!TypeOK, HistoryTyped, NothingYet, OwnClicks, OwnClip, OwnBaseline,
      DT!ReportsTrue, DT!Clicking, DT!vars, DT!call, DT!guest, DT!history
<1>3. QED BY <1>1, <1>2

LEMMA ToolsSafe == ToolsInv => DT!TypeOK /\ DT!ReportsTrue
BY DEF ToolsInv

-----------------------------------------------------------------------------
(* The detector: its walk over the churning tiles.                          *)

LEMMA SettleConstants ==
  /\ Cols \in Nat \ {0} /\ Rows \in Nat \ {0} /\ SettleFrames \in Nat \ {0}
  /\ ChurnWindow \in Nat \ {0} /\ ChurnThreshold \in Nat \ {0}
  /\ SettleFrames < ChurnThreshold /\ ChurnThreshold < ChurnWindow
BY RequestsAssumption DEF SE!SettleAssumption

LEMMA SettleCardinality ==
  \A S : /\ SE!Cardinality(S) = Cardinality(S)
         /\ SE!IsFiniteSet(S) <=> IsFiniteSet(S)
<1>1. \A S : SE!IsFiniteSet(S) <=> IsFiniteSet(S) BY DEF SE!IsFiniteSet, IsFiniteSet
<1>2. QED BY <1>1 DEF SE!Cardinality, Cardinality

LEMMA TilesFinite ==
  \A ts \in SUBSET SE!Tiles : IsFiniteSet(ts) /\ SE!Cardinality(ts) \in Nat
<1>1. IsFiniteSet(0..(Cols - 1)) /\ IsFiniteSet(0..(Rows - 1))
  BY SettleConstants, FS_Interval
<1>2. IsFiniteSet(SE!Tiles) BY <1>1, FS_Product DEF SE!Tiles
<1>3. QED BY <1>2, FS_Subset, FS_CardinalityType, SettleCardinality

\* One round of the walk, and all of it.
Near(ts, churning) == ts \cup {t \in churning : \E s \in ts : SE!Adjacent(s, t)}
Walks(r, start, churning) ==
  /\ r[0] = {start}
  /\ \A n \in 0..(SE!Cardinality(churning) - 1) : r[n + 1] = Near(r[n], churning)

\* The recursive function of the walk exists.
LEMMA WalkExists ==
  ASSUME NEW churning \in SUBSET SE!Tiles, NEW start
  PROVE  \E r : Walks(r, start, churning)
                /\ SE!Component(start, churning) = r[SE!Cardinality(churning)]
<1> DEFINE N == SE!Cardinality(churning)
           Body(f, m) == IF m = 0 THEN {start}
                         ELSE f[m - 1] \cup
                                {t \in churning : \E s \in f[m - 1] : SE!Adjacent(s, t)}
           Is(f, n) == f = [m \in 0..n |-> Body(f, m)]
           S == {n \in 0..N : \E f : Is(f, n)}
<1>1. N \in Nat BY TilesFinite
<1> HIDE DEF N
<1>2. 0 \in S
  <2>1. Is([m \in 0..0 |-> {start}], 0) OBVIOUS
  <2>2. 0 \in 0..N BY <1>1
  <2> HIDE DEF Is
  <2>3. QED BY <2>1, <2>2
<1>3. ASSUME NEW n \in 0..(N - 1), n \in S PROVE n + 1 \in S
  <2>1. PICK f : Is(f, n) BY <1>3
  <2> DEFINE g == [m \in 0..(n + 1) |-> IF m = n + 1 THEN Body(f, m) ELSE f[m]]
  <2>2. \A m \in 0..n : f[m] = Body(f, m) BY <2>1
  <2>3. \A m \in 0..n : g[m] = f[m] BY <1>1
  <2>4. \A m \in 0..(n + 1) : m # 0 => m - 1 \in 0..n BY <1>1
  <2>5. \A m \in 0..(n + 1) : Body(g, m) = Body(f, m) BY <2>3, <2>4
  <2>6. \A m \in 0..(n + 1) : g[m] = Body(g, m)
    <3>1. \A m \in 0..(n + 1) : m = n + 1 \/ m \in 0..n BY <1>1
    <3>2. g[n + 1] = Body(f, n + 1) BY <1>1
    <3>3. QED BY <2>2, <2>3, <2>5, <3>1, <3>2
  <2>7. Is(g, n + 1) BY <2>6
  <2>8. n + 1 \in 0..N BY <1>1
  <2>9. QED BY <2>7, <2>8
<1>4. N \in S
  <2> HIDE DEF S
  <2>1. \A n \in 0..N : n \in S BY <1>1, <1>2, <1>3, Onward
  <2>2. QED BY <1>1, <2>1
<1>5. PICK f : Is(f, N) BY <1>4
<1> DEFINE r == CHOOSE h : Is(h, N)
<1>6. Is(r, N) BY <1>5
<1>7. SE!Component(start, churning) = r[N] BY DEF SE!Component, N
<1>8. Walks(r, start, churning)
  <2>1. \A m \in 0..N : r[m] = Body(r, m) BY <1>6
  <2> HIDE DEF r
  <2>2. r[0] = {start}
    <3>1. 0 \in 0..N /\ Body(r, 0) = {start} BY <1>1
    <3> HIDE DEF Body
    <3>2. QED BY <2>1, <3>1
  <2>3. ASSUME NEW n \in 0..(N - 1) PROVE r[n + 1] = Near(r[n], churning)
    <3>1. n + 1 \in 0..N /\ n + 1 # 0 /\ (n + 1) - 1 = n BY <1>1
    <3>2. QED BY <2>1, <3>1 DEF Near
  <2>4. QED BY <2>2, <2>3 DEF Walks, N
<1>9. QED BY <1>7, <1>8 DEF N

LEMMA AdjacentBothWays ==
  ASSUME NEW s \in SE!Tiles, NEW t \in SE!Tiles
  PROVE  SE!Adjacent(s, t) <=> SE!Adjacent(t, s)
<1>1. /\ s[1] \in Int /\ s[2] \in Int /\ t[1] \in Int /\ t[2] \in Int
  BY SettleConstants DEF SE!Tiles
<1>2. QED BY <1>1 DEF SE!Adjacent

(* The walk ends with the smallest set that holds its start and is closed   *)
(* under adjacency; and what is closed without the start is apart from it.  *)
LEMMA ComponentReached ==
  ASSUME NEW churning \in SUBSET SE!Tiles, NEW start \in churning
  PROVE  LET C == SE!Component(start, churning)
         IN /\ start \in C /\ C \subseteq churning /\ SE!Closed(C, churning)
            /\ \A ts \in SUBSET churning : SE!Closed(ts, churning) =>
                 IF start \in ts THEN C \subseteq ts ELSE ts \cap C = {}
<1> DEFINE N == SE!Cardinality(churning)
<1>1. N \in Nat /\ IsFiniteSet(churning) /\ N = Cardinality(churning)
  BY TilesFinite, SettleCardinality
<1>2. PICK r : Walks(r, start, churning) /\ SE!Component(start, churning) = r[N]
  BY WalkExists
<1>3. /\ r[0] = {start}
      /\ \A n \in 0..(N - 1) : r[n + 1] = Near(r[n], churning)
  BY <1>2 DEF Walks
<1> HIDE DEF N
<1>4. \A n \in 0..N : start \in r[n] /\ r[n] \subseteq churning
  <2> DEFINE S == {n \in 0..N : start \in r[n] /\ r[n] \subseteq churning}
  <2>1. 0 \in S BY <1>1, <1>3
  <2>2. ASSUME NEW n \in 0..(N - 1), n \in S PROVE n + 1 \in S
    <3>1. n + 1 \in 0..N BY <1>1
    <3>2. QED BY <1>3, <2>2, <3>1 DEF Near
  <2> HIDE DEF S
  <2>3. \A n \in 0..N : n \in S BY <1>1, <2>1, <2>2, Onward
  <2>4. QED BY <2>3 DEF S
<1>5. \A n \in 0..N : SE!Closed(r[n], churning) \/ Cardinality(r[n]) >= n + 1
  <2> DEFINE S == {n \in 0..N : SE!Closed(r[n], churning) \/ Cardinality(r[n]) >= n + 1}
  <2>1. 0 \in S
    <3>1. Cardinality(r[0]) = 1 BY <1>3, FS_Singleton
    <3>2. QED BY <1>1, <3>1
  <2>2. ASSUME NEW n \in 0..(N - 1), n \in S PROVE n + 1 \in S
    <3>1. n + 1 \in 0..N /\ n \in 0..N BY <1>1
    <3>2. r[n] \subseteq churning /\ start \in r[n] BY <1>4, <3>1
    <3>3. r[n + 1] = Near(r[n], churning) BY <1>3
    <3>4. CASE SE!Closed(r[n], churning)
      <4>1. \A t \in churning : (\E s \in r[n] : SE!Adjacent(s, t)) => t \in r[n]
        BY <3>2, <3>4, AdjacentBothWays DEF SE!Closed
      <4>2. r[n + 1] = r[n] BY <3>3, <4>1 DEF Near
      <4>3. QED BY <3>1, <3>4, <4>2
    <3>5. CASE ~SE!Closed(r[n], churning)
      <4>1. PICK t \in r[n], s \in churning : SE!Adjacent(s, t) /\ s \notin r[n]
        BY <3>2, <3>5 DEF SE!Closed
      <4>2. s \in r[n + 1] /\ r[n] \subseteq r[n + 1]
        BY <3>2, <3>3, <4>1, AdjacentBothWays DEF Near
      <4>3. r[n] \cup {s} \subseteq r[n + 1] BY <4>2
      <4>4. r[n + 1] \subseteq churning BY <1>4, <3>1
      <4>5. IsFiniteSet(r[n + 1]) /\ IsFiniteSet(r[n])
        BY <1>1, <3>2, <4>4, FS_Subset
      <4>6. /\ Cardinality(r[n] \cup {s}) = Cardinality(r[n]) + 1
            /\ Cardinality(r[n] \cup {s}) <= Cardinality(r[n + 1])
            /\ Cardinality(r[n]) \in Nat /\ Cardinality(r[n + 1]) \in Nat
        BY <4>1, <4>3, <4>5, FS_AddElement, FS_Subset, FS_CardinalityType
      <4>7. Cardinality(r[n]) >= n + 1 BY <2>2, <3>5
      <4>8. Cardinality(r[n + 1]) >= (n + 1) + 1 BY <1>1, <4>6, <4>7
      <4>9. QED BY <3>1, <4>8
    <3>6. QED BY <3>4, <3>5
  <2> HIDE DEF S
  <2>3. \A n \in 0..N : n \in S BY <1>1, <2>1, <2>2, Onward
  <2>4. QED BY <2>3 DEF S
<1>6. N \in 0..N BY <1>1
<1>7. start \in r[N] /\ r[N] \subseteq churning BY <1>4, <1>6
<1>8. SE!Closed(r[N], churning)
  <2>1. Cardinality(r[N]) <= N /\ Cardinality(r[N]) \in Nat
    BY <1>1, <1>7, FS_Subset, FS_CardinalityType
  <2>2. ~(Cardinality(r[N]) >= N + 1) BY <1>1, <2>1
  <2>3. QED BY <1>5, <1>6, <2>2
<1>9. ASSUME NEW ts \in SUBSET churning, SE!Closed(ts, churning), start \in ts
      PROVE  r[N] \subseteq ts
  <2> DEFINE S == {n \in 0..N : r[n] \subseteq ts}
  <2>1. 0 \in S BY <1>1, <1>3, <1>9
  <2>2. ASSUME NEW n \in 0..(N - 1), n \in S PROVE n + 1 \in S
    <3>1. n + 1 \in 0..N BY <1>1
    <3>2. \A t \in churning : (\E s \in ts : SE!Adjacent(s, t)) => t \in ts
      BY <1>9, AdjacentBothWays DEF SE!Closed
    <3>3. QED BY <1>3, <2>2, <3>1, <3>2 DEF Near
  <2> HIDE DEF S
  <2>3. \A n \in 0..N : n \in S BY <1>1, <2>1, <2>2, Onward
  <2>4. QED BY <1>6, <2>3 DEF S
<1>10. ASSUME NEW ts \in SUBSET churning, SE!Closed(ts, churning), start \notin ts
       PROVE  ts \cap r[N] = {}
  <2> DEFINE S == {n \in 0..N : ts \cap r[n] = {}}
  <2>1. 0 \in S BY <1>1, <1>3, <1>10
  <2>2. ASSUME NEW n \in 0..(N - 1), n \in S PROVE n + 1 \in S
    <3>1. n + 1 \in 0..N /\ n \in 0..N BY <1>1
    <3>2. r[n] \subseteq churning BY <1>4, <3>1
    <3>3. \A t \in ts : \A s \in r[n] : ~SE!Adjacent(s, t)
      BY <1>10, <2>2, <3>2 DEF SE!Closed
    <3>4. QED BY <1>3, <2>2, <3>1, <3>3 DEF Near
  <2> HIDE DEF S
  <2>3. \A n \in 0..N : n \in S BY <1>1, <2>1, <2>2, Onward
  <2>4. QED BY <1>6, <2>3 DEF S
<1>11. QED BY <1>2, <1>7, <1>8, <1>9, <1>10

(* The rectangles of any set of churning tiles are the boxes of its         *)
(* connected components.                                                    *)
LEMMA ComponentsBoxed ==
  ASSUME NEW churning \in SUBSET SE!Tiles
  PROVE  SE!BoxesOfComponents(churning)
<1> DEFINE Parts == {ts \in SUBSET churning :
                       /\ SE!Closed(ts, churning)
                       /\ \A sub \in SUBSET ts : SE!Closed(sub, churning) => sub = ts}
<1>1. ASSUME NEW t \in churning PROVE SE!Component(t, churning) \in Parts
  <2> DEFINE C == SE!Component(t, churning)
  <2>1. /\ t \in C /\ C \subseteq churning /\ SE!Closed(C, churning)
        /\ \A ts \in SUBSET churning : SE!Closed(ts, churning) =>
             IF t \in ts THEN C \subseteq ts ELSE ts \cap C = {}
    BY ComponentReached
  <2> HIDE DEF C
  <2>2. ASSUME NEW sub \in SUBSET C, SE!Closed(sub, churning) PROVE sub = C
    <3>1. sub # {} BY <2>2 DEF SE!Closed
    <3>2. sub \in SUBSET churning BY <2>1
    <3>3. QED BY <2>1, <2>2, <3>1, <3>2
  <2>3. QED BY <2>1, <2>2 DEF C
<1>2. ASSUME NEW ts \in Parts PROVE \E t \in churning : ts = SE!Component(t, churning)
  <2>1. PICK t : t \in ts BY DEF SE!Closed
  <2>2. t \in churning BY <2>1
  <2>3. /\ SE!Component(t, churning) \subseteq ts
        /\ SE!Closed(SE!Component(t, churning), churning)
    BY <2>1, <2>2, ComponentReached
  <2>4. QED BY <2>2, <2>3
<1>3. SE!ChurnRects(churning) = {SE!Box(ts) : ts \in Parts}
  <2> HIDE DEF Parts
  <2>1. QED BY <1>1, <1>2 DEF SE!ChurnRects
<1>4. QED BY <1>3 DEF SE!BoxesOfComponents

LEMMA LeastAndGreatest ==
  ASSUME NEW k \in Nat, NEW S \in SUBSET (0..k), S # {}
  PROVE  /\ SE!Min(S) \in S /\ SE!Max(S) \in S
         /\ \A x \in S : SE!Min(S) <= x /\ x <= SE!Max(S)
<1>1. \E m \in S : \A x \in S : m <= x
  <2>1. S \in SUBSET Nat OBVIOUS
  <2>2. QED BY <2>1, LeastOfSet
<1>2. \E m \in S : \A x \in S : m >= x
  <2> DEFINE T == {k - x : x \in S}
  <2>1. \A x \in S : k - x \in Nat /\ k - x \in T OBVIOUS
  <2>2. PICK m \in T : \A y \in T : m <= y
    <3>1. T \in SUBSET Nat BY <2>1
    <3>2. T # {} BY <2>1
    <3> HIDE DEF T
    <3>3. QED BY <3>1, <3>2, LeastOfSet
  <2>3. PICK x \in S : m = k - x BY <2>2
  <2>4. \A y \in S : k - x <= k - y BY <2>2, <2>3
  <2>5. \A y \in S : x >= y BY <2>4
  <2>6. QED BY <2>5
<1>3. SE!Min(S) \in S /\ \A x \in S : SE!Min(S) <= x BY <1>1 DEF SE!Min
<1>4. SE!Max(S) \in S /\ \A x \in S : SE!Max(S) >= x BY <1>2 DEF SE!Max
<1>5. QED
  <2>1. \A x \in S : x <= SE!Max(S) BY <1>4
  <2>2. QED BY <1>3, <1>4, <2>1

\* A box covers what it is drawn around, and lies on the screen.
LEMMA BoxCovers ==
  ASSUME NEW ts \in SUBSET SE!Tiles, ts # {}
  PROVE  ts \subseteq SE!Box(ts) /\ SE!Box(ts) \subseteq SE!Tiles
<1> DEFINE X == {t[1] : t \in ts}
           Y == {t[2] : t \in ts}
<1>1. \A t \in ts : /\ t[1] \in 0..(Cols - 1) /\ t[2] \in 0..(Rows - 1)
                    /\ t = <<t[1], t[2]>>
  BY DEF SE!Tiles
<1>2. X \in SUBSET (0..(Cols - 1)) /\ X # {} /\ Y \in SUBSET (0..(Rows - 1)) /\ Y # {}
  BY <1>1
<1>3. Cols - 1 \in Nat /\ Rows - 1 \in Nat BY SettleConstants
<1> HIDE DEF X, Y
<1>4. /\ SE!Min(X) \in 0..(Cols - 1) /\ SE!Max(X) \in 0..(Cols - 1)
      /\ \A x \in X : SE!Min(X) <= x /\ x <= SE!Max(X)
  BY <1>2, <1>3, LeastAndGreatest
<1>5. /\ SE!Min(Y) \in 0..(Rows - 1) /\ SE!Max(Y) \in 0..(Rows - 1)
      /\ \A y \in Y : SE!Min(Y) <= y /\ y <= SE!Max(Y)
  BY <1>2, <1>3, LeastAndGreatest
<1>6. SE!Box(ts) = (SE!Min(X)..SE!Max(X)) \X (SE!Min(Y)..SE!Max(Y))
  BY DEF SE!Box, SE!Span, X, Y
<1>7. ASSUME NEW t \in ts PROVE t \in SE!Box(ts)
  <2>1. t[1] \in X /\ t[2] \in Y BY DEF X, Y
  <2>2. /\ t[1] \in 0..(Cols - 1) /\ t[2] \in 0..(Rows - 1) /\ t = <<t[1], t[2]>>
    BY <1>1
  <2>3. t[1] \in SE!Min(X)..SE!Max(X) /\ t[2] \in SE!Min(Y)..SE!Max(Y)
    BY <1>3, <1>4, <1>5, <2>1, <2>2
  <2>4. QED BY <1>6, <2>2, <2>3
<1>8. SE!Min(X)..SE!Max(X) \subseteq 0..(Cols - 1) /\ SE!Min(Y)..SE!Max(Y) \subseteq 0..(Rows - 1)
  BY <1>3, <1>4, <1>5
<1>9. QED BY <1>6, <1>7, <1>8 DEF SE!Tiles

LEMMA RectsCover ==
  ASSUME NEW churning \in SUBSET SE!Tiles
  PROVE  /\ churning \subseteq UNION SE!ChurnRects(churning)
         /\ UNION SE!ChurnRects(churning) \subseteq SE!Tiles
<1>1. ASSUME NEW t \in churning
      PROVE  /\ t \in SE!Box(SE!Component(t, churning))
             /\ SE!Box(SE!Component(t, churning)) \subseteq SE!Tiles
  <2>1. t \in SE!Component(t, churning) /\ SE!Component(t, churning) \subseteq churning
    BY ComponentReached
  <2>2. QED BY <2>1, BoxCovers
<1>2. QED BY <1>1 DEF SE!ChurnRects

-----------------------------------------------------------------------------
(* The detector: its verdicts.                                              *)

\* The tail of a window tells for how long its tile has been unchanged.
Windows ==
  \A t \in SE!Tiles :
    LET w == window[t]
        n == Len(window[t])
    IN /\ stable[t] <= n
       /\ \A i \in 1..n : i > n - stable[t] => ~w[i]
       /\ stable[t] < SettleFrames /\ stable[t] < n => w[n - stable[t]]
       /\ n >= stuck \/ n = ChurnWindow

\* Since the last settled verdict only the lone tiles have changed; a single
\* one of them has no clean run, and its polls without one are counted.
Awaited ==
  /\ \A t \in SE!Tiles \ lone : stable[t] >= stuck \/ stable[t] = SettleFrames
  /\ lone = {} => stuck < SettleFrames
  /\ Cols * Rows > 1 =>
       \A t \in SE!Tiles : lone = {t} /\ stuck >= SettleFrames =>
         /\ unclean[t] >= stuck - SettleFrames + 1
         /\ unclean[t] < ChurnWindow

SettleInv == SE!TypeOK /\ Windows /\ Awaited /\ SE!SettledIsStill

LEMMA SettleInit == SE!Init => SettleInv
<1> SUFFICES ASSUME SE!Init PROVE SettleInv OBVIOUS
<1> USE SettleConstants DEF SE!Init
<1>1. \A t \in SE!Tiles : window[t] = <<>> /\ stable[t] = 0 OBVIOUS
<1>2. <<>> \in Seq(BOOLEAN) /\ Len(<<>>) = 0 OBVIOUS
<1>3. SE!TypeOK
  <2>1. \A t \in SE!Tiles : window[t] \in Seq(BOOLEAN) /\ Len(window[t]) <= ChurnWindow
    BY <1>1, <1>2
  <2>2. stable \in [SE!Tiles -> 0..SettleFrames] /\ unclean \in [SE!Tiles -> 0..ChurnWindow]
    OBVIOUS
  <2>3. warm \in BOOLEAN BY Zenon
  <2>4. /\ verdict \in {"warmup", "unsettled", "settled"}
        /\ moving \in SUBSET SE!Tiles /\ lone \in SUBSET SE!Tiles /\ stuck \in Nat
    OBVIOUS
  <2>5. QED BY <2>1, <2>2, <2>3, <2>4 DEF SE!TypeOK
<1>4. Windows BY <1>1, <1>2 DEF Windows
<1>5. Awaited /\ SE!SettledIsStill BY DEF Awaited, SE!SettledIsStill
<1>6. QED BY <1>3, <1>4, <1>5 DEF SettleInv

\* A window that has slid by one poll.
LEMMA SlideMoves ==
  ASSUME NEW w \in Seq(BOOLEAN), Len(w) <= ChurnWindow, NEW flag \in BOOLEAN
  PROVE  LET v == SE!Slide(w, flag)
             n == Len(SE!Slide(w, flag))
         IN /\ v \in Seq(BOOLEAN)
            /\ n = IF Len(w) = ChurnWindow THEN ChurnWindow ELSE Len(w) + 1
            /\ v[n] = flag
            /\ \A i \in 1..(n - 1) : v[i] = w[i + (Len(w) + 1 - n)]
<1> USE SettleConstants
<1>1. CASE Len(w) = ChurnWindow
  <2>1. w # <<>> BY <1>1
  <2>2. /\ Tail(w) \in Seq(BOOLEAN) /\ Len(Tail(w)) = Len(w) - 1
        /\ \A i \in 1..(Len(w) - 1) : Tail(w)[i] = w[i + 1]
    BY <2>1, HeadTailProperties
  <2>3. SE!Slide(w, flag) = Append(Tail(w), flag) BY <1>1 DEF SE!Slide
  <2> DEFINE u == Tail(w)
  <2> HIDE DEF u
  <2>4. /\ u \in Seq(BOOLEAN) /\ Len(u) = ChurnWindow - 1
        /\ \A i \in 1..(ChurnWindow - 1) : u[i] = w[i + 1]
        /\ SE!Slide(w, flag) = Append(u, flag)
    BY <1>1, <2>2, <2>3 DEF u
  <2>5. /\ Append(u, flag) \in Seq(BOOLEAN)
        /\ Len(Append(u, flag)) = Len(u) + 1
        /\ Append(u, flag)[Len(u) + 1] = flag
        /\ \A i \in 1..Len(u) : Append(u, flag)[i] = u[i]
    BY <2>4, AppendProperties
  <2> DEFINE v == Append(u, flag)
  <2> HIDE DEF v
  <2>6. /\ v \in Seq(BOOLEAN) /\ Len(v) = ChurnWindow /\ v[ChurnWindow] = flag
        /\ \A i \in 1..(ChurnWindow - 1) : v[i] = w[i + 1]
    BY <2>4, <2>5 DEF v
  <2>7. \A i \in 1..(Len(v) - 1) : v[i] = w[i + (Len(w) + 1 - Len(v))]
    BY <1>1, <2>6
  <2>8. QED BY <1>1, <2>4, <2>6, <2>7 DEF v
<1>2. CASE Len(w) # ChurnWindow
  <2>1. SE!Slide(w, flag) = Append(w, flag) BY <1>2 DEF SE!Slide
  <2>2. /\ Append(w, flag) \in Seq(BOOLEAN)
        /\ Len(Append(w, flag)) = Len(w) + 1
        /\ Append(w, flag)[Len(w) + 1] = flag
        /\ \A i \in 1..Len(w) : Append(w, flag)[i] = w[i]
    BY AppendProperties
  <2>3. QED BY <1>2, <2>1, <2>2
<1>3. QED BY <1>1, <1>2

\* What a poll leaves, tile by tile, and the verdict it gives on it.
Churns == {t \in SE!Tiles : SE!IsChurning(stable[t], window[t], unclean[t])}
Holds  == ~SE!Transition(Churns) /\ \A t \in SE!Tiles \ Churns : stable[t] >= SettleFrames

LEMMA PushMoves ==
  ASSUME SE!TypeOK, NEW poll \in SUBSET SE!Tiles, SE!Push(poll)
  PROVE  /\ \A t \in SE!Tiles :
              /\ stable'[t] = IF t \in poll THEN 0 ELSE SE!Upto(stable[t] + 1, SettleFrames)
              /\ window'[t] = SE!Slide(window[t], t \in poll)
              /\ unclean'[t] = IF t \notin poll /\ SE!Clean(stable'[t]) THEN 0
                               ELSE SE!Upto(unclean[t] + 1, ChurnWindow)
         /\ stable' \in [SE!Tiles -> 0..SettleFrames]
         /\ unclean' \in [SE!Tiles -> 0..ChurnWindow]
         /\ verdict' = IF Holds' THEN "settled" ELSE "unsettled"
         /\ moving' = IF Holds' THEN UNION SE!ChurnRects(Churns') ELSE {}
         /\ lone' = IF Holds' THEN {} ELSE lone \cup poll
         /\ stuck' = IF Holds' THEN 0 ELSE SE!Upto(stuck + 1, 2 * ChurnWindow)
         /\ warm' = warm
<1> DEFINE st == [t \in SE!Tiles |-> IF t \in poll THEN 0
                                     ELSE SE!Upto(stable[t] + 1, SettleFrames)]
           w  == [t \in SE!Tiles |-> SE!Slide(window[t], t \in poll)]
           un == [t \in SE!Tiles |-> IF t \notin poll /\ SE!Clean(st[t]) THEN 0
                                     ELSE SE!Upto(unclean[t] + 1, ChurnWindow)]
           churning == {t \in SE!Tiles : SE!IsChurning(st[t], w[t], un[t])}
           settled == /\ ~SE!Transition(churning)
                      /\ \A t \in SE!Tiles \ churning : st[t] >= SettleFrames
<1>1. /\ stable' = st /\ window' = w /\ unclean' = un
      /\ verdict' = IF settled THEN "settled" ELSE "unsettled"
      /\ moving' = IF settled THEN UNION SE!ChurnRects(churning) ELSE {}
      /\ lone' = IF settled THEN {} ELSE lone \cup poll
      /\ stuck' = IF settled THEN 0 ELSE SE!Upto(stuck + 1, 2 * ChurnWindow)
      /\ warm' = warm
  BY DEF SE!Push
<1>2. \A t \in SE!Tiles :
        /\ st[t] = IF t \in poll THEN 0 ELSE SE!Upto(stable[t] + 1, SettleFrames)
        /\ w[t] = SE!Slide(window[t], t \in poll)
        /\ un[t] = IF t \notin poll /\ SE!Clean(st[t]) THEN 0
                   ELSE SE!Upto(unclean[t] + 1, ChurnWindow)
  OBVIOUS
<1>3. st \in [SE!Tiles -> 0..SettleFrames]
  <2>1. \A t \in SE!Tiles : SE!Upto(stable[t] + 1, SettleFrames) \in 0..SettleFrames
    BY SettleConstants DEF SE!TypeOK, SE!Upto
  <2>2. QED BY <2>1, SettleConstants
<1>4. un \in [SE!Tiles -> 0..ChurnWindow]
  <2>1. \A t \in SE!Tiles : SE!Upto(unclean[t] + 1, ChurnWindow) \in 0..ChurnWindow
    BY SettleConstants DEF SE!TypeOK, SE!Upto
  <2>2. QED BY <2>1, SettleConstants
<1> HIDE DEF st, w, un
<1>5. churning = Churns' BY <1>1 DEF Churns
<1> HIDE DEF churning
<1>6. settled = Holds' BY <1>1, <1>5 DEF Holds
<1> HIDE DEF settled
<1>7. QED BY <1>1, <1>2, <1>3, <1>4, <1>5, <1>6

LEMMA WindowsKept ==
  ASSUME SE!TypeOK, Windows, NEW poll \in SUBSET SE!Tiles, SE!Push(poll)
  PROVE  /\ Windows'
         /\ \A t \in SE!Tiles : window'[t] \in Seq(BOOLEAN) /\ Len(window'[t]) <= ChurnWindow
<1>0. stuck \in Nat /\ stuck' \in Nat /\ stuck' <= stuck + 1
  BY PushMoves, SettleConstants DEF SE!TypeOK, SE!Upto
<1> SUFFICES ASSUME NEW t \in SE!Tiles
             PROVE  LET v == window'[t]
                        n == Len(window'[t])
                    IN /\ v \in Seq(BOOLEAN) /\ n <= ChurnWindow
                       /\ stable'[t] <= n
                       /\ \A i \in 1..n : i > n - stable'[t] => ~v[i]
                       /\ stable'[t] < SettleFrames /\ stable'[t] < n => v[n - stable'[t]]
                       /\ n >= stuck' \/ n = ChurnWindow
  BY DEF Windows
<1> DEFINE w == window[t]
           s == stable[t]
           c == Len(w)
           v == window'[t]
           n == Len(v)
           flag == t \in poll
<1>1. /\ w \in Seq(BOOLEAN) /\ c \in Nat /\ c <= ChurnWindow /\ s \in 0..SettleFrames
      /\ s <= c
      /\ \A i \in 1..c : i > c - s => ~w[i]
      /\ s < SettleFrames /\ s < c => w[c - s]
      /\ c >= stuck \/ c = ChurnWindow
  <2>1. w \in Seq(BOOLEAN) /\ c <= ChurnWindow /\ s \in 0..SettleFrames BY DEF SE!TypeOK
  <2>2. c \in Nat BY <2>1
  <2>3. QED BY <2>1, <2>2 DEF Windows
<1>2. /\ v = SE!Slide(w, flag)
      /\ stable'[t] = IF flag THEN 0 ELSE SE!Upto(s + 1, SettleFrames)
      /\ flag \in BOOLEAN
  BY PushMoves
<1> HIDE DEF w, v, flag
<1>3. /\ v \in Seq(BOOLEAN)
      /\ n = IF c = ChurnWindow THEN ChurnWindow ELSE c + 1
      /\ v[n] = flag
      /\ \A i \in 1..(n - 1) : v[i] = w[i + (c + 1 - n)]
  BY <1>1, <1>2, SlideMoves
<1> HIDE DEF s, c, n
<1>4. n \in Nat /\ n >= 1 /\ n <= ChurnWindow /\ (n = c \/ n = c + 1)
  BY <1>1, <1>3, SettleConstants
<1>5. n >= stuck' \/ n = ChurnWindow BY <1>0, <1>1, <1>3, <1>4, SettleConstants
<1>6. CASE flag
  <2>1. stable'[t] = 0 /\ v[n] BY <1>2, <1>3, <1>6
  <2>2. \A i \in 1..n : ~(i > n - stable'[t]) BY <1>4, <2>1
  <2>3. n - stable'[t] = n BY <1>4, <2>1
  <2>4. QED BY <1>3, <1>4, <1>5, <2>1, <2>2, <2>3 DEF v, n
<1>7. CASE ~flag
  <2> DEFINE s1 == stable'[t]
  <2>1. s1 = (IF s < SettleFrames THEN s + 1 ELSE s) /\ ~v[n]
    BY <1>1, <1>2, <1>3, <1>7, SettleConstants DEF SE!Upto
  <2> HIDE DEF s1
  <2>2. s1 \in Nat /\ s1 >= s /\ s1 <= s + 1 /\ s1 >= 1 /\ s1 <= SettleFrames
    BY <1>1, <2>1, SettleConstants
  <2>3. s1 <= n BY <1>1, <1>3, <1>4, <2>1, <2>2, SettleConstants
  <2>4. ASSUME NEW i \in 1..n, i > n - s1 PROVE ~v[i]
    <3>1. CASE i = n BY <2>1, <3>1
    <3>2. CASE i # n
      <4>1. i \in 1..(n - 1) /\ i + (c + 1 - n) \in 1..c /\ i + (c + 1 - n) > c - s
        BY <1>1, <1>4, <2>2, <2>4, <3>2
      <4>2. QED BY <1>1, <1>3, <4>1
    <3>3. QED BY <3>1, <3>2
  <2>5. ASSUME s1 < SettleFrames, s1 < n PROVE v[n - s1]
    <3>1. s1 = s + 1 /\ s < SettleFrames BY <1>1, <2>1, <2>5
    <3>2. n - s1 \in 1..(n - 1) BY <1>4, <2>2, <2>5
    <3>3. (n - s1) + (c + 1 - n) = c - s /\ s < c BY <1>1, <1>4, <2>5, <3>1
    <3>4. QED BY <1>1, <1>3, <3>1, <3>2, <3>3
  <2>6. QED BY <1>3, <1>4, <1>5, <2>3, <2>4, <2>5 DEF v, n, s1
<1>8. QED BY <1>6, <1>7

\* Under a settled verdict the still tiles have been still.
LEMMA StillKept ==
  ASSUME SE!TypeOK, Windows, NEW poll \in SUBSET SE!Tiles, SE!Push(poll)
  PROVE  SE!SettledIsStill'
<1>1. Windows' /\ \A t \in SE!Tiles : window'[t] \in Seq(BOOLEAN) BY WindowsKept
<1> SUFFICES ASSUME verdict' = "settled", NEW t \in SE!Tiles \ moving'
             PROVE  LET n == Len(window'[t])
                    IN /\ n >= SettleFrames
                       /\ \A i \in (n - SettleFrames + 1)..n : ~window'[t][i]
  BY DEF SE!SettledIsStill
<1>2. Holds' /\ moving' = UNION SE!ChurnRects(Churns')
  <2>1. Holds' BY PushMoves
  <2>2. QED BY <2>1, PushMoves
<1>3. Churns' \in SUBSET SE!Tiles BY DEF Churns
<1>4. Churns' \subseteq moving' BY <1>2, <1>3, RectsCover
<1>5. stable'[t] >= SettleFrames BY <1>2, <1>4 DEF Holds
<1>6. stable'[t] = SettleFrames
  <2>1. stable'[t] \in 0..SettleFrames BY PushMoves
  <2>2. QED BY <1>5, <2>1, SettleConstants
<1> DEFINE n == Len(window'[t])
<1>7. n \in Nat BY <1>1
<1>8. n >= SettleFrames /\ \A i \in 1..n : i > n - SettleFrames => ~window'[t][i]
  BY <1>1, <1>6 DEF Windows
<1> HIDE DEF n
<1>9. ASSUME NEW i \in (n - SettleFrames + 1)..n PROVE i \in 1..n /\ i > n - SettleFrames
  BY <1>7, <1>8, SettleConstants
<1>10. QED BY <1>8, <1>9 DEF n

\* A tile with a change in its window that goes without a clean run for a
\* window's worth of polls churns.
LEMMA Blinks ==
  ASSUME NEW w \in Seq(BOOLEAN), NEW i \in 1..Len(w), w[i], NEW s \in 0..SettleFrames,
         s < SettleFrames
  PROVE  SE!IsChurning(s, w, ChurnWindow)
<1>1. IsFiniteSet(1..Len(w)) BY FS_Interval
<1> DEFINE S == {j \in DOMAIN w : w[j]}
<1>2. S \in SUBSET (1..Len(w)) /\ i \in S OBVIOUS
<1>3. IsFiniteSet(S) /\ S # {} BY <1>1, <1>2, FS_Subset
<1>4. Cardinality(S) \in Nat /\ Cardinality(S) # 0
  <2> HIDE DEF S
  <2>1. QED BY <1>3, FS_CardinalityType, FS_EmptySet
<1>5. SE!Changes(w) > 0 BY <1>4, SettleCardinality DEF SE!Changes
<1>6. ~SE!Clean(s) BY SettleConstants DEF SE!Clean
<1>7. QED BY <1>5, <1>6, SettleConstants DEF SE!IsChurning

\* A screen where all tiles but one are clean is settled, when that one is clean
\* too, or churns and is not the whole screen.
LEMMA OneLeft ==
  ASSUME SE!TypeOK, NEW t \in SE!Tiles,
         \A u \in SE!Tiles : u # t => stable[u] = SettleFrames,
         stable[t] = SettleFrames \/ (Cols * Rows > 1 /\ t \in Churns)
  PROVE  Holds
<1>1. \A u \in SE!Tiles : stable[u] = SettleFrames => u \notin Churns
  BY SettleConstants DEF Churns, SE!IsChurning, SE!Clean
<1>2. Churns \in SUBSET {t} BY <1>1 DEF Churns
<1> DEFINE k == SE!Cardinality(Churns)
           area == Cols * Rows
<1>3. k \in Nat /\ k <= 1
  <2>1. IsFiniteSet({t}) /\ Cardinality({t}) = 1 BY FS_Singleton
  <2>2. IsFiniteSet(Churns) /\ Cardinality(Churns) <= 1 BY <1>2, <2>1, FS_Subset
  <2>3. QED BY <2>2, FS_CardinalityType, SettleCardinality
<1>4. area \in Nat BY SettleConstants
<1>5. k = 0 \/ area > 1
  <2>1. stable[t] = SettleFrames => Churns = {} BY <1>1, <1>2
  <2>2. SE!Cardinality({}) = 0 BY FS_EmptySet, SettleCardinality
  <2>3. QED BY <2>1, <2>2
<1>6. ~SE!Transition(Churns)
  <2> HIDE DEF k, area
  <2>1. ~(2 * k > area) BY <1>3, <1>4, <1>5
  <2>2. QED BY <2>1 DEF SE!Transition, k, area
<1>7. \A u \in SE!Tiles \ Churns : stable[u] >= SettleFrames BY <1>2, SettleConstants
<1>8. QED BY <1>6, <1>7 DEF Holds

\* The same of a poll's outcome.
LEMMA OneLeftNext ==
  (SE!TypeOK =>
     \A t \in SE!Tiles :
       /\ \A u \in SE!Tiles : u # t => stable[u] = SettleFrames
       /\ stable[t] = SettleFrames \/ (Cols * Rows > 1 /\ t \in Churns)
       => Holds)'
<1>1. SE!TypeOK =>
        \A t \in SE!Tiles :
          /\ \A u \in SE!Tiles : u # t => stable[u] = SettleFrames
          /\ stable[t] = SettleFrames \/ (Cols * Rows > 1 /\ t \in Churns)
          => Holds
  BY OneLeft
<1>2. QED BY <1>1, PTL

LEMMA SettleTyped ==
  ASSUME SE!TypeOK, Windows, NEW poll \in SUBSET SE!Tiles, SE!Push(poll)
  PROVE  SE!TypeOK'
<1>1. UNION SE!ChurnRects(Churns') \subseteq SE!Tiles
  <2>1. Churns' \in SUBSET SE!Tiles BY DEF Churns
  <2>2. QED BY <2>1, RectsCover
<1>2. \A t \in SE!Tiles : window'[t] \in Seq(BOOLEAN) /\ Len(window'[t]) <= ChurnWindow
  BY WindowsKept
<1>3. /\ stable' \in [SE!Tiles -> 0..SettleFrames] /\ unclean' \in [SE!Tiles -> 0..ChurnWindow]
      /\ verdict' \in {"settled", "unsettled"} /\ moving' \in SUBSET SE!Tiles
      /\ lone' \in SUBSET SE!Tiles /\ warm' = warm
  BY <1>1, PushMoves DEF SE!TypeOK
<1>4. stuck' \in Nat BY PushMoves, SettleConstants DEF SE!Upto, SE!TypeOK
<1>5. QED BY <1>2, <1>3, <1>4 DEF SE!TypeOK

LEMMA AwaitedKept ==
  ASSUME SE!TypeOK, Windows, Awaited, NEW poll \in SUBSET SE!Tiles, SE!Push(poll)
  PROVE  Awaited'
<1>1. SE!TypeOK' /\ Windows' BY SettleTyped, WindowsKept
<1>2. CASE Holds'
  <2>1. lone' = {} /\ stuck' = 0 BY <1>2, PushMoves
  <2>2. \A t \in SE!Tiles : stable'[t] >= stuck' BY <1>1, <2>1 DEF SE!TypeOK
  <2>3. QED BY <2>1, <2>2, SettleConstants DEF Awaited
<1>3. CASE ~Holds'
  <2>1. /\ lone' = lone \cup poll /\ stuck \in Nat
        /\ stuck' = IF stuck + 1 < 2 * ChurnWindow THEN stuck + 1 ELSE 2 * ChurnWindow
    BY <1>3, PushMoves DEF SE!Upto, SE!TypeOK
  <2>2. stuck' \in Nat /\ stuck' <= stuck + 1 BY <2>1, SettleConstants
  <2>3. ASSUME NEW t \in SE!Tiles \ lone'
        PROVE  stable'[t] >= stuck' \/ stable'[t] = SettleFrames
    <3>1. t \notin lone /\ t \notin poll BY <2>1
    <3>2. stable[t] >= stuck \/ stable[t] = SettleFrames BY <3>1 DEF Awaited
    <3>3. stable[t] \in 0..SettleFrames BY DEF SE!TypeOK
    <3>4. stable'[t] = SE!Upto(stable[t] + 1, SettleFrames) BY <3>1, PushMoves
    <3>5. QED BY <2>1, <2>2, <3>2, <3>3, <3>4, SettleConstants DEF SE!Upto
  <2>4. ASSUME stuck' >= SettleFrames, NEW t \in SE!Tiles \ lone'
        PROVE  stable'[t] = SettleFrames
    <3>1. stable'[t] \in 0..SettleFrames BY <1>1 DEF SE!TypeOK
    <3>2. QED BY <2>2, <2>3, <2>4, <3>1, SettleConstants
  <2>5. ASSUME lone' = {} PROVE stuck' < SettleFrames
    <3>1. SUFFICES ASSUME stuck' >= SettleFrames PROVE FALSE
      BY <2>2, SettleConstants
    <3>2. \A t \in SE!Tiles : stable'[t] = SettleFrames BY <2>4, <2>5, <3>1
    <3>3. <<0, 0>> \in SE!Tiles BY SettleConstants DEF SE!Tiles
    <3>4. QED BY <1>1, <1>3, <3>2, <3>3, OneLeftNext
  <2>6. ASSUME Cols * Rows > 1, NEW t \in SE!Tiles, lone' = {t}, stuck' >= SettleFrames
        PROVE  unclean'[t] >= stuck' - SettleFrames + 1 /\ unclean'[t] < ChurnWindow
    <3>1. \A u \in SE!Tiles : u # t => stable'[u] = SettleFrames BY <2>4, <2>6
    <3>2. stable'[t] # SettleFrames /\ t \notin Churns'
      BY <1>1, <1>3, <2>6, <3>1, OneLeftNext
    <3>3. stable'[t] \in 0..SettleFrames /\ stable'[t] < SettleFrames
      <4>1. stable'[t] \in 0..SettleFrames BY <1>1 DEF SE!TypeOK
      <4>2. QED BY <3>2, <4>1, SettleConstants
    <3>4. unclean'[t] = SE!Upto(unclean[t] + 1, ChurnWindow)
      BY <3>3, PushMoves, SettleConstants DEF SE!Clean
    <3>5. unclean[t] \in 0..ChurnWindow /\ unclean'[t] \in 0..ChurnWindow
      BY <1>1 DEF SE!TypeOK
    <3>6. unclean'[t] # ChurnWindow
      <4> DEFINE w == window'[t]
                 n == Len(window'[t])
      <4>1. w \in Seq(BOOLEAN) /\ n \in Nat BY WindowsKept
      <4>2. n >= stuck' \/ n = ChurnWindow BY <1>1 DEF Windows
      <4>3. stable'[t] < n BY <2>2, <2>6, <3>3, <4>1, <4>2, SettleConstants
      <4>4. w[n - stable'[t]] BY <1>1, <3>3, <4>3 DEF Windows
      <4>5. n - stable'[t] \in 1..n BY <3>3, <4>1, <4>3
      <4>6. SE!IsChurning(stable'[t], w, ChurnWindow)
        BY <3>3, <4>1, <4>4, <4>5, Blinks
      <4>7. QED BY <3>2, <4>6 DEF Churns
    <3>7. unclean'[t] = unclean[t] + 1
      BY <3>4, <3>5, <3>6, SettleConstants DEF SE!Upto
    <3>8. stuck < SettleFrames \/ unclean[t] >= stuck - SettleFrames + 1
      <4>1. lone = {} \/ lone = {t} BY <2>1, <2>6
      <4>2. CASE lone = {} BY <4>2 DEF Awaited
      <4>3. CASE lone = {t} BY <2>1, <2>6, <4>3, SettleConstants DEF Awaited
      <4>4. QED BY <4>1, <4>2, <4>3
    <3>9. QED BY <2>1, <2>2, <2>6, <3>5, <3>6, <3>7, <3>8, SettleConstants
  <2>7. QED BY <2>3, <2>5, <2>6 DEF Awaited
<1>4. QED BY <1>2, <1>3

LEMMA SettleStep == SettleInv /\ [SE!Next]_(SE!vars) => SettleInv'
<1> SUFFICES ASSUME SettleInv, [SE!Next]_(SE!vars) PROVE SettleInv' OBVIOUS
<1>1. SE!TypeOK /\ Windows /\ Awaited BY DEF SettleInv
<1>2. ASSUME NEW poll \in SUBSET SE!Tiles, SE!Push(poll) PROVE SettleInv'
  BY <1>1, <1>2, SettleTyped, WindowsKept, AwaitedKept, StillKept DEF SettleInv
<1>3. CASE SE!PushWrongSize \/ SE!PushFirst
  <2>1. /\ UNCHANGED <<stable, window, unclean, lone, stuck>>
        /\ verdict' \in {"unsettled", "warmup"} /\ moving' = {} /\ warm' \in {warm, TRUE}
    BY <1>3 DEF SE!PushWrongSize, SE!PushFirst, SE!tileVars
  <2>2. SE!TypeOK' BY <1>1, <2>1 DEF SE!TypeOK
  <2>3. Windows' /\ Awaited' BY <1>1, <2>1 DEF Windows, Awaited
  <2>4. SE!SettledIsStill' BY <2>1 DEF SE!SettledIsStill
  <2>5. QED BY <2>2, <2>3, <2>4 DEF SettleInv
<1>4. CASE UNCHANGED SE!vars
  BY <1>4
  DEF SettleInv, SE!TypeOK, Windows, Awaited, SE!SettledIsStill, SE!vars, SE!tileVars
<1>5. QED BY <1>2, <1>3, <1>4 DEF SE!Next

LEMMA SettleSafe ==
  SettleInv =>
    /\ SE!TypeOK /\ SE!SettledIsStill /\ SE!LoneSpotPasses
    /\ \A churning \in SUBSET SE!Tiles : SE!BoxesOfComponents(churning)
<1> SUFFICES ASSUME SettleInv PROVE SE!LoneSpotPasses
  BY ComponentsBoxed DEF SettleInv
<1>1. SUFFICES ASSUME Cols * Rows > 1, SE!Cardinality(lone) = 1
               PROVE  stuck < ChurnWindow + SettleFrames
  BY DEF SE!LoneSpotPasses
<1>2. lone \in SUBSET SE!Tiles /\ stuck \in Nat BY DEF SettleInv, SE!TypeOK
<1>3. PICK t : lone = {t} BY <1>1, <1>2, TilesFinite, SettleCardinality, FS_Singleton
<1>4. t \in SE!Tiles BY <1>2, <1>3
<1>5. unclean[t] \in Nat BY <1>4 DEF SettleInv, SE!TypeOK
<1>6. stuck >= SettleFrames =>
        unclean[t] >= stuck - SettleFrames + 1 /\ unclean[t] < ChurnWindow
  BY <1>1, <1>3, <1>4 DEF SettleInv, Awaited
<1>7. QED BY <1>2, <1>5, <1>6, SettleConstants

-----------------------------------------------------------------------------
(* The output.  What is made of the reads is followed from read to read: a  *)
(* recursive function of their number exists (Counting!RecursionExists),    *)
(* and so what one read keeps holds at the end.                             *)

\* The concatenation of pieces, one piece at a time.
LEMMA FlattenPieces ==
  ASSUME NEW B, NEW s \in Seq(Seq(B)),
         NEW c \in [0..Len(s) -> Seq(B)], c[0] = <<>>,
         \A n \in 1..Len(s) : c[n] = c[n - 1] \o s[n]
  PROVE  OU!FlattenSeq(s) = c[Len(s)]
<1> DEFINE N == Len(s)
<1>1. N \in Nat /\ \A i \in 1..N : s[i] \in Seq(B) OBVIOUS
<1>2. CASE N = 0
  <2>1. s = <<>> BY <1>2
  <2>2. QED BY <1>2, <2>1 DEF OU!FlattenSeq
<1>3. CASE N # 0
  <2> DEFINE Is(f) == f = [i \in 1..N |-> IF i = 1 THEN s[i] ELSE f[i - 1] \o s[i]]
             g == [i \in 1..N |-> c[i]]
             h == CHOOSE f : Is(f)
  <2>1. c[1] = s[1]
    <3>1. 1 \in 1..N BY <1>1, <1>3
    <3>2. c[1] = c[1 - 1] \o s[1] BY <3>1
    <3>3. c[1] = c[0] \o s[1] BY <3>2
    <3>4. QED BY <1>1, <3>1, <3>3, ConcatEmptySeq
  <2>2. \A i \in 1..N : i # 1 => i - 1 \in 1..N /\ g[i - 1] = c[i - 1] OBVIOUS
  <2>3. \A i \in 1..N : g[i] = IF i = 1 THEN s[i] ELSE g[i - 1] \o s[i] BY <2>1, <2>2
  <2>4. g = [i \in 1..N |-> g[i]] OBVIOUS
  <2> HIDE DEF g
  <2>5. Is(g) BY <2>3, <2>4
  <2>6. Is(h)
    <3> HIDE DEF Is
    <3>1. QED BY <2>5
  <2>7. OU!FlattenSeq(s) = h[N] BY <1>3 DEF OU!FlattenSeq
  <2> DEFINE Same == {n \in 0..N : n # 0 => h[n] = c[n]}
  <2>8. \A i \in 1..N : h[i] = IF i = 1 THEN s[i] ELSE h[i - 1] \o s[i] BY <2>6
  <2> HIDE DEF h, N
  <2>9. 0 \in Same BY <1>1
  <2>10. ASSUME NEW n \in 0..(N - 1), n \in Same PROVE n + 1 \in Same
    <3>1. n + 1 \in 1..N /\ (n + 1) - 1 = n /\ (n # 0 => n + 1 # 1) BY <1>1
    <3>2. CASE n = 0 BY <2>1, <2>8, <3>1, <3>2
    <3>3. CASE n # 0
      <4>1. h[n + 1] = h[n] \o s[n + 1] BY <2>8, <3>1, <3>3
      <4>2. c[n + 1] = c[n] \o s[n + 1] BY <3>1 DEF N
      <4>3. h[n] = c[n] BY <2>10, <3>3
      <4>4. n + 1 \in 0..N /\ h[n + 1] = c[n + 1] BY <3>1, <4>1, <4>2, <4>3
      <4>5. QED BY <4>4
    <3>4. QED BY <3>2, <3>3
  <2> HIDE DEF Same
  <2>11. N \in Same
    <3>1. \A n \in 0..N : n \in Same BY <1>1, <2>9, <2>10, Onward
    <3>2. QED BY <1>1, <3>1
  <2>12. h[N] = c[N] BY <1>3, <2>11 DEF Same
  <2>13. QED BY <2>7, <2>12 DEF N
<1>4. QED BY <1>2, <1>3

LEMMA FlattenAppend ==
  ASSUME NEW B, NEW s \in Seq(Seq(B)), NEW p \in Seq(B)
  PROVE  /\ OU!FlattenSeq(<<>>) = <<>>
         /\ OU!FlattenSeq(s) \in Seq(B)
         /\ OU!FlattenSeq(Append(s, p)) = OU!FlattenSeq(s) \o p
<1> DEFINE t == Append(s, p)
           N == Len(t)
           F == [x \in (1..N) \X Seq(B) |-> x[2] \o t[x[1]]]
<1>1. /\ t \in Seq(Seq(B)) /\ N = Len(s) + 1 /\ N \in Nat /\ Len(s) \in Nat
      /\ \A i \in 1..Len(s) : t[i] = s[i]
      /\ t[N] = p
  BY AppendProperties
<1>2. \A i \in 1..N : t[i] \in Seq(B) BY <1>1
<1> HIDE DEF t, N
<1>3. \A i \in 1..N : \A a \in Seq(B) : a \o t[i] \in Seq(B) BY <1>2, ConcatProperties
<1>4. F \in [(1..N) \X Seq(B) -> Seq(B)] BY <1>3
<1>5. <<>> \in Seq(B) OBVIOUS
<1>6. \A i \in 1..N : \A a \in Seq(B) : F[<<i, a>>] = a \o t[i] OBVIOUS
<1> HIDE DEF F
<1>7. PICK c \in [0..N -> Seq(B)] : Recursion(c, N, <<>>, F) BY <1>1, <1>4, <1>5, RecursionExists
<1>8. c[0] = <<>> /\ DOMAIN c = 0..N /\ \A n \in 1..N : c[n] = F[<<n, c[n - 1]>>]
  <2>1. /\ c = [n \in 0..N |-> IF n = 0 THEN <<>> ELSE F[<<n, c[n - 1]>>]]
        /\ \A n \in 0..N : c[n] = IF n = 0 THEN <<>> ELSE F[<<n, c[n - 1]>>]
    BY <1>7 DEF Recursion
  <2>2. 0 \in 0..N /\ \A n \in 1..N : n \in 0..N /\ n # 0 BY <1>1
  <2>3. QED BY <2>1, <2>2
<1>10. c \in [0..N -> Seq(B)] BY <1>7
<1>11. \A n \in 1..N : c[n] = c[n - 1] \o t[n]
  <2>1. \A n \in 1..N : n - 1 \in 0..N BY <1>1
  <2>2. QED BY <1>6, <1>8, <1>10, <2>1
<1>12. OU!FlattenSeq(t) = c[N] BY <1>1, <1>8, <1>10, <1>11, FlattenPieces DEF N
<1> DEFINE d == [n \in 0..Len(s) |-> c[n]]
<1>13. d \in [0..Len(s) -> Seq(B)] /\ d[0] = <<>> BY <1>1, <1>8, <1>10
<1>14. \A n \in 1..Len(s) : d[n] = d[n - 1] \o s[n]
  <2>1. \A n \in 1..Len(s) : n \in 1..N /\ n \in 0..Len(s) /\ n - 1 \in 0..Len(s) BY <1>1
  <2>2. \A n \in 1..Len(s) : d[n] = c[n] /\ d[n - 1] = c[n - 1] BY <2>1
  <2> HIDE DEF d
  <2>3. QED BY <1>1, <1>11, <2>1, <2>2
<1>15. d[Len(s)] = c[Len(s)] BY <1>1
<1> HIDE DEF d
<1>16. OU!FlattenSeq(s) = c[Len(s)] BY <1>13, <1>14, <1>15, FlattenPieces
<1>17. c[N] = c[Len(s)] \o p /\ c[Len(s)] \in Seq(B)
  <2>1. N \in 1..N /\ N - 1 = Len(s) /\ Len(s) \in 0..N BY <1>1
  <2>2. QED BY <1>1, <1>10, <1>11, <2>1
<1>18. OU!FlattenSeq(<<>>) = <<>> BY DEF OU!FlattenSeq
<1>19. QED BY <1>12, <1>16, <1>17, <1>18 DEF t

\* What the capture has sent, and the chunks that it has put into the channel.
Accs(B) == [sent : Nat, truncated : BOOLEAN, chunks : Seq(Seq(B) \cup {OU!Notice})]
Nothing == [sent |-> 0, truncated |-> FALSE, chunks |-> <<>>]

LEMMA TakesWhatIsBelow ==
  ASSUME NEW B, NEW read \in Seq(B), NEW cap \in Nat, NEW sent \in Nat, sent < cap
  PROVE  LET take == OU!Take(read, sent, cap)
         IN /\ take \in 0..Len(read) /\ sent + take <= cap
            /\ take < Len(read) => sent + take = cap
            /\ SubSeq(read, 1, take) \in Seq(B) /\ Len(SubSeq(read, 1, take)) = take
            /\ \A i \in 1..take : SubSeq(read, 1, take)[i] = read[i]
<1> DEFINE take == OU!Take(read, sent, cap)
<1>1. /\ take \in 0..Len(read) /\ sent + take <= cap
      /\ take < Len(read) => sent + take = cap
  BY DEF OU!Take
<1> HIDE DEF take
<1>2. \A i \in 1..take : read[i] \in B BY <1>1
<1>3. /\ SubSeq(read, 1, take) \in Seq(B)
      /\ Len(SubSeq(read, 1, take)) = IF 1 <= take THEN take - 1 + 1 ELSE 0
      /\ \A i \in 1..(take - 1 + 1) : SubSeq(read, 1, take)[i] = read[1 + i - 1]
  BY <1>1, <1>2, SubSeqProperties
<1>4. \A i \in 1..take : SubSeq(read, 1, take)[i] = read[i] BY <1>1, <1>3
<1>5. Len(SubSeq(read, 1, take)) = take BY <1>1, <1>3
<1>6. QED BY <1>1, <1>3, <1>4, <1>5 DEF take

LEMMA OneReadTyped ==
  ASSUME NEW B, NEW read \in Seq(B), NEW cap \in Nat, NEW acc \in Accs(B)
  PROVE  OU!OneRead(acc, read, cap) \in Accs(B)
<1>1. CASE acc.sent >= cap BY <1>1 DEF OU!OneRead
<1>2. CASE ~(acc.sent >= cap)
  <2> DEFINE C == Seq(B) \cup {OU!Notice}
             take == OU!Take(read, acc.sent, cap)
             over == take < Len(read) /\ ~acc.truncated
             last == IF over THEN <<OU!Notice>> ELSE <<>>
  <2>1. acc.sent \in Nat /\ acc.truncated \in BOOLEAN /\ acc.chunks \in Seq(C)
    BY DEF Accs
  <2>2. acc.sent < cap BY <1>2, <2>1
  <2>3. take \in 0..Len(read) /\ SubSeq(read, 1, take) \in C
    BY <2>1, <2>2, TakesWhatIsBelow
  <2>4. OU!OneRead(acc, read, cap) =
          [sent |-> acc.sent + take, truncated |-> acc.truncated \/ over,
           chunks |-> Append(acc.chunks, SubSeq(read, 1, take)) \o last]
    BY <1>2 DEF OU!OneRead
  <2>5. OU!Notice \in C OBVIOUS
  <2> HIDE DEF C, take
  <2>6. last \in Seq(C) /\ over \in BOOLEAN BY <2>1, <2>5
  <2>7. Append(acc.chunks, SubSeq(read, 1, take)) \in Seq(C)
    BY <2>1, <2>3, AppendProperties
  <2> HIDE DEF last, over
  <2>8. Append(acc.chunks, SubSeq(read, 1, take)) \o last \in Seq(C)
    BY <2>6, <2>7, ConcatProperties
  <2>9. acc.sent + take \in Nat /\ (acc.truncated \/ over) \in BOOLEAN
    BY <2>1, <2>3, <2>6
  <2>10. QED BY <2>4, <2>8, <2>9 DEF Accs, C
<1>3. QED BY <1>1, <1>2

\* What it has after each read.
ByReads(r, B, reads, cap) ==
  /\ r \in [0..Len(reads) -> Accs(B)]
  /\ OU!Captured(reads, cap) = r[Len(reads)].chunks
  /\ r[0] = Nothing
  /\ \A n \in 0..(Len(reads) - 1) : r[n + 1] = OU!OneRead(r[n], reads[n + 1], cap)

LEMMA CaptureByReads ==
  ASSUME NEW B, NEW reads \in Seq(Seq(B)), NEW cap \in Nat
  PROVE  \E r : ByReads(r, B, reads, cap)
<1> DEFINE N == Len(reads)
           F == [x \in (1..N) \X Accs(B) |-> OU!OneRead(x[2], reads[x[1]], cap)]
           Is(c) == c = [n \in 0..N |-> IF n = 0 THEN Nothing
                                        ELSE OU!OneRead(c[n - 1], reads[n], cap)]
           r == CHOOSE c : Is(c)
<1>1. N \in Nat /\ \A n \in 1..N : reads[n] \in Seq(B) OBVIOUS
<1> HIDE DEF N
<1>2. \A n \in 1..N : \A acc \in Accs(B) : OU!OneRead(acc, reads[n], cap) \in Accs(B)
  BY <1>1, OneReadTyped
<1>3. F \in [(1..N) \X Accs(B) -> Accs(B)] BY <1>2
<1>4. \A n \in 1..N : \A acc \in Accs(B) :
        F[<<n, acc>>] = OU!OneRead(acc, reads[n], cap)
  OBVIOUS
<1>5. Nothing \in Accs(B) BY DEF Nothing, Accs
<1> HIDE DEF F
<1>6. PICK c \in [0..N -> Accs(B)] : Recursion(c, N, Nothing, F)
  BY <1>1, <1>3, <1>5, RecursionExists
<1>7. Is(c)
  <2>1. c = [n \in 0..N |-> IF n = 0 THEN Nothing ELSE F[<<n, c[n - 1]>>]]
    BY <1>6 DEF Recursion
  <2>2. ASSUME NEW n \in 0..N, n # 0
        PROVE  F[<<n, c[n - 1]>>] = OU!OneRead(c[n - 1], reads[n], cap)
    <3>1. n \in 1..N /\ n - 1 \in 0..N BY <1>1, <2>2
    <3>2. QED BY <1>4, <1>6, <3>1
  <2>3. \A n \in 0..N : (IF n = 0 THEN Nothing ELSE F[<<n, c[n - 1]>>]) =
                        (IF n = 0 THEN Nothing ELSE OU!OneRead(c[n - 1], reads[n], cap))
    BY <2>2
  <2>4. QED BY <2>1, <2>3
<1>8. Is(r)
  <2> HIDE DEF Is
  <2>1. QED BY <1>7
<1>9. OU!Captured(reads, cap) = r[N].chunks BY DEF OU!Captured, N, Nothing
<1>10. DOMAIN r = 0..N /\ \A n \in 0..N :
         r[n] = IF n = 0 THEN Nothing ELSE OU!OneRead(r[n - 1], reads[n], cap)
  BY <1>8
<1> HIDE DEF r
<1>11. r[0] = Nothing /\ \A n \in 0..(N - 1) :
         r[n + 1] = OU!OneRead(r[n], reads[n + 1], cap)
  <2>1. 0 \in 0..N BY <1>1
  <2>2. \A n \in 0..(N - 1) : n + 1 \in 0..N /\ n + 1 # 0 /\ (n + 1) - 1 = n BY <1>1
  <2>3. QED BY <1>10, <2>1, <2>2
<1> DEFINE Typed == {n \in 0..N : r[n] \in Accs(B)}
<1>12. r \in [0..N -> Accs(B)]
  <2>1. 0 \in Typed BY <1>1, <1>5, <1>11
  <2>2. ASSUME NEW n \in 0..(N - 1), n \in Typed PROVE n + 1 \in Typed
    <3>1. n + 1 \in 1..N /\ n + 1 \in 0..N BY <1>1
    <3>2. QED BY <1>2, <1>11, <2>2, <3>1
  <2> HIDE DEF Typed
  <2>3. \A n \in 0..N : n \in Typed BY <1>1, <2>1, <2>2, Onward
  <2>4. r = [n \in 0..N |-> r[n]] BY <1>8 DEF r
  <2>5. QED BY <2>3, <2>4 DEF Typed
<1>13. ByReads(r, B, reads, cap) BY <1>9, <1>11, <1>12 DEF N, ByReads
<1>14. QED BY <1>13

\* The output of the first n reads, in one piece.
Joined(reads, n) == OU!FlattenSeq(SubSeq(reads, 1, n))

LEMMA JoinedByReads ==
  ASSUME NEW B, NEW reads \in Seq(Seq(B))
  PROVE  /\ Joined(reads, 0) = <<>>
         /\ Joined(reads, Len(reads)) = OU!FlattenSeq(reads)
         /\ \A n \in 0..Len(reads) : Joined(reads, n) \in Seq(B)
         /\ \A n \in 0..(Len(reads) - 1) :
              Joined(reads, n + 1) = Joined(reads, n) \o reads[n + 1]
<1>1. SubSeq(reads, 1, 0) = <<>> /\ SubSeq(reads, 1, Len(reads)) = reads
  BY SubSeqEmpty, SubSeqFull
<1>2. Joined(reads, 0) = <<>>
  <2>1. <<>> \in Seq(Seq(B)) /\ <<>> \in Seq(B) OBVIOUS
  <2>2. OU!FlattenSeq(<<>>) = <<>> BY <2>1, FlattenAppend
  <2>3. QED BY <1>1, <2>2 DEF Joined
<1>3. ASSUME NEW n \in 0..Len(reads) PROVE SubSeq(reads, 1, n) \in Seq(Seq(B))
  <2>1. \A i \in 1..n : reads[i] \in Seq(B) OBVIOUS
  <2>2. QED BY <2>1, SubSeqProperties
<1>4. \A n \in 0..Len(reads) : Joined(reads, n) \in Seq(B)
  <2>1. <<>> \in Seq(B) OBVIOUS
  <2>2. QED BY <1>3, <2>1, FlattenAppend DEF Joined
<1>5. ASSUME NEW n \in 0..(Len(reads) - 1)
      PROVE  Joined(reads, n + 1) = Joined(reads, n) \o reads[n + 1]
  <2>1. /\ n \in 0..Len(reads) /\ n + 1 \in 1..Len(reads) /\ 1 \in 1..Len(reads)
        /\ n + 1 \in 1..Len(reads) /\ (n + 1) - 1 = n
    OBVIOUS
  <2>2. reads[n + 1] \in Seq(B) /\ SubSeq(reads, 1, n) \in Seq(Seq(B)) BY <1>3, <2>1
  <2>3. SubSeq(reads, 1, n + 1) = SubSeq(reads, 1, n) \o <<reads[n + 1]>>
    BY <2>1, SubSeqRecursiveSecond
  <2>4. SubSeq(reads, 1, n + 1) = Append(SubSeq(reads, 1, n), reads[n + 1])
    BY <2>2, <2>3, AppendIsConcat
  <2>5. QED BY <2>2, <2>4, FlattenAppend DEF Joined
<1>6. QED BY <1>1, <1>2, <1>4, <1>5 DEF Joined

\* What the capture has done with the output all so far; met says that a read
\* has ended on the cap.
CaptureState(B, acc, all, met, cap) ==
  /\ acc.sent = IF Len(all) < cap THEN Len(all) ELSE cap
  /\ \E body \in Seq(Seq(B)) :
       /\ OU!FlattenSeq(body) = SubSeq(all, 1, acc.sent)
       /\ acc.chunks = IF acc.truncated THEN Append(body, OU!Notice) ELSE body
  /\ acc.truncated <=> Len(all) > cap /\ ~met
  /\ met => Len(all) >= cap
  /\ Len(all) = cap => met

LEMMA PrefixOfConcat ==
  ASSUME NEW B, NEW s \in Seq(B), NEW t \in Seq(B), NEW n \in 0..Len(s)
  PROVE  SubSeq(s \o t, 1, n) = SubSeq(s, 1, n)
<1>1. CASE n = 0
  <2>1. SubSeq(s \o t, 1, 0) = <<>> /\ SubSeq(s, 1, 0) = <<>> BY SubSeqEmpty
  <2>2. QED BY <1>1, <2>1
<1>2. CASE n # 0
  <2>1. 1 \in 1..Len(s) /\ n \in 1..Len(s) BY <1>2
  <2>2. QED BY <2>1, SubSeqOfConcat1
<1>3. QED BY <1>1, <1>2

\* The whole of a sequence, and the first of the next.
LEMMA PrefixInNext ==
  ASSUME NEW B, NEW s \in Seq(B), NEW t \in Seq(B), NEW n \in 0..Len(t)
  PROVE  SubSeq(s \o t, 1, Len(s) + n) = s \o SubSeq(t, 1, n)
<1> DEFINE u == s \o t
           p == SubSeq(t, 1, n)
           v == s \o p
           w == SubSeq(u, 1, Len(s) + n)
<1>1. /\ u \in Seq(B) /\ Len(u) = Len(s) + Len(t)
      /\ \A i \in 1..Len(s) + Len(t) : u[i] = IF i <= Len(s) THEN s[i] ELSE t[i - Len(s)]
  BY ConcatProperties
<1>2. \A i \in 1..n : t[i] \in B OBVIOUS
<1>3. p \in Seq(B) /\ Len(p) = n /\ \A i \in 1..n : p[i] = t[i]
  <2>1. /\ p \in Seq(B) /\ Len(p) = IF 1 <= n THEN n - 1 + 1 ELSE 0
        /\ \A i \in 1..(n - 1 + 1) : p[i] = t[1 + i - 1]
    BY <1>2, SubSeqProperties
  <2> HIDE DEF p
  <2>2. QED BY <2>1
<1> HIDE DEF p, u
<1>4. /\ v \in Seq(B) /\ Len(v) = Len(s) + n
      /\ \A i \in 1..Len(s) + n : v[i] = IF i <= Len(s) THEN s[i] ELSE p[i - Len(s)]
  BY <1>3, ConcatProperties
<1>5. \A i \in 1..(Len(s) + n) : u[i] \in B
  <2>1. \A i \in 1..Len(u) : u[i] \in B BY <1>1
  <2>2. QED BY <1>1, <2>1
<1>6. w \in Seq(B) /\ Len(w) = Len(s) + n /\ \A i \in 1..(Len(s) + n) : w[i] = u[i]
  <2> DEFINE m == Len(s) + n
  <2>1. m \in Nat OBVIOUS
  <2> HIDE DEF m
  <2>2. /\ SubSeq(u, 1, m) \in Seq(B)
        /\ Len(SubSeq(u, 1, m)) = IF 1 <= m THEN m - 1 + 1 ELSE 0
        /\ \A i \in 1..(m - 1 + 1) : SubSeq(u, 1, m)[i] = u[1 + i - 1]
    BY <1>5, <2>1, SubSeqProperties DEF m
  <2>3. \A i \in 1..m : SubSeq(u, 1, m)[i] = u[i] BY <2>1, <2>2
  <2>4. Len(SubSeq(u, 1, m)) = m BY <2>1, <2>2
  <2>5. QED BY <2>2, <2>3, <2>4 DEF m
<1> HIDE DEF v, w
<1>7. \A i \in 1..(Len(s) + n) : w[i] = v[i]
  <2> SUFFICES ASSUME NEW i \in 1..(Len(s) + n) PROVE w[i] = v[i] OBVIOUS
  <2>1. i \in 1..(Len(s) + Len(t)) OBVIOUS
  <2>2. CASE i <= Len(s) BY <1>1, <1>4, <1>6, <2>1, <2>2
  <2>3. CASE ~(i <= Len(s))
    <3>1. i - Len(s) \in 1..n BY <2>3
    <3>2. QED BY <1>1, <1>3, <1>4, <1>6, <2>1, <2>3, <3>1
  <2>4. QED BY <2>2, <2>3
<1>8. w = v BY <1>4, <1>6, <1>7, SeqEqual
<1>9. QED BY <1>8 DEF u, v, w, p

LEMMA CaptureKeeps ==
  ASSUME NEW B, NEW acc \in Accs(B), NEW all \in Seq(B), NEW read \in Seq(B),
         NEW cap \in Nat, NEW met \in BOOLEAN, CaptureState(B, acc, all, met, cap)
  PROVE  CaptureState(B, OU!OneRead(acc, read, cap), all \o read,
                      met \/ Len(all \o read) = cap, cap)
<1> DEFINE new == all \o read
           next == OU!OneRead(acc, read, cap)
<1>1. new \in Seq(B) /\ Len(new) = Len(all) + Len(read) BY ConcatProperties
<1>2. Len(all) \in Nat /\ Len(read) \in Nat OBVIOUS
<1>3. acc.sent = IF Len(all) < cap THEN Len(all) ELSE cap BY DEF CaptureState
<1>4. PICK body \in Seq(Seq(B)) :
        /\ OU!FlattenSeq(body) = SubSeq(all, 1, acc.sent)
        /\ acc.chunks = IF acc.truncated THEN Append(body, OU!Notice) ELSE body
  BY DEF CaptureState
<1>5. /\ acc.truncated <=> Len(all) > cap /\ ~met
      /\ met => Len(all) >= cap
      /\ Len(all) = cap => met
  BY DEF CaptureState
<1>6. CASE Len(all) >= cap
  <2>1. acc.sent = cap BY <1>2, <1>3, <1>6
  <2>2. next = acc BY <1>2, <2>1 DEF OU!OneRead
  <2>3. SubSeq(new, 1, cap) = SubSeq(all, 1, cap) BY <1>2, <1>6, PrefixOfConcat
  <2>4. SubSeq(all, 1, acc.sent) = SubSeq(new, 1, acc.sent) BY <2>1, <2>3
  <2> HIDE DEF new, next
  <2>5. acc.sent = IF Len(new) < cap THEN Len(new) ELSE cap BY <1>1, <1>2, <1>6, <2>1
  <2>6. acc.truncated <=> Len(new) > cap /\ ~(met \/ Len(new) = cap)
    BY <1>1, <1>2, <1>5, <1>6
  <2>7. (met \/ Len(new) = cap) => Len(new) >= cap BY <1>1, <1>2, <1>5
  <2>8. CaptureState(B, next, new, met \/ Len(new) = cap, cap)
    BY <1>4, <2>2, <2>4, <2>5, <2>6, <2>7 DEF CaptureState
  <2>9. QED BY <2>8 DEF new, next
<1>7. CASE Len(all) < cap
  <2>1. acc.sent = Len(all) /\ ~acc.truncated /\ ~met BY <1>2, <1>3, <1>5, <1>7
  <2> DEFINE take == OU!Take(read, acc.sent, cap)
             piece == SubSeq(read, 1, take)
             over == take < Len(read)
  <2>2. /\ take \in 0..Len(read) /\ Len(all) + take <= cap
        /\ take < Len(read) => Len(all) + take = cap
        /\ piece \in Seq(B)
    BY <1>2, <1>7, <2>1, TakesWhatIsBelow
  <2>3. next = [sent |-> acc.sent + take, truncated |-> acc.truncated \/ (over /\ ~acc.truncated),
                chunks |-> Append(acc.chunks, piece)
                             \o (IF over /\ ~acc.truncated THEN <<OU!Notice>> ELSE <<>>)]
    BY <1>2, <1>7, <2>1 DEF OU!OneRead
  <2>4. acc.chunks = body BY <1>4, <2>1
  <2> DEFINE longer == Append(body, piece)
  <2>5. longer \in Seq(Seq(B)) BY <2>2, AppendProperties
  <2>6. OU!FlattenSeq(longer) = SubSeq(new, 1, Len(all) + take)
    <3>1. OU!FlattenSeq(longer) = OU!FlattenSeq(body) \o piece BY <2>2, FlattenAppend
    <3>2. OU!FlattenSeq(body) = all BY <1>4, <2>1, SubSeqFull
    <3>3. SubSeq(new, 1, Len(all) + take) = all \o piece BY <2>2, PrefixInNext
    <3>4. QED BY <3>1, <3>2, <3>3
  <2> HIDE DEF take, piece, longer, new, over, next
  <2>7. over <=> Len(new) > cap BY <1>1, <1>2, <2>2 DEF over
  <2>8. next.chunks = IF over THEN Append(longer, OU!Notice) ELSE longer
    <3>1. CASE over
      <4>1. next.chunks = longer \o <<OU!Notice>> BY <2>1, <2>3, <2>4, <3>1 DEF longer
      <4>2. longer \in Seq(Seq(B) \cup {OU!Notice}) BY <2>5, SeqMonotonic
      <4>3. longer \o <<OU!Notice>> = Append(longer, OU!Notice) BY <4>2, AppendIsConcat
      <4>4. QED BY <3>1, <4>1, <4>3
    <3>2. CASE ~over
      <4>1. next.chunks = longer \o <<>> BY <2>1, <2>3, <2>4, <3>2 DEF longer
      <4>2. longer \o <<>> = longer BY <2>5, ConcatEmptySeq
      <4>3. QED BY <3>2, <4>1, <4>2
    <3>3. QED BY <3>1, <3>2
  <2>9. next.sent = Len(all) + take /\ (next.truncated <=> over) BY <2>1, <2>3
  <2>10. next.sent = IF Len(new) < cap THEN Len(new) ELSE cap
    <3>1. CASE take < Len(read) BY <1>1, <1>2, <2>2, <2>9, <3>1
    <3>2. CASE take = Len(read)
      <4>1. next.sent = Len(new) /\ Len(new) <= cap BY <1>1, <2>2, <2>9, <3>2
      <4>2. QED BY <4>1
    <3>3. QED BY <1>2, <2>2, <3>1, <3>2
  <2>11. next.truncated <=> Len(new) > cap /\ ~(met \/ Len(new) = cap)
    BY <1>1, <1>2, <2>1, <2>7, <2>9
  <2>12. (met \/ Len(new) = cap) => Len(new) >= cap BY <1>1, <1>2, <2>1
  <2>13. \E b \in Seq(Seq(B)) :
           /\ OU!FlattenSeq(b) = SubSeq(new, 1, next.sent)
           /\ next.chunks = IF next.truncated THEN Append(b, OU!Notice) ELSE b
    BY <2>5, <2>6, <2>8, <2>9
  <2>14. CaptureState(B, next, new, met \/ Len(new) = cap, cap)
    BY <2>10, <2>11, <2>12, <2>13 DEF CaptureState
  <2>15. QED BY <2>14 DEF next, new
<1>8. QED BY <1>2, <1>6, <1>7

\* The chunks without and with the notice.
LEMMA SentChunks ==
  ASSUME NEW B, OU!Notice \notin Seq(B), NEW body \in Seq(Seq(B))
  PROVE  LET cut == Append(body, OU!Notice)
         IN /\ ~OU!Cut(body) /\ OU!Cut(cut)
            /\ OU!Passed(body) = body /\ OU!Passed(cut) = body
            /\ \A i \in DOMAIN body : body[i] # OU!Notice
            /\ \A i \in DOMAIN cut : cut[i] = OU!Notice => i = Len(cut)
<1> DEFINE C == Seq(B) \cup {OU!Notice}
           cut == Append(body, OU!Notice)
           N == Len(body)
<1>1. N \in Nat /\ DOMAIN body = 1..N /\ \A i \in 1..N : body[i] \in Seq(B) OBVIOUS
<1>2. \A i \in 1..N : body[i] # OU!Notice BY <1>1
<1>3. body \in Seq(C) BY SeqMonotonic
<1>4. OU!Notice \in C OBVIOUS
<1> HIDE DEF C
<1>5. /\ cut \in Seq(C) /\ cut # <<>> /\ Len(cut) = N + 1
      /\ \A i \in 1..N : cut[i] = body[i]
      /\ cut[N + 1] = OU!Notice
  BY <1>3, <1>4, AppendProperties
<1>6. DOMAIN cut = 1..(N + 1) BY <1>5
<1> HIDE DEF cut, N
<1>7. ~OU!Cut(body)
  <2>1. body # <<>> => N # 0 BY <1>1 DEF N
  <2>2. body # <<>> => N \in 1..N BY <1>1, <2>1
  <2>3. QED BY <1>2, <2>2 DEF OU!Cut, OU!Last, N
<1>8. OU!Cut(cut) BY <1>5 DEF OU!Cut, OU!Last
<1>9. OU!Front(cut) = body
  <2>1. OU!Front(cut) = SubSeq(cut, 1, N)
    <3>1. Len(cut) - 1 = N BY <1>1, <1>5
    <3>2. QED BY <3>1 DEF OU!Front
  <2>2. \A i \in 1..N : cut[i] \in C BY <1>1, <1>5 DEF C
  <2>3. SubSeq(cut, 1, N) \in Seq(C) /\ Len(SubSeq(cut, 1, N)) = N
        /\ \A i \in 1..N : SubSeq(cut, 1, N)[i] = cut[i]
    <3>1. /\ SubSeq(cut, 1, N) \in Seq(C)
          /\ Len(SubSeq(cut, 1, N)) = IF 1 <= N THEN N - 1 + 1 ELSE 0
          /\ \A i \in 1..(N - 1 + 1) : SubSeq(cut, 1, N)[i] = cut[1 + i - 1]
      BY <1>1, <2>2, SubSeqProperties
    <3>2. \A i \in 1..N : SubSeq(cut, 1, N)[i] = cut[i] BY <1>1, <3>1
    <3>3. Len(SubSeq(cut, 1, N)) = N BY <1>1, <3>1
    <3>4. QED BY <3>1, <3>2, <3>3
  <2>4. \A i \in 1..N : SubSeq(cut, 1, N)[i] = body[i] BY <1>5, <2>3
  <2>5. SubSeq(cut, 1, N) = body BY <1>3, <2>3, <2>4, SeqEqual DEF N
  <2>6. QED BY <2>1, <2>5
<1>10. OU!Passed(body) = body BY <1>7 DEF OU!Passed
<1>11. OU!Passed(cut) = body BY <1>8, <1>9 DEF OU!Passed
<1>12. \A i \in DOMAIN cut : cut[i] = OU!Notice => i = Len(cut)
  <2>1. \A i \in 1..(N + 1) : i \in 1..N \/ i = N + 1 BY <1>1
  <2>2. QED BY <1>2, <1>5, <1>6, <2>1
<1>13. QED BY <1>1, <1>2, <1>7, <1>8, <1>10, <1>11, <1>12 DEF cut

LEMMA CaptureIsExact ==
  ASSUME NEW B, OU!Notice \notin Seq(B), NEW reads \in Seq(Seq(B)),
         NEW cap \in Nat \ {0}
  PROVE  /\ OU!CaptureExact(reads, cap)
         /\ OU!Passed(OU!Captured(reads, cap)) \in Seq(Seq(B))
<1> DEFINE N == Len(reads)
           all == OU!FlattenSeq(reads)
           passed == OU!Captured(reads, cap)
           Met(n) == \E i \in 1..n : Len(Joined(reads, i)) = cap
<1>1. N \in Nat /\ DOMAIN reads = 1..N /\ \A n \in 1..N : reads[n] \in Seq(B) OBVIOUS
<1>2. PICK r : ByReads(r, B, reads, cap)
  <2>1. cap \in Nat OBVIOUS
  <2>2. QED BY <2>1, CaptureByReads
<1>3. /\ r \in [0..N -> Accs(B)]
       /\ passed = r[N].chunks
       /\ r[0] = Nothing
       /\ \A n \in 0..(N - 1) : r[n + 1] = OU!OneRead(r[n], reads[n + 1], cap)
  BY <1>2 DEF ByReads
<1>4. /\ Joined(reads, 0) = <<>>
      /\ Joined(reads, N) = all
      /\ \A n \in 0..N : Joined(reads, n) \in Seq(B)
      /\ \A n \in 0..(N - 1) : Joined(reads, n + 1) = Joined(reads, n) \o reads[n + 1]
  BY JoinedByReads
<1> HIDE DEF N, all, passed
<1> DEFINE Follows == {n \in 0..N : CaptureState(B, r[n], Joined(reads, n), Met(n), cap)}
<1>5. 0 \in Follows
  <2>1. ~Met(0) OBVIOUS
  <2>2. <<>> \in Seq(B) /\ <<>> \in Seq(Seq(B)) /\ Len(<<>>) = 0 OBVIOUS
  <2>3. OU!FlattenSeq(<<>>) = <<>> BY <2>2, FlattenAppend
  <2>4. SubSeq(<<>>, 1, 0) = <<>> BY SubSeqEmpty
  <2> HIDE DEF Met
  <2>5. CaptureState(B, Nothing, <<>>, Met(0), cap)
    <3>1. Nothing.sent = 0 /\ ~Nothing.truncated /\ Nothing.chunks = <<>> BY DEF Nothing
    <3>2. \E body \in Seq(Seq(B)) :
            /\ OU!FlattenSeq(body) = SubSeq(<<>>, 1, Nothing.sent)
            /\ Nothing.chunks = IF Nothing.truncated THEN Append(body, OU!Notice) ELSE body
      BY <2>2, <2>3, <2>4, <3>1
    <3>3. 0 = IF Len(<<>>) < cap THEN Len(<<>>) ELSE cap BY <2>2
    <3>4. Len(<<>>) # cap /\ ~(Len(<<>>) > cap) BY <2>2
    <3>5. QED BY <2>1, <3>1, <3>2, <3>3, <3>4 DEF CaptureState
  <2>6. QED BY <1>1, <1>3, <1>4, <2>5
<1>6. ASSUME NEW n \in 0..(N - 1), n \in Follows PROVE n + 1 \in Follows
  <2>1. n \in 0..N /\ n + 1 \in 0..N /\ n + 1 \in 1..N BY <1>1
  <2>2. Met(n + 1) <=> Met(n) \/ Len(Joined(reads, n + 1)) = cap
    <3>1. \A i \in 1..(n + 1) : i \in 1..n \/ i = n + 1 OBVIOUS
    <3>2. \A i \in 1..n : i \in 1..(n + 1) OBVIOUS
    <3>3. n + 1 \in 1..(n + 1) OBVIOUS
    <3>4. QED BY <3>1, <3>2, <3>3
  <2> DEFINE met == Met(n)
  <2>3. met \in BOOLEAN /\ CaptureState(B, r[n], Joined(reads, n), met, cap) BY <1>6
  <2> HIDE DEF met, Met
  <2>4. CaptureState(B, OU!OneRead(r[n], reads[n + 1], cap), Joined(reads, n) \o reads[n + 1],
                     met \/ Len(Joined(reads, n) \o reads[n + 1]) = cap, cap)
    BY <1>1, <1>3, <1>4, <2>1, <2>3, CaptureKeeps
  <2>5. CaptureState(B, r[n + 1], Joined(reads, n + 1),
                     met \/ Len(Joined(reads, n + 1)) = cap, cap)
    BY <1>3, <1>4, <2>4
  <2>6. Met(n + 1) = (met \/ Len(Joined(reads, n + 1)) = cap)
    <3>1. Met(n + 1) \in BOOLEAN BY DEF Met
    <3>2. QED BY <2>2, <3>1 DEF met
  <2>7. QED BY <2>1, <2>5, <2>6
<1> HIDE DEF Met
<1>7. CaptureState(B, r[N], all, Met(N), cap)
  <2> HIDE DEF Follows
  <2>1. \A n \in 0..N : n \in Follows BY <1>1, <1>5, <1>6, Onward
  <2>2. N \in Follows BY <1>1, <2>1
  <2>3. QED BY <1>4, <2>2 DEF Follows
<1>8. all \in Seq(B) /\ Len(all) \in Nat
  <2>1. N \in 0..N BY <1>1
  <2>2. all \in Seq(B) BY <1>4, <2>1
  <2>3. QED BY <2>2
<1>9. Met(N) <=> OU!EndsOnCap(reads, cap) BY <1>1 DEF Met, OU!EndsOnCap, Joined
<1>10. PICK body \in Seq(Seq(B)) :
        /\ OU!FlattenSeq(body) = SubSeq(all, 1, r[N].sent)
        /\ passed = IF r[N].truncated THEN Append(body, OU!Notice) ELSE body
  BY <1>3, <1>7 DEF CaptureState
<1>11. /\ r[N].sent = IF Len(all) < cap THEN Len(all) ELSE cap
       /\ r[N].truncated <=> Len(all) > cap /\ ~Met(N)
  BY <1>7 DEF CaptureState
<1>12. OU!Cut(passed) <=> r[N].truncated BY <1>10, SentChunks
<1>13. OU!Passed(passed) = body BY <1>10, SentChunks
<1>14. \A i \in DOMAIN passed : passed[i] = OU!Notice => i = Len(passed) BY <1>10, SentChunks
<1>15. OU!Sent(passed) = OU!FlattenSeq(body) BY <1>13 DEF OU!Sent
<1>16. OU!CaptureExact(reads, cap)
  BY <1>9, <1>10, <1>11, <1>12, <1>14, <1>15 DEF OU!CaptureExact, all, passed
<1>17. QED BY <1>13, <1>16 DEF passed

\* A character of two bytes across the end of a and the head of x.
Across(a, x) == a # <<>> /\ a[Len(a)] = OU!Lead /\ x # <<>> /\ x[1] = OU!Trail

LEMMA LossyTyped ==
  ASSUME NEW B, NEW b \in Seq(B)
  PROVE  /\ OU!FromUtf8Lossy(b) \in Seq(B \cup {OU!Replacement})
         /\ Len(OU!FromUtf8Lossy(b)) = Len(b)
         /\ \A i \in 1..Len(b) : OU!FromUtf8Lossy(b)[i] =
              IF OU!IsStray(b, i) THEN OU!Replacement ELSE b[i]
<1>1. Len(b) \in Nat /\ DOMAIN b = 1..Len(b) /\ \A i \in 1..Len(b) : b[i] \in B OBVIOUS
<1>2. OU!FromUtf8Lossy(b) =
        [i \in 1..Len(b) |-> IF OU!IsStray(b, i) THEN OU!Replacement ELSE b[i]]
  BY <1>1 DEF OU!FromUtf8Lossy
<1>3. QED BY <1>1, <1>2

\* What is made of two pieces one by one is what is made of them together,
\* but for a character across them.
LEMMA LossyOfConcat ==
  ASSUME NEW B, OU!Replacement \notin B, NEW a \in Seq(B), NEW x \in Seq(B),
         NEW s \in Seq(B \cup {OU!Replacement}), Len(s) = Len(a)
  PROVE  s \o OU!FromUtf8Lossy(x) = OU!FromUtf8Lossy(a \o x) <=>
           s = OU!FromUtf8Lossy(a) /\ ~Across(a, x)
<1> DEFINE C  == B \cup {OU!Replacement}
           m  == Len(a)
           n  == Len(x)
           ax == a \o x
           la == OU!FromUtf8Lossy(a)
           lx == OU!FromUtf8Lossy(x)
           l  == OU!FromUtf8Lossy(ax)
           sx == s \o lx
<1>1. m \in Nat /\ n \in Nat OBVIOUS
<1>2. /\ ax \in Seq(B) /\ Len(ax) = m + n
      /\ \A i \in 1..(m + n) : ax[i] = IF i <= m THEN a[i] ELSE x[i - m]
  BY ConcatProperties
<1>3. /\ la \in Seq(C) /\ Len(la) = m
      /\ \A i \in 1..m : la[i] = IF OU!IsStray(a, i) THEN OU!Replacement ELSE a[i]
  BY LossyTyped
<1>4. /\ lx \in Seq(C) /\ Len(lx) = n
      /\ \A i \in 1..n : lx[i] = IF OU!IsStray(x, i) THEN OU!Replacement ELSE x[i]
  BY LossyTyped
<1> HIDE DEF ax
<1>5. /\ l \in Seq(C) /\ Len(l) = m + n
      /\ \A i \in 1..(m + n) : l[i] = IF OU!IsStray(ax, i) THEN OU!Replacement ELSE ax[i]
  BY <1>2, LossyTyped
<1> HIDE DEF la, lx, l
<1>6. /\ sx \in Seq(C) /\ Len(sx) = m + n
      /\ \A i \in 1..(m + n) : sx[i] = IF i <= m THEN s[i] ELSE lx[i - m]
  <2>1. s \in Seq(C) /\ lx \in Seq(C) /\ Len(s) = m /\ Len(lx) = n BY <1>4
  <2> HIDE DEF C, m, n
  <2>2. QED BY <2>1, ConcatProperties
<1>7. DOMAIN a = 1..m /\ DOMAIN x = 1..n /\ DOMAIN ax = 1..(m + n) BY <1>2
<1> HIDE DEF C, sx, m, n
<1>8. CASE Across(a, x)
  <2>1. /\ m \in 1..m /\ 1 \in 1..n /\ a[m] = OU!Lead /\ x[1] = OU!Trail
    BY <1>1, <1>8 DEF Across, m, n
  <2>2. /\ m \in 1..(m + n) /\ m + 1 \in 1..(m + n)
        /\ (m + 1) - 1 = m /\ (m + 1) - m = 1 /\ ~(m + 1 <= m) /\ m <= m
        /\ 1 - 1 \notin 1..n
    BY <1>1, <2>1
  <2>3. ax[m] = OU!Lead /\ ax[m + 1] = OU!Trail BY <1>2, <2>1, <2>2
  <2>4. ~OU!IsStray(ax, m + 1) BY <1>7, <2>2, <2>3 DEF OU!IsStray, OU!Lead, OU!Trail
  <2>5. l[m + 1] = OU!Trail BY <1>5, <2>2, <2>3, <2>4
  <2>6. OU!IsStray(x, 1) BY <1>7, <2>1, <2>2 DEF OU!IsStray
  <2>7. sx[m + 1] = OU!Replacement BY <1>4, <1>6, <2>1, <2>2, <2>6
  <2>8. OU!Trail # OU!Replacement BY DEF OU!Trail, OU!Replacement
  <2>9. QED BY <1>8, <2>5, <2>7, <2>8 DEF sx, l, lx, la, ax
<1>9. CASE ~Across(a, x)
  <2>1. ASSUME NEW i \in 1..m PROVE l[i] = la[i]
    <3>1. i \in 1..(m + n) /\ i <= m BY <1>1
    <3>2. ax[i] = a[i] BY <1>2, <3>1
    <3>3. OU!IsStray(ax, i) <=> OU!IsStray(a, i)
      <4>1. i - 1 \in 1..m <=> i - 1 \in 1..(m + n) BY <1>1
      <4>2. i - 1 \in 1..m => ax[i - 1] = a[i - 1] BY <1>1, <1>2
      <4>3. CASE i < m
        <5>1. i + 1 \in 1..m /\ i + 1 \in 1..(m + n) /\ i + 1 <= m BY <1>1, <4>3
        <5>2. ax[i + 1] = a[i + 1] BY <1>2, <5>1
        <5>3. QED BY <1>7, <3>2, <4>1, <4>2, <5>1, <5>2 DEF OU!IsStray
      <4>4. CASE i = m
        <5>1. i + 1 \notin 1..m BY <1>1, <4>4
        <5>2. a[i] = OU!Lead /\ i + 1 \in 1..(m + n) => ax[i + 1] # OU!Trail
          <6> SUFFICES ASSUME a[i] = OU!Lead, i + 1 \in 1..(m + n)
                       PROVE  ax[i + 1] # OU!Trail
            OBVIOUS
          <6>1. ax[i + 1] = x[1] /\ n # 0 BY <1>1, <1>2, <4>4
          <6>2. a # <<>> /\ x # <<>>
            <7>1. m # 0 BY <1>1, <4>4
            <7>2. QED BY <6>1, <7>1 DEF m, n
          <6>3. QED BY <1>9, <4>4, <6>1, <6>2 DEF Across, m
        <5>3. QED BY <1>7, <3>2, <4>1, <4>2, <5>1, <5>2 DEF OU!IsStray
      <4>5. QED BY <1>1, <4>3, <4>4
    <3>4. QED BY <1>3, <1>5, <3>1, <3>2, <3>3
  <2>2. ASSUME NEW i \in 1..n PROVE l[m + i] = lx[i]
    <3>1. m + i \in 1..(m + n) /\ ~(m + i <= m) /\ (m + i) - m = i BY <1>1
    <3>2. ax[m + i] = x[i] BY <1>2, <3>1
    <3>3. OU!IsStray(ax, m + i) <=> OU!IsStray(x, i)
      <4>1. (m + i) + 1 \in 1..(m + n) <=> i + 1 \in 1..n BY <1>1
      <4>2. i + 1 \in 1..n => ax[(m + i) + 1] = x[i + 1] BY <1>1, <1>2
      <4>3. CASE i > 1
        <5>1. /\ i - 1 \in 1..n /\ (m + i) - 1 \in 1..(m + n)
              /\ ~((m + i) - 1 <= m) /\ ((m + i) - 1) - m = i - 1
          BY <1>1, <4>3
        <5>2. ax[(m + i) - 1] = x[i - 1] BY <1>2, <5>1
        <5>3. QED BY <1>7, <3>2, <4>1, <4>2, <5>1, <5>2 DEF OU!IsStray
      <4>4. CASE i = 1
        <5>1. i - 1 \notin 1..n BY <4>4
        <5>2. x[i] = OU!Trail /\ (m + i) - 1 \in 1..(m + n) => ax[(m + i) - 1] # OU!Lead
          <6> SUFFICES ASSUME x[i] = OU!Trail, (m + i) - 1 \in 1..(m + n)
                       PROVE  ax[(m + i) - 1] # OU!Lead
            OBVIOUS
          <6>1. (m + i) - 1 = m /\ m # 0 /\ n # 0 BY <1>1, <4>4
          <6>2. ax[(m + i) - 1] = a[m] BY <1>1, <1>2, <6>1
          <6>3. a # <<>> /\ x # <<>> BY <6>1 DEF m, n
          <6>4. QED BY <1>9, <4>4, <6>2, <6>3 DEF Across, m
        <5>3. QED BY <1>7, <3>2, <4>1, <4>2, <5>1, <5>2 DEF OU!IsStray
      <4>5. QED BY <1>1, <4>3, <4>4
    <3>4. QED BY <1>4, <1>5, <3>1, <3>2, <3>3
  <2>3. ASSUME s = la PROVE sx = l
    <3>1. \A i \in 1..(m + n) : sx[i] = l[i]
      <4> SUFFICES ASSUME NEW i \in 1..(m + n) PROVE sx[i] = l[i] OBVIOUS
      <4>1. CASE i <= m BY <1>1, <1>6, <2>1, <2>3, <4>1
      <4>2. CASE ~(i <= m)
        <5>1. i - m \in 1..n /\ m + (i - m) = i BY <1>1, <4>2
        <5>2. l[m + (i - m)] = lx[i - m] BY <2>2, <5>1
        <5>3. QED BY <1>6, <4>2, <5>1, <5>2
      <4>3. QED BY <4>1, <4>2
    <3>2. QED BY <1>5, <1>6, <3>1, SeqEqual
  <2>4. ASSUME sx = l PROVE s = la
    <3>1. \A i \in 1..m : s[i] = la[i]
      <4> SUFFICES ASSUME NEW i \in 1..m PROVE s[i] = la[i] OBVIOUS
      <4>1. i \in 1..(m + n) /\ i <= m BY <1>1
      <4>2. sx[i] = s[i] BY <1>6, <4>1
      <4>3. QED BY <2>1, <2>4, <4>2
    <3>2. s \in Seq(C) /\ Len(s) = m BY DEF C, m
    <3>3. QED BY <1>3, <3>1, <3>2, SeqEqual
  <2>5. QED BY <1>9, <2>3, <2>4 DEF sx, l, lx, la, ax
<1>10. QED BY <1>8, <1>9

LEMMA TextIsExact ==
  ASSUME NEW B, OU!Replacement \notin B, NEW chunks \in Seq(Seq(B))
  PROVE  OU!TextExact(chunks)
<1> DEFINE C == B \cup {OU!Replacement}
           N == Len(chunks)
           texts == [k \in 1..N |-> OU!FromUtf8Lossy(chunks[k])]
           TornBy(n) == \E k \in 0..(n - 1) : Across(Joined(chunks, k), chunks[k + 1])
<1>1. N \in Nat /\ DOMAIN chunks = 1..N /\ \A k \in 1..N : chunks[k] \in Seq(B) OBVIOUS
<1>2. \A k \in 1..N : OU!FromUtf8Lossy(chunks[k]) \in Seq(C) BY <1>1, LossyTyped
<1>3. texts \in Seq(Seq(C)) /\ Len(texts) = N
      /\ \A k \in 1..N : texts[k] = OU!FromUtf8Lossy(chunks[k])
  BY <1>1, <1>2
<1>4. OU!Text(chunks) = OU!FlattenSeq(texts) BY <1>1 DEF OU!Text
<1> HIDE DEF texts
<1>5. /\ Joined(chunks, 0) = <<>> /\ Joined(chunks, N) = OU!FlattenSeq(chunks)
      /\ \A n \in 0..N : Joined(chunks, n) \in Seq(B)
      /\ \A n \in 0..(N - 1) : Joined(chunks, n + 1) = Joined(chunks, n) \o chunks[n + 1]
  BY JoinedByReads
<1> HIDE DEF C, N
<1>6. /\ Joined(texts, 0) = <<>> /\ Joined(texts, N) = OU!FlattenSeq(texts)
      /\ \A n \in 0..N : Joined(texts, n) \in Seq(C)
      /\ \A n \in 0..(N - 1) : Joined(texts, n + 1) = Joined(texts, n) \o texts[n + 1]
  BY <1>3, JoinedByReads
<1> DEFINE Follows == {n \in 0..N :
             /\ Len(Joined(texts, n)) = Len(Joined(chunks, n))
             /\ Joined(texts, n) = OU!FromUtf8Lossy(Joined(chunks, n)) <=> ~TornBy(n)}
<1>7. 0 \in Follows
  <2>1. <<>> \in Seq(B) /\ Len(<<>>) = 0 OBVIOUS
  <2>2. OU!FromUtf8Lossy(<<>>) = <<>>
    <3>1. OU!FromUtf8Lossy(<<>>) \in Seq(B \cup {OU!Replacement})
          /\ Len(OU!FromUtf8Lossy(<<>>)) = 0
      BY <2>1, LossyTyped
    <3> HIDE DEF OU!FromUtf8Lossy
    <3>2. QED BY <3>1
  <2>3. ~TornBy(0) OBVIOUS
  <2> HIDE DEF TornBy
  <2>4. QED BY <1>1, <1>5, <1>6, <2>2, <2>3
<1>8. ASSUME NEW n \in 0..(N - 1), n \in Follows PROVE n + 1 \in Follows
  <2> DEFINE a == Joined(chunks, n)
             x == chunks[n + 1]
             s == Joined(texts, n)
  <2>1. n \in 0..N /\ n + 1 \in 0..N /\ n + 1 \in 1..N BY <1>1
  <2>2. a \in Seq(B) /\ x \in Seq(B) /\ s \in Seq(C) BY <1>1, <1>5, <1>6, <2>1
  <2>3. TornBy(n + 1) <=> TornBy(n) \/ Across(a, x)
    <3>1. \A k \in 0..((n + 1) - 1) : k \in 0..(n - 1) \/ k = n OBVIOUS
    <3>2. \A k \in 0..(n - 1) : k \in 0..((n + 1) - 1) OBVIOUS
    <3>3. n \in 0..((n + 1) - 1) OBVIOUS
    <3>4. QED BY <3>1, <3>2, <3>3
  <2> HIDE DEF TornBy
  <2>4. Len(s) = Len(a) /\ (s = OU!FromUtf8Lossy(a) <=> ~TornBy(n)) BY <1>8
  <2>5. Joined(chunks, n + 1) = a \o x /\ Joined(texts, n + 1) = s \o OU!FromUtf8Lossy(x)
    BY <1>3, <1>5, <1>6, <2>1
  <2> HIDE DEF a, x, s
  <2>6. s \o OU!FromUtf8Lossy(x) = OU!FromUtf8Lossy(a \o x) <=>
          s = OU!FromUtf8Lossy(a) /\ ~Across(a, x)
    BY <2>2, <2>4, LossyOfConcat DEF C
  <2>7. Len(s \o OU!FromUtf8Lossy(x)) = Len(a \o x)
    <3>1. OU!FromUtf8Lossy(x) \in Seq(C) /\ Len(OU!FromUtf8Lossy(x)) = Len(x)
      BY <2>2, LossyTyped DEF C
    <3> DEFINE lx == OU!FromUtf8Lossy(x)
    <3> HIDE DEF lx
    <3>2. Len(s \o lx) = Len(s) + Len(lx) BY <2>2, <3>1, ConcatProperties DEF lx
    <3>3. Len(a \o x) = Len(a) + Len(x) BY <2>2, ConcatProperties
    <3>4. QED BY <2>4, <3>1, <3>2, <3>3 DEF lx
  <2>8. Joined(texts, n + 1) = OU!FromUtf8Lossy(Joined(chunks, n + 1)) <=> ~TornBy(n + 1)
    BY <2>3, <2>4, <2>5, <2>6
  <2>9. Len(Joined(texts, n + 1)) = Len(Joined(chunks, n + 1)) BY <2>5, <2>7
  <2>10. QED BY <2>1, <2>8, <2>9
<1> HIDE DEF TornBy
<1>9. Joined(texts, N) = OU!FromUtf8Lossy(Joined(chunks, N)) <=> ~TornBy(N)
  <2> HIDE DEF Follows
  <2>1. \A n \in 0..N : n \in Follows BY <1>1, <1>7, <1>8, Onward
  <2>2. N \in Follows BY <1>1, <2>1
  <2>3. QED BY <2>2 DEF Follows
<1>10. TornBy(N) <=> OU!Torn(chunks) BY DEF TornBy, OU!Torn, Across, Joined, N
<1>11. QED BY <1>4, <1>5, <1>6, <1>9, <1>10 DEF OU!TextExact

\* The needle is in the bytes at i; a is the stretch of b after the first off.
Occurs(b, needle, i) ==
  /\ i \in 1..Len(b) /\ i + Len(needle) - 1 <= Len(b)
  /\ \A k \in 1..Len(needle) : b[i + k - 1] = needle[k]

Within(a, b, off) ==
  /\ off \in Nat /\ off + Len(a) <= Len(b)
  /\ \A j \in 1..Len(a) : a[j] = b[off + j]

LEMMA HasOccurs ==
  ASSUME NEW B, NEW b \in Seq(B), NEW needle \in Seq(B), needle # <<>>
  PROVE  OU!Has(b, needle) <=> \E i \in 1..Len(b) : Occurs(b, needle, i)
<1> DEFINE L == Len(needle)
<1>1. L \in Nat \ {0} /\ Len(b) \in Nat /\ DOMAIN b = 1..Len(b)
  BY EmptySeq
<1>2. SubSeq(needle, 1, L) = needle BY SubSeqFull
<1>3. \A k \in 1..L : needle[k] \in B OBVIOUS
<1> SUFFICES ASSUME NEW i \in 1..Len(b)
             PROVE  OU!IsPrefix(needle, SubSeq(b, i, Len(b))) <=> Occurs(b, needle, i)
  BY <1>1 DEF OU!Has
<1> DEFINE rest == SubSeq(b, i, Len(b))
           M == Len(b) - i + 1
<1>4. \A j \in i..Len(b) : b[j] \in B OBVIOUS
<1>5. rest \in Seq(B) /\ Len(rest) = M /\ M \in Nat
      /\ \A j \in 1..M : rest[j] = b[i + j - 1]
  <2>1. /\ SubSeq(b, i, Len(b)) \in Seq(B)
        /\ Len(SubSeq(b, i, Len(b))) = IF i <= Len(b) THEN Len(b) - i + 1 ELSE 0
        /\ \A j \in 1..(Len(b) - i + 1) : SubSeq(b, i, Len(b))[j] = b[i + j - 1]
    BY <1>1, <1>4, SubSeqProperties
  <2>2. M \in Nat /\ i <= Len(b) BY <1>1
  <2>3. QED BY <2>1, <2>2
<1> HIDE DEF rest, L
<1> DEFINE head == SubSeq(rest, 1, L)
<1>6. ASSUME L <= M
      PROVE  head \in Seq(B) /\ Len(head) = L /\ \A k \in 1..L : head[k] = rest[k]
  <2>1. \A j \in 1..L : rest[j] \in B BY <1>1, <1>5, <1>6
  <2>2. /\ head \in Seq(B)
        /\ Len(head) = IF 1 <= L THEN L - 1 + 1 ELSE 0
        /\ \A j \in 1..(L - 1 + 1) : head[j] = rest[1 + j - 1]
    BY <1>1, <2>1, SubSeqProperties
  <2> HIDE DEF head
  <2>3. \A k \in 1..L : head[k] = rest[k] BY <1>1, <2>2
  <2>4. Len(head) = L BY <1>1, <2>2
  <2>5. QED BY <2>2, <2>3, <2>4
<1> HIDE DEF head
<1>7. L <= M => (needle = head <=> \A k \in 1..L : head[k] = needle[k])
  <2> SUFFICES ASSUME L <= M, \A k \in 1..L : head[k] = needle[k] PROVE needle = head
    OBVIOUS
  <2>1. QED BY <1>6, SeqEqual DEF L
<1>8. OU!IsPrefix(needle, rest) <=> L <= M /\ needle = head
  BY <1>2, <1>5 DEF OU!IsPrefix, L, head
<1>9. L <= M => (needle = head <=> \A k \in 1..L : b[i + k - 1] = needle[k])
  <2> SUFFICES ASSUME L <= M
               PROVE  needle = head <=> \A k \in 1..L : b[i + k - 1] = needle[k]
    OBVIOUS
  <2>1. \A k \in 1..L : k \in 1..M BY <1>1, <1>5
  <2>2. \A k \in 1..L : head[k] = b[i + k - 1] BY <1>5, <1>6, <2>1
  <2>3. QED BY <1>7, <2>2
<1>10. L <= M <=> i + L - 1 <= Len(b) BY <1>1
<1>11. QED BY <1>8, <1>9, <1>10 DEF Occurs, L, rest

\* What is in a stretch is in the whole, and the other way round if it lies
\* in the stretch.
LEMMA OccursWithin ==
  ASSUME NEW B, NEW a \in Seq(B), NEW b \in Seq(B), NEW needle \in Seq(B), needle # <<>>,
         NEW off, Within(a, b, off), NEW i \in Int
  PROVE  Occurs(a, needle, i)
           <=> i >= 1 /\ i + Len(needle) - 1 <= Len(a) /\ Occurs(b, needle, off + i)
<1> DEFINE L == Len(needle)
<1>1. L \in Nat \ {0} /\ Len(a) \in Nat /\ Len(b) \in Nat BY EmptySeq
<1>2. off \in Nat /\ off + Len(a) <= Len(b) /\ \A j \in 1..Len(a) : a[j] = b[off + j]
  BY DEF Within
<1> HIDE DEF L
<1>3. CASE i >= 1 /\ i + L - 1 <= Len(a)
  <2>1. i \in 1..Len(a) /\ off + i \in 1..Len(b) /\ (off + i) + L - 1 <= Len(b)
    BY <1>1, <1>2, <1>3
  <2>2. \A k \in 1..L : a[i + k - 1] = b[(off + i) + k - 1]
    <3> SUFFICES ASSUME NEW k \in 1..L PROVE a[i + k - 1] = b[(off + i) + k - 1]
      OBVIOUS
    <3>1. i + k - 1 \in 1..Len(a) BY <1>1, <1>3
    <3>2. a[i + k - 1] = b[off + (i + k - 1)] BY <1>2, <3>1
    <3>3. off + (i + k - 1) = (off + i) + k - 1 BY <1>1, <1>2
    <3>4. QED BY <3>2, <3>3
  <2>3. QED BY <1>3, <2>1, <2>2 DEF Occurs, L
<1>4. CASE ~(i >= 1 /\ i + L - 1 <= Len(a))
  <2>1. QED BY <1>1, <1>4 DEF Occurs, L
<1>5. QED BY <1>3, <1>4

\* Two pieces in a row lie in their concatenation, and a stretch at the end
\* goes on with what follows.
LEMMA WithinConcat ==
  ASSUME NEW B, NEW a \in Seq(B), NEW b \in Seq(B), NEW u \in Seq(B), NEW v \in Seq(B),
         Within(a, b, Len(b) - Len(a)), Within(v, u, 0)
  PROVE  /\ Within(b, b \o u, 0) /\ Within(u, b \o u, Len(b))
         /\ Within(a \o v, b \o u, Len(b) - Len(a))
<1> DEFINE new == b \o u
           x == a \o v
           off == Len(b) - Len(a)
<1>1. /\ Len(a) \in Nat /\ Len(b) \in Nat /\ Len(u) \in Nat /\ Len(v) \in Nat
  OBVIOUS
<1>2. /\ new \in Seq(B) /\ Len(new) = Len(b) + Len(u)
      /\ \A i \in 1..Len(b) + Len(u) : new[i] = IF i <= Len(b) THEN b[i] ELSE u[i - Len(b)]
  BY ConcatProperties
<1>3. /\ x \in Seq(B) /\ Len(x) = Len(a) + Len(v)
      /\ \A i \in 1..Len(a) + Len(v) : x[i] = IF i <= Len(a) THEN a[i] ELSE v[i - Len(a)]
  BY ConcatProperties
<1>4. /\ off \in Nat /\ off + Len(a) = Len(b) /\ \A j \in 1..Len(a) : a[j] = b[off + j]
      /\ Len(v) <= Len(u) /\ \A j \in 1..Len(v) : v[j] = u[0 + j]
  BY <1>1 DEF Within
<1> HIDE DEF new, x, off
<1>5. \A j \in 1..Len(b) : new[j] = b[j]
  <2> SUFFICES ASSUME NEW j \in 1..Len(b) PROVE new[j] = b[j] OBVIOUS
  <2>1. j \in 1..(Len(b) + Len(u)) /\ j <= Len(b) BY <1>1
  <2>2. QED BY <1>2, <2>1
<1>6. \A j \in 1..Len(u) : new[Len(b) + j] = u[j]
  <2> SUFFICES ASSUME NEW j \in 1..Len(u) PROVE new[Len(b) + j] = u[j] OBVIOUS
  <2>1. Len(b) + j \in 1..(Len(b) + Len(u)) /\ ~(Len(b) + j <= Len(b))
        /\ Len(b) + j - Len(b) = j
    BY <1>1
  <2>2. QED BY <1>2, <2>1
<1>7. Within(b, new, 0)
  <2>1. \A j \in 1..Len(b) : 0 + j = j OBVIOUS
  <2>2. QED BY <1>1, <1>2, <1>5, <2>1 DEF Within
<1>8. Within(u, new, Len(b)) BY <1>1, <1>2, <1>6 DEF Within
<1>9. Within(x, new, off)
  <2>1. off \in Nat /\ off + Len(x) <= Len(new) BY <1>1, <1>2, <1>3, <1>4
  <2>2. ASSUME NEW j \in 1..Len(x) PROVE x[j] = new[off + j]
    <3>1. j \in 1..(Len(a) + Len(v)) BY <1>3
    <3>2. CASE j <= Len(a)
      <4>1. j \in 1..Len(a) /\ off + j \in 1..Len(b) BY <1>1, <1>4, <3>1, <3>2
      <4>2. QED BY <1>3, <1>4, <1>5, <3>1, <3>2, <4>1
    <3>3. CASE ~(j <= Len(a))
      <4>1. /\ j - Len(a) \in 1..Len(v) /\ j - Len(a) \in 1..Len(u)
            /\ off + j = Len(b) + (j - Len(a)) /\ 0 + (j - Len(a)) = j - Len(a)
        <5>1. /\ off \in Nat /\ off + Len(a) = Len(b) /\ Len(v) <= Len(u) BY <1>4
        <5>2. j \in Nat /\ j > Len(a) /\ j <= Len(a) + Len(v) BY <1>1, <3>1, <3>3
        <5>3. j - Len(a) \in 1..Len(v) BY <1>1, <5>2
        <5>4. j - Len(a) \in 1..Len(u) BY <1>1, <5>1, <5>3
        <5>5. off + j = Len(b) + (j - Len(a))
          <6>1. off + j = (off + Len(a)) + (j - Len(a)) BY <1>1, <5>1, <5>2
          <6>2. QED BY <5>1, <6>1
        <5>6. 0 + (j - Len(a)) = j - Len(a) BY <5>3
        <5>7. QED BY <5>3, <5>4, <5>5, <5>6
      <4>2. new[off + j] = u[j - Len(a)] BY <1>6, <4>1
      <4>3. v[j - Len(a)] = u[j - Len(a)] BY <1>4, <4>1
      <4>4. QED BY <1>3, <3>1, <3>3, <4>2, <4>3
    <3>4. QED BY <3>2, <3>3
  <2>3. QED BY <2>1, <2>2 DEF Within
<1>10. QED BY <1>7, <1>8, <1>9 DEF new, x, off

\* What is carried over: the end of the output so far, in so far as a needle
\* could have begun in it.
CarryState(B, tail, all, needle) ==
  LET n == Len(needle) - 1
  IN /\ tail \in Seq(B)
     /\ Len(tail) = IF Len(all) < n THEN Len(all) ELSE n
     /\ Within(tail, all, Len(all) - Len(tail))

LEMMA TailKeeps ==
  ASSUME NEW B, NEW all \in Seq(B), NEW read \in Seq(B), NEW tail,
         NEW needle \in Seq(B), needle # <<>>, CarryState(B, tail, all, needle)
  PROVE  CarryState(B, OU!TailOf(tail, read, needle), all \o read, needle)
<1> DEFINE n == Len(needle) - 1
           x == tail \o read
           new == all \o read
           next == OU!TailOf(tail, read, needle)
<1>1. n \in Nat /\ Len(all) \in Nat /\ Len(read) \in Nat BY EmptySeq
<1>2. /\ tail \in Seq(B) /\ Len(tail) \in Nat
      /\ Len(tail) = IF Len(all) < n THEN Len(all) ELSE n
      /\ Within(tail, all, Len(all) - Len(tail))
  BY DEF CarryState
<1>3. Within(read, read, 0)
  <2>1. \A j \in 1..Len(read) : 0 + j = j OBVIOUS
  <2>2. QED BY <1>1, <2>1 DEF Within
<1>4. x \in Seq(B) /\ Len(x) = Len(tail) + Len(read) BY <1>2, ConcatProperties
<1>5. new \in Seq(B) /\ Len(new) = Len(all) + Len(read) BY ConcatProperties
<1>6. Within(x, new, Len(all) - Len(tail)) BY <1>2, <1>3, WithinConcat
<1>7. next = IF Len(x) <= n THEN x ELSE SubSeq(x, Len(x) - n + 1, Len(x))
  BY DEF OU!TailOf
<1> HIDE DEF n, x, new, next
<1>8. Len(all) - Len(tail) = Len(new) - Len(x) BY <1>1, <1>2, <1>4, <1>5
<1>9. CASE Len(x) <= n
  <2>1. next = x BY <1>7, <1>9
  <2>2. Len(x) = IF Len(new) < n THEN Len(new) ELSE n
    <3>1. CASE Len(all) < n
      <4>1. Len(x) = Len(new) /\ Len(new) <= n BY <1>2, <1>4, <1>5, <1>9, <3>1
      <4>2. Len(new) \in Nat BY <1>1, <1>5
      <4>3. QED BY <1>1, <4>1, <4>2
    <3>2. CASE ~(Len(all) < n)
      <4>1. Len(tail) = n BY <1>2, <3>2
      <4>2. Len(read) = 0 BY <1>1, <1>4, <1>9, <4>1
      <4>3. Len(x) = n /\ Len(new) = Len(all) BY <1>1, <1>4, <1>5, <4>1, <4>2
      <4>4. QED BY <3>2, <4>3
    <3>3. QED BY <3>1, <3>2
  <2>3. QED BY <1>4, <1>6, <1>8, <2>1, <2>2 DEF CarryState, n, new, next
<1>10. CASE ~(Len(x) <= n)
  <2> DEFINE m == Len(x) - n + 1
  <2>1. Len(x) \in Nat /\ m \in Int /\ m >= 1 /\ \A j \in m..Len(x) : x[j] \in B
    BY <1>1, <1>2, <1>4, <1>10
  <2>2. next = SubSeq(x, m, Len(x)) BY <1>7, <1>10
  <2> HIDE DEF m
  <2>3. /\ next \in Seq(B)
        /\ Len(next) = IF m <= Len(x) THEN Len(x) - m + 1 ELSE 0
        /\ \A j \in 1..(Len(x) - m + 1) : next[j] = x[m + j - 1]
    BY <2>1, <2>2, SubSeqProperties
  <2>4. Len(next) = n BY <1>1, <2>1, <2>3 DEF m
  <2>5. \A j \in 1..n : next[j] = x[(Len(x) - n) + j]
    <3>1. Len(x) - m + 1 = n /\ \A j \in 1..n : m + j - 1 = (Len(x) - n) + j
      BY <1>1, <2>1 DEF m
    <3>2. QED BY <2>3, <3>1
  <2>6. \A j \in 1..n : next[j] = new[(Len(new) - n) + j]
    <3> SUFFICES ASSUME NEW j \in 1..n PROVE next[j] = new[(Len(new) - n) + j] OBVIOUS
    <3>1. (Len(x) - n) + j \in 1..Len(x) BY <1>1, <1>10, <2>1
    <3>2. x[(Len(x) - n) + j] = new[(Len(new) - Len(x)) + ((Len(x) - n) + j)]
      BY <1>6, <1>8, <3>1 DEF Within
    <3>3. (Len(new) - Len(x)) + ((Len(x) - n) + j) = (Len(new) - n) + j
      BY <1>1, <1>5, <2>1
    <3>4. QED BY <2>5, <3>2, <3>3
  <2>7. Len(new) >= Len(x) /\ Len(new) \in Nat /\ Len(new) > n
    BY <1>1, <1>2, <1>4, <1>5, <1>10
  <2>8. Within(next, new, Len(new) - Len(next))
    <3>1. Len(new) - n \in Nat /\ (Len(new) - n) + n <= Len(new) BY <1>1, <2>7
    <3>2. QED BY <2>4, <2>6, <3>1 DEF Within
  <2>9. Len(next) = IF Len(new) < n THEN Len(new) ELSE n BY <1>1, <2>4, <2>7
  <2>10. QED BY <2>3, <2>8, <2>9 DEF CarryState, n, new, next
<1>11. QED BY <1>9, <1>10

LEMMA HitsKeeps ==
  ASSUME NEW B, NEW all \in Seq(B), NEW read \in Seq(B), NEW tail,
         NEW needle \in Seq(B), needle # <<>>, CarryState(B, tail, all, needle)
  PROVE  OU!Has(all \o read, needle)
           <=> OU!Has(all, needle) \/ OU!Hits(tail, read, needle)
<1> DEFINE L == Len(needle)
           n == L - 1
           new == all \o read
           h == IF Len(read) < n THEN Len(read) ELSE n
           head == SubSeq(read, 1, h)
           x == tail \o head
           off == Len(all) - Len(tail)
<1>1. L \in Nat \ {0} /\ n \in Nat /\ Len(all) \in Nat /\ Len(read) \in Nat BY EmptySeq
<1>2. /\ tail \in Seq(B) /\ Len(tail) \in Nat
      /\ Len(tail) = IF Len(all) < n THEN Len(all) ELSE n
      /\ Within(tail, all, off)
  BY DEF CarryState
<1>3. h \in Nat /\ h <= Len(read) /\ h <= n /\ (h < n => h = Len(read)) BY <1>1
<1>4. OU!Hits(tail, read, needle) <=> OU!Has(x, needle) \/ OU!Has(read, needle)
  BY DEF OU!Hits
<1> HIDE DEF h
<1>5. head \in Seq(B) /\ Len(head) = h /\ Within(head, read, 0)
  <2>1. \A j \in 1..h : read[j] \in B BY <1>1, <1>3
  <2>2. /\ head \in Seq(B) /\ Len(head) = IF 1 <= h THEN h - 1 + 1 ELSE 0
        /\ \A j \in 1..(h - 1 + 1) : head[j] = read[1 + j - 1]
    BY <1>3, <2>1, SubSeqProperties
  <2> HIDE DEF head
  <2>3. Len(head) = h BY <1>3, <2>2
  <2>4. \A j \in 1..h : head[j] = read[0 + j] BY <1>3, <2>2
  <2>5. 0 + h <= Len(read) BY <1>3
  <2>6. QED BY <2>2, <2>3, <2>4, <2>5 DEF Within
<1> HIDE DEF head
<1>6. x \in Seq(B) /\ Len(x) = Len(tail) + h BY <1>2, <1>5, ConcatProperties
<1>7. new \in Seq(B) /\ Len(new) = Len(all) + Len(read) BY ConcatProperties
<1>8. Within(all, new, 0) /\ Within(read, new, Len(all)) /\ Within(x, new, off)
  BY <1>2, <1>5, WithinConcat
<1>9. off \in Nat /\ off + Len(tail) = Len(all) BY <1>1, <1>2 DEF Within
<1> HIDE DEF L, n, new, x, off
<1> DEFINE In(b) == \E i \in 1..Len(b) : Occurs(b, needle, i)
<1>10. /\ OU!Has(new, needle) <=> In(new)
       /\ OU!Has(all, needle) <=> In(all)
       /\ OU!Has(read, needle) <=> In(read)
       /\ OU!Has(x, needle) <=> In(x)
  BY <1>6, <1>7, HasOccurs
<1>11. ASSUME NEW b \in Seq(B), NEW o, Within(b, new, o), In(b) PROVE In(new)
  <2>1. PICK i \in 1..Len(b) : Occurs(b, needle, i) BY <1>11
  <2>2. Occurs(new, needle, o + i) BY <1>7, <1>11, <2>1, OccursWithin
  <2>3. QED BY <2>2 DEF Occurs
<1>12. ASSUME NEW i \in 1..Len(new), Occurs(new, needle, i)
       PROVE  In(all) \/ In(read) \/ In(x)
  <2>1. i + L - 1 <= Len(new) BY <1>12 DEF Occurs, L
  <2>2. CASE i + L - 1 <= Len(all)
    <3>1. i \in Int /\ i >= 1 /\ 0 + i = i BY <1>1, <1>7
    <3>2. Occurs(all, needle, i) BY <1>7, <1>8, <1>12, <2>2, <3>1, OccursWithin DEF L
    <3>3. QED BY <3>2 DEF Occurs
  <2>3. CASE i > Len(all)
    <3> DEFINE k == i - Len(all)
    <3>1. k \in Int /\ k >= 1 /\ Len(all) + k = i /\ k + L - 1 <= Len(read)
      BY <1>1, <1>7, <2>1, <2>3
    <3> HIDE DEF k
    <3>2. Occurs(read, needle, k) BY <1>7, <1>8, <1>12, <3>1, OccursWithin DEF L
    <3>3. QED BY <3>2 DEF Occurs
  <2>4. CASE ~(i + L - 1 <= Len(all)) /\ ~(i > Len(all))
    <3> DEFINE k == i - off
    <3>1. k \in Int /\ off + k = i BY <1>1, <1>7, <1>9
    <3>2. n = L - 1 BY DEF n
    <3>3. k >= 1
      <4>1. CASE Len(all) < n BY <1>1, <1>2, <1>7, <1>9, <4>1
      <4>2. CASE ~(Len(all) < n)
        <5>1. off = Len(all) - n BY <1>1, <1>2, <1>9, <4>2
        <5>2. QED BY <1>1, <1>7, <2>4, <3>2, <5>1
      <4>3. QED BY <4>1, <4>2
    <3>4. k + L - 1 <= Len(x)
      <4>1. Len(x) = Len(all) - off + h
        <5>1. Len(tail) = Len(all) - off BY <1>1, <1>2, <1>9
        <5>2. QED BY <1>6, <5>1
      <4>2. i + L - 1 <= Len(all) + h
        <5>1. CASE h = n BY <1>1, <1>3, <1>7, <2>4, <3>2, <5>1
        <5>2. CASE h = Len(read) BY <1>1, <1>7, <2>1, <5>2
        <5>3. QED BY <1>1, <1>3, <5>1, <5>2
      <4>3. QED BY <1>1, <1>3, <1>7, <1>9, <4>1, <4>2
    <3> HIDE DEF k
    <3>5. Occurs(x, needle, k) BY <1>6, <1>7, <1>8, <1>12, <3>1, <3>3, <3>4, OccursWithin DEF L
    <3>6. QED BY <3>5 DEF Occurs
  <2>5. QED BY <2>2, <2>3, <2>4
<1>13. In(new) <=> In(all) \/ In(read) \/ In(x)
  <2>1. In(all) => In(new) BY <1>8, <1>11
  <2>2. In(read) => In(new) BY <1>8, <1>11
  <2>3. In(x) => In(new) BY <1>6, <1>8, <1>11
  <2>4. In(new) => In(all) \/ In(read) \/ In(x) BY <1>12
  <2>5. QED BY <2>1, <2>2, <2>3, <2>4
<1> HIDE DEF In
<1>14. QED BY <1>4, <1>10, <1>13 DEF new

\* What echo_loop carries from read to read.
Carries(B) == [tail : Seq(B), hit : BOOLEAN]
Unread == [tail |-> <<>>, hit |-> FALSE]
OneLook(acc, read, needle) ==
  [tail |-> OU!TailOf(acc.tail, read, needle),
   hit |-> acc.hit \/ OU!Hits(acc.tail, read, needle)]

LEMMA OneLookTyped ==
  ASSUME NEW B, NEW read \in Seq(B), NEW needle \in Seq(B), needle # <<>>,
         NEW acc \in Carries(B)
  PROVE  OneLook(acc, read, needle) \in Carries(B)
<1> DEFINE n == Len(needle) - 1
           x == acc.tail \o read
           m == Len(x) - n + 1
<1>1. acc.tail \in Seq(B) /\ acc.hit \in BOOLEAN /\ n \in Nat BY EmptySeq DEF Carries
<1>2. x \in Seq(B) /\ Len(x) \in Nat
  <2>1. x \in Seq(B) BY <1>1, ConcatProperties
  <2> HIDE DEF x
  <2>2. QED BY <2>1
<1>3. OU!TailOf(acc.tail, read, needle) = IF Len(x) <= n THEN x ELSE SubSeq(x, m, Len(x))
  BY DEF OU!TailOf
<1> HIDE DEF n, x
<1>4. CASE ~(Len(x) <= n)
  <2>1. m \in Int /\ \A j \in m..Len(x) : x[j] \in B BY <1>1, <1>2, <1>4
  <2> HIDE DEF m
  <2>2. SubSeq(x, m, Len(x)) \in Seq(B) BY <1>2, <2>1, SubSeqProperties
  <2>3. QED BY <1>1, <1>3, <1>4, <2>2 DEF OneLook, Carries
<1>5. CASE Len(x) <= n BY <1>1, <1>2, <1>3, <1>5 DEF OneLook, Carries
<1>6. QED BY <1>4, <1>5

SeenByReads(r, B, reads, needle) ==
  /\ r \in [0..Len(reads) -> Carries(B)]
  /\ OU!ReadySeen(reads, needle) = r[Len(reads)].hit
  /\ r[0] = Unread
  /\ \A n \in 0..(Len(reads) - 1) : r[n + 1] = OneLook(r[n], reads[n + 1], needle)

LEMMA WatchByReads ==
  ASSUME NEW B, NEW reads \in Seq(Seq(B)), NEW needle \in Seq(B), needle # <<>>
  PROVE  \E r : SeenByReads(r, B, reads, needle)
<1> DEFINE N == Len(reads)
           F == [x \in (1..N) \X Carries(B) |-> OneLook(x[2], reads[x[1]], needle)]
           Is(c) == c = [n \in 0..N |-> IF n = 0 THEN Unread
                                        ELSE OneLook(c[n - 1], reads[n], needle)]
           r == CHOOSE c : Is(c)
<1>1. N \in Nat /\ \A n \in 1..N : reads[n] \in Seq(B) OBVIOUS
<1> HIDE DEF N
<1>2. \A n \in 1..N : \A acc \in Carries(B) : OneLook(acc, reads[n], needle) \in Carries(B)
  BY <1>1, OneLookTyped
<1>3. F \in [(1..N) \X Carries(B) -> Carries(B)] BY <1>2
<1>4. \A n \in 1..N : \A acc \in Carries(B) :
        F[<<n, acc>>] = OneLook(acc, reads[n], needle)
  OBVIOUS
<1>5. Unread \in Carries(B) BY DEF Unread, Carries
<1> HIDE DEF F
<1>6. PICK c \in [0..N -> Carries(B)] : Recursion(c, N, Unread, F)
  BY <1>1, <1>3, <1>5, RecursionExists
<1>7. Is(c)
  <2>1. c = [n \in 0..N |-> IF n = 0 THEN Unread ELSE F[<<n, c[n - 1]>>]]
    BY <1>6 DEF Recursion
  <2>2. ASSUME NEW n \in 0..N, n # 0
        PROVE  F[<<n, c[n - 1]>>] = OneLook(c[n - 1], reads[n], needle)
    <3>1. n \in 1..N /\ n - 1 \in 0..N BY <1>1, <2>2
    <3>2. QED BY <1>4, <1>6, <3>1
  <2>3. \A n \in 0..N : (IF n = 0 THEN Unread ELSE F[<<n, c[n - 1]>>]) =
                        (IF n = 0 THEN Unread ELSE OneLook(c[n - 1], reads[n], needle))
    BY <2>2
  <2>4. QED BY <2>1, <2>3
<1>8. Is(r)
  <2> HIDE DEF Is
  <2>1. QED BY <1>7
<1>9. OU!ReadySeen(reads, needle) = r[N].hit BY DEF OU!ReadySeen, N, Unread, OneLook
<1>10. DOMAIN r = 0..N /\ \A n \in 0..N :
         r[n] = IF n = 0 THEN Unread ELSE OneLook(r[n - 1], reads[n], needle)
  BY <1>8
<1> HIDE DEF r
<1>11. r[0] = Unread /\ \A n \in 0..(N - 1) :
         r[n + 1] = OneLook(r[n], reads[n + 1], needle)
  <2>1. 0 \in 0..N BY <1>1
  <2>2. \A n \in 0..(N - 1) : n + 1 \in 0..N /\ n + 1 # 0 /\ (n + 1) - 1 = n BY <1>1
  <2>3. QED BY <1>10, <2>1, <2>2
<1> DEFINE Typed == {n \in 0..N : r[n] \in Carries(B)}
<1>12. r \in [0..N -> Carries(B)]
  <2>1. 0 \in Typed BY <1>1, <1>5, <1>11
  <2>2. ASSUME NEW n \in 0..(N - 1), n \in Typed PROVE n + 1 \in Typed
    <3>1. n + 1 \in 1..N /\ n + 1 \in 0..N BY <1>1
    <3>2. QED BY <1>2, <1>11, <2>2, <3>1
  <2> HIDE DEF Typed
  <2>3. \A n \in 0..N : n \in Typed BY <1>1, <2>1, <2>2, Onward
  <2>4. r = [n \in 0..N |-> r[n]] BY <1>8 DEF r
  <2>5. QED BY <2>3, <2>4 DEF Typed
<1>13. SeenByReads(r, B, reads, needle) BY <1>9, <1>11, <1>12 DEF N, SeenByReads
<1>14. QED BY <1>13

LEMMA ReadyIsExact ==
  ASSUME NEW B, NEW reads \in Seq(Seq(B)), NEW needle \in Seq(B), needle # <<>>
  PROVE  OU!ReadyExact(reads, needle)
<1> DEFINE N == Len(reads)
           Watches(acc, all) == /\ CarryState(B, acc.tail, all, needle)
                                /\ acc.hit <=> OU!Has(all, needle)
<1>1. N \in Nat /\ \A n \in 1..N : reads[n] \in Seq(B) OBVIOUS
<1>2. PICK r : SeenByReads(r, B, reads, needle) BY WatchByReads
<1>3. /\ r \in [0..N -> Carries(B)]
      /\ OU!ReadySeen(reads, needle) = r[N].hit
      /\ r[0] = Unread
      /\ \A n \in 0..(N - 1) : r[n + 1] = OneLook(r[n], reads[n + 1], needle)
  BY <1>2 DEF SeenByReads
<1>4. /\ Joined(reads, 0) = <<>>
      /\ Joined(reads, N) = OU!FlattenSeq(reads)
      /\ \A n \in 0..N : Joined(reads, n) \in Seq(B)
      /\ \A n \in 0..(N - 1) : Joined(reads, n + 1) = Joined(reads, n) \o reads[n + 1]
  BY JoinedByReads
<1> HIDE DEF N
<1> DEFINE Follows == {n \in 0..N : Watches(r[n], Joined(reads, n))}
<1>5. 0 \in Follows
  <2>1. <<>> \in Seq(B) /\ Len(<<>>) = 0 /\ DOMAIN <<>> = {} OBVIOUS
  <2>2. Within(<<>>, <<>>, 0) BY <2>1 DEF Within
  <2>3. Len(needle) - 1 \in Nat BY EmptySeq
  <2>4. CarryState(B, <<>>, <<>>, needle)
    <3> DEFINE n == Len(needle) - 1
    <3>1. n \in Nat BY <2>3
    <3> HIDE DEF n
    <3>2. Len(<<>>) = IF Len(<<>>) < n THEN Len(<<>>) ELSE n BY <2>1, <3>1
    <3>3. Len(<<>>) - Len(<<>>) = 0 BY <2>1
    <3>4. QED BY <2>1, <2>2, <3>2, <3>3 DEF CarryState, n
  <2>5. ~OU!Has(<<>>, needle) BY <2>1 DEF OU!Has
  <2>6. Watches(Unread, <<>>) BY <2>4, <2>5 DEF Unread
  <2> HIDE DEF Watches
  <2>7. QED BY <1>1, <1>3, <1>4, <2>6
<1>6. ASSUME NEW n \in 0..(N - 1), n \in Follows PROVE n + 1 \in Follows
  <2>1. n \in 0..N /\ n + 1 \in 0..N /\ n + 1 \in 1..N BY <1>1
  <2> DEFINE acc == r[n]
             all == Joined(reads, n)
             read == reads[n + 1]
  <2>2. acc \in Carries(B) /\ all \in Seq(B) /\ read \in Seq(B) BY <1>1, <1>3, <1>4, <2>1
  <2>3. CarryState(B, acc.tail, all, needle) /\ (acc.hit <=> OU!Has(all, needle)) BY <1>6
  <2> HIDE DEF acc, all, read
  <2> DEFINE next == OneLook(acc, read, needle)
  <2>4. CarryState(B, next.tail, all \o read, needle)
    BY <2>2, <2>3, TailKeeps DEF OneLook
  <2>5. next.hit <=> OU!Has(all \o read, needle)
    <3>1. OU!Has(all \o read, needle) <=> OU!Has(all, needle) \/ OU!Hits(acc.tail, read, needle)
      BY <2>2, <2>3, HitsKeeps
    <3>2. next.hit <=> acc.hit \/ OU!Hits(acc.tail, read, needle) BY DEF OneLook
    <3>3. QED BY <2>3, <3>1, <3>2
  <2> HIDE DEF next
  <2>6. Watches(next, all \o read) BY <2>4, <2>5
  <2> HIDE DEF Watches
  <2>7. QED BY <1>3, <1>4, <2>1, <2>6 DEF next, acc, all, read
<1>7. Watches(r[N], OU!FlattenSeq(reads))
  <2> HIDE DEF Follows
  <2>1. \A n \in 0..N : n \in Follows BY <1>1, <1>5, <1>6, Onward
  <2>2. N \in Follows BY <1>1, <2>1
  <2> HIDE DEF Watches
  <2>3. QED BY <1>4, <2>2 DEF Follows
<1>8. QED BY <1>3, <1>7 DEF OU!ReadyExact

\* The reads of the instance are sequences of pieces of letters.
LEMMA PiecesTyped ==
  ASSUME NEW B, NEW n \in Nat, NEW b \in [1..n -> B], NEW ends \in Ends(n)
  PROVE  Pieces(b, ends) \in Seq(Seq(B))
<1>1. PICK k \in 1..n : ends \in [1..k -> 1..n] BY DEF Ends
<1>2. k \in Nat /\ DOMAIN ends = 1..k /\ \A i \in 1..k : ends[i] \in 1..n BY <1>1
<1> DEFINE From(i) == IF i = 1 THEN 1 ELSE ends[i - 1] + 1
<1>3. ASSUME NEW i \in 1..k PROVE SubSeq(b, From(i), ends[i]) \in Seq(B)
  <2>1. i # 1 => i - 1 \in 1..k BY <1>2
  <2>2. From(i) \in Int /\ From(i) >= 1 /\ ends[i] \in Int /\ ends[i] <= n
    BY <1>2, <2>1
  <2> HIDE DEF From
  <2>3. \A j \in From(i)..ends[i] : b[j] \in B
    <3>1. \A j \in From(i)..ends[i] : j \in 1..n BY <2>2
    <3>2. QED BY <3>1
  <2>4. QED BY <2>2, <2>3, SubSeqProperties
<1>4. Pieces(b, ends) = [i \in 1..k |-> SubSeq(b, From(i), ends[i])] BY <1>2 DEF Pieces
<1> HIDE DEF From
<1>5. QED BY <1>2, <1>3, <1>4

LEMMA ReadsTyped == Reads \subseteq Seq(Seq({"R", "Y", "N", OU!Lead, OU!Trail}))
<1> DEFINE B == {"R", "Y", "N", OU!Lead, OU!Trail}
<1> SUFFICES ASSUME NEW reads \in Reads PROVE reads \in Seq(Seq(B)) OBVIOUS
<1>1. PICK b \in Strings : \E ends \in Ends(Len(b)) : reads = Pieces(b, ends) BY DEF Reads
<1>2. PICK n \in 1..5 : b \in [1..n -> B] BY DEF Strings
<1>3. n \in Nat /\ Len(b) = n BY <1>2
<1> HIDE DEF B
<1>4. \A ends \in Ends(Len(b)) : Pieces(b, ends) \in Seq(Seq(B)) BY <1>2, <1>3, PiecesTyped
<1>5. QED BY <1>1, <1>4

-----------------------------------------------------------------------------
(* Every variable keeps its type: the channel never holds more than Cap     *)
(* frames, and the worker takes no chunk that was not captured.             *)
THEOREM RunTypeCorrect == Spec => []TypeOK
<1>1. RunInv => TypeOK
  BY DEF RunInv
<1> QED BY <1>1, RunInvariance, PTL

(* A task that waits for the worker of a client that has gone has asked for *)
(* the VM's stop: the stop handle was there when it learnt of the hang-up   *)
(* (main.rs, run_workload_inproc).                                          *)
THEOREM RunHangUpSeen == Spec => []HangUpStopsVm
<1>1. RunInv => HangUpStopsVm
  BY DEF RunInv
<1> QED BY <1>1, RunInvariance, PTL

(* The client is sent the guest's chunks in order, and the exit frame after *)
(* the last of them, or an error if nothing was run (Session::capture_rx).  *)
THEOREM RunRefinement == Spec => ImplementsRunStream
<1>1. Init => Stream!Init
  BY DEF Init, closed, Stream!Init
<1> QED BY <1>1, StreamStep, RunInvariance, PTL DEF Spec, ImplementsRunStream, Stream!Spec

(* However many threads and processes race to a daemon that is not there,   *)
(* crashes or drains, the threads of a process have one between them, but   *)
(* for a start that took over 5 s and what other processes did to theirs    *)
(* (Client::connect, start_and_connect, the daemon's main).                 *)
THEOREM DaemonSpawnedOnce == AS!Spec => [](AS!TypeOK /\ AS!SpawnedOnce)
<1>1. DaemonInv => AS!TypeOK /\ AS!SpawnedOnce BY DaemonSafe DEF DaemonInv
<1>2. QED BY <1>1, DaemonInit, DaemonStep, PTL DEF AS!Spec

(* What click_at, desktop_paste and desktop_launch tell their caller is so, *)
(* whatever other calls, a viewer and the guest do between their requests.  *)
THEOREM ToolsReportTruly == DT!Spec => [](DT!TypeOK /\ DT!ReportsTrue)
BY ToolsInit, ToolsStep, ToolsSafe, PTL DEF DT!Spec

(* Whatever changes from frame to frame, on any grid of tiles: a screen     *)
(* that is called settled has been still outside of the areas named, these  *)
(* are the boxes of the connected moving tiles, and one moving spot delays  *)
(* the verdict by less than a window and a clean run (SettleDetector::push, *)
(* is_churning, churn_rects).                                               *)
THEOREM SettleVerdictsSound ==
  SE!Spec => [](SE!TypeOK /\ SE!SettledIsStill /\ SE!LoneSpotPasses
                /\ SE!BoxesOfComponents(Churns))
<1>1. SettleInv => SE!TypeOK /\ SE!SettledIsStill /\ SE!LoneSpotPasses
                   /\ SE!BoxesOfComponents(Churns)
  BY SettleSafe DEF Churns
<1>2. QED BY <1>1, SettleInit, SettleStep, PTL DEF SE!Spec

(* However the pipe cuts a guest's output, of any bytes, and whatever the   *)
(* cap: the consumer gets the output up to the cap once and in order, and   *)
(* the notice whenever something was dropped, but if a read ended just on   *)
(* the cap (drain_capture); and the daemon's client gets the text of it     *)
(* just when no character lay across two reads (run_workload_inproc).       *)
THEOREM CaptureExactForAll ==
  ASSUME NEW B, OU!Notice \notin Seq(B), OU!Replacement \notin B
  PROVE  \A reads \in Seq(Seq(B)) : \A cap \in Nat \ {0} :
           /\ OU!CaptureExact(reads, cap)
           /\ OU!TextExact(OU!Passed(OU!Captured(reads, cap)))
BY CaptureIsExact, TextIsExact

(* In however many pieces the guest's bytes arrive, the marker is found     *)
(* exactly when it has been sent, whatever the marker (echo_loop).          *)
THEOREM ReadyExactForAll ==
  ASSUME NEW B
  PROVE  \A reads \in Seq(Seq(B)) : \A needle \in Seq(B) \ {<<>>} :
           OU!ReadyExact(reads, needle)
BY ReadyIsExact

\* The parts of the composition take their own steps or none.
LEMMA RequestsParts ==
  [RequestsNext]_allVars =>
    [Next]_vars /\ [AS!Next]_(AS!vars) /\ [DT!Next]_(DT!vars) /\ [SE!Next]_(SE!vars)
BY DEF RequestsNext, startVars, toolVars, settleVars, allVars, AS!vars, AS!clients,
       AS!daemons, AS!history, DT!vars, DT!call, DT!guest, DT!history, SE!vars, SE!tileVars

\* Where there is no run, the parts of its invariant hold of nothing.
LEMMA NoRunInv == NoRun => RunInv
<1> SUFFICES ASSUME NoRun PROVE RunInv OBVIOUS
<1>1. /\ worker = "failed" /\ loop = "over" /\ vm = "off" /\ capture = "off"
      /\ handle = FALSE /\ stopping = FALSE /\ client = "gone"
      /\ printed = 0 /\ captured = 0 /\ taken = 0
      /\ chan = <<>> /\ got = <<>>
  BY DEF NoRun
<1>2. TypeOK
  <2>1. chan \in Seq(0..MaxChunks) /\ Len(chan) <= Cap BY <1>1, RunConstants, EmptySeq
  <2>2. got \in Seq(0..MaxChunks + 1) BY <1>1, EmptySeq
  <2>3. printed \in 0..MaxChunks /\ captured \in 0..printed /\ taken \in 0..captured
    BY <1>1, RunConstants
  <2>4. QED BY <1>1, <2>1, <2>2, <2>3 DEF TypeOK
<1>3. Pipeline /\ HandOver /\ HangUpStopsVm
  BY <1>1 DEF Pipeline, HandOver, HangUpStopsVm, Done
<1>4. Len(chan) = 0 /\ Len(got) = 0 /\ Sent = 0 /\ Total = 0
  BY <1>1, EmptySeq DEF Sent, Total
<1>5. Flow BY <1>1, <1>4 DEF Flow, InChannel, Delivered, InStep
<1>6. QED BY <1>2, <1>3, <1>5 DEF RunInv

LEMMA RequestsInvariance == RequestsSpec => [](RunInv /\ DaemonInv /\ ToolsInv /\ SettleInv)
<1>1. RequestsInit => RunInv /\ DaemonInv /\ ToolsInv /\ SettleInv
  BY RunInit, NoRunInv, DaemonInit, ToolsInit, SettleInit DEF RequestsInit
<1>2. RunInv /\ DaemonInv /\ ToolsInv /\ SettleInv /\ [RequestsNext]_allVars
        => (RunInv /\ DaemonInv /\ ToolsInv /\ SettleInv)'
  BY RequestsParts, RunStep, DaemonStep, ToolsStep, SettleStep
<1>3. QED BY <1>1, <1>2, PTL DEF RequestsSpec

(* The same in the behaviours of the composition: the VM of a client that   *)
(* hung up is stopped, ...                                                  *)
THEOREM RequestsHangUpSeen == RequestsSpec => []HangUpStopsVm
<1>1. RunInv => HangUpStopsVm BY DEF RunInv
<1>2. QED BY <1>1, RequestsInvariance, PTL

(* ... what a client is sent is the guest's output in order, ...            *)
THEOREM RequestsRefinement == RequestsSpec => ImplementsRunStream
<1>1. RequestsInit => Stream!Init BY DEF RequestsInit, NoRun, Init, closed, Stream!Init
<1>2. [RequestsNext]_allVars => [Next]_vars BY RequestsParts
<1>3. QED
  BY <1>1, <1>2, StreamStep, RequestsInvariance, PTL
  DEF RequestsSpec, ImplementsRunStream, Stream!Spec

(* ... one daemon for the threads of a process, ...                         *)
THEOREM RequestsSpawnOnce == RequestsSpec => []SpawnedOnce
<1>1. DaemonInv => SpawnedOnce BY DaemonSafe DEF SpawnedOnce
<1>2. QED BY <1>1, RequestsInvariance, PTL

(* ... reports that are true, ...                                           *)
THEOREM RequestsReportTruly == RequestsSpec => []ReportsTrue
<1>1. ToolsInv => ReportsTrue BY ToolsSafe DEF ReportsTrue
<1>2. QED BY <1>1, RequestsInvariance, PTL

(* ... output of which the client gets every byte below the cap, as text    *)
(* that is right but where a read cut a character, ...                      *)
THEOREM RequestsChunksRight == RequestsSpec => []ChunksRight
<1> DEFINE B == {"R", "Y", "N", OU!Lead, OU!Trail}
           Cased == part = "output" => case \in Reads
<1>1. Cased => ChunksRight
  <2> SUFFICES ASSUME part = "output", case \in Reads
               PROVE  /\ OU!CaptureExact(case, OutputCap)
                      /\ OU!TextExact(OU!Passed(OU!Captured(case, OutputCap)))
                      /\ OU!ReadyExact(case, Needle)
    BY DEF ChunksRight
  <2>1. case \in Seq(Seq(B)) BY ReadsTyped
  <2>2. OU!Notice \notin Seq(B) BY DEF OU!Notice, OU!Lead, OU!Trail
  <2>3. OutputCap \in Nat \ {0} BY DEF OutputCap
  <2>4. Needle \in Seq(B) /\ Needle # <<>> BY DEF Needle
  <2>5. OU!Replacement \notin B BY DEF OU!Replacement, OU!Lead, OU!Trail
  <2> HIDE DEF B
  <2>6. /\ OU!CaptureExact(case, OutputCap)
        /\ OU!Passed(OU!Captured(case, OutputCap)) \in Seq(Seq(B))
    BY <2>1, <2>2, <2>3, CaptureIsExact
  <2>7. OU!TextExact(OU!Passed(OU!Captured(case, OutputCap))) BY <2>5, <2>6, TextIsExact
  <2>8. OU!ReadyExact(case, Needle) BY <2>1, <2>4, ReadyIsExact
  <2>9. QED BY <2>6, <2>7, <2>8
<1>2. RequestsInit => Cased BY DEF RequestsInit
<1>3. Cased /\ [RequestsNext]_allVars => Cased'
  BY DEF RequestsNext, allVars, vars
<1> HIDE DEF Cased
<1>4. QED BY <1>1, <1>2, <1>3, PTL DEF RequestsSpec

(* ... and verdicts of the detector that can be relied on.                  *)
THEOREM RequestsSettleSound == RequestsSpec => []SettleSound
<1>1. SettleInv => SettleSound BY SettleSafe DEF SettleSound
<1>2. QED BY <1>1, RequestsInvariance, PTL
=============================================================================
