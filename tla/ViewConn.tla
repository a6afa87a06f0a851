------------------------------ MODULE ViewConn ------------------------------
(***************************************************************************)
(* One connection of the live VNC view (vmette-daemon/view.rs): the reader *)
(* thread, the writer thread, and the state they share under one lock and  *)
(* a condition variable (Conn), between a viewer that asks for updates and *)
(* the guest's screen.                                                     *)
(*                                                                         *)
(* A frame is a function from tiles to colours, so that an incremental     *)
(* update, which carries the changed tiles, can be told from a full one.   *)
(* req_seq and served_seq occur in the code by their difference only: it   *)
(* is the length of asks, the requests received and not yet marked served. *)
(*                                                                         *)
(* Left out: pixel formats and the layout of the messages (module Rfb),    *)
(* pointer and keys (module Input), and the pauses of the loops.           *)
(***************************************************************************)
EXTENDS Naturals, Sequences

CONSTANTS
  Tiles,    \* the tiles of the framebuffer
  MaxAsks   \* bound: requests the viewer has outstanding

ASSUME ViewConnAssumption == MaxAsks \in Nat \ {0}

Frames == [Tiles -> {0, 1}]
Blank  == [t \in Tiles |-> 2]   \* no frame: a colour that no tile has

VARIABLES
  reader,   \* the connection's own thread
  writer,   \* the writer thread
  alive,    \* Conn.alive
  asks,     \* outstanding requests: TRUE stands for a non-incremental one
  incr,     \* ConnState.incremental
  noted,    \* the writer's req_seq and incremental, for this iteration
  frame,    \* its capture, and
  arrived,  \* history: the requests that had arrived when it was made
  lastPng,  \* the capture it last decoded
  last,     \* the frame it last sent
  shown,    \* what the viewer has on its screen
  socket,   \* "open", "left" (the viewer closed it) or "shut" (shutdown())
  stalled,  \* the viewer has stopped reading
  screen,   \* the guest's screen
  session   \* "up" or "down"

local == <<noted, frame, arrived>>
drawn == <<lastPng, last, shown>>
peers == <<socket, stalled, screen, session>>
vars == <<reader, writer, alive, asks, incr, local, drawn, peers>>

Nothing == [n |-> 0, incr |-> TRUE]

Init ==
  /\ reader = "handshake"
  /\ writer = "none"
  /\ alive = TRUE
  /\ asks = <<>>
  /\ incr = TRUE
  /\ noted = Nothing /\ frame = Blank /\ arrived = 0
  /\ lastPng = Blank /\ last = Blank /\ shown = Blank
  /\ socket = "open"
  /\ stalled = FALSE
  /\ screen \in Frames
  /\ session = "up"

-----------------------------------------------------------------------------
(* The reader thread.                                                      *)

\* notify_all: a writer that sleeps on the condition variable goes on.
Woken == IF writer = "parked" THEN "look" ELSE writer

\* Mutant: kill() stores the flag without the lock.
KillUnlocked ==
  /\ alive' = FALSE
  /\ writer' = Woken

\* Conn::kill takes the lock, which a writer that is about to park holds.
Kill ==
  /\ writer # "parking"
  /\ alive' = FALSE
  /\ writer' = Woken

\* The handshake is done and the writer is spawned ...
Handshake ==
  /\ reader = "handshake" /\ socket = "open"
  /\ reader' = "reading"
  /\ writer' = "look"
  /\ UNCHANGED <<alive, asks, incr, local, drawn, peers>>

\* ... or the peer is no RFB client, leaves, or no writer can be spawned.
HandshakeFails ==
  /\ reader = "handshake"
  /\ reader' = "over"
  /\ UNCHANGED <<writer, alive, asks, incr, local, drawn, peers>>

\* Mutant: the request does not notify the writer.
AskSilently(full) ==
  /\ reader = "reading" /\ alive /\ socket = "open"
  /\ writer # "parking"
  /\ Len(asks) < MaxAsks
  /\ asks' = Append(asks, full)
  /\ incr' = (incr /\ ~full)
  /\ UNCHANGED <<reader, writer, alive, local, drawn, peers>>

\* FramebufferUpdateRequest, under the lock.
Ask(full) ==
  /\ reader = "reading" /\ alive /\ socket = "open"
  /\ writer # "parking"
  /\ Len(asks) < MaxAsks
  /\ asks' = Append(asks, full)
  /\ incr' = (incr /\ ~full)
  /\ writer' = Woken
  /\ UNCHANGED <<reader, alive, local, drawn, peers>>

\* An input whose action does not reach the session any more.
DispatchFails ==
  /\ reader = "reading" /\ alive /\ socket = "open" /\ session = "down"
  /\ Kill
  /\ UNCHANGED <<reader, asks, incr, local, drawn, peers>>

\* The loop ends: the flag is down at the next message, the socket does not
\* read, or the message is of no known type or too long.
ReaderLeaves ==
  /\ reader = "reading"
  /\ reader' = "leaving"
  /\ UNCHANGED <<writer, alive, asks, incr, local, drawn, peers>>

ReaderKills ==
  /\ reader = "leaving"
  /\ reader' = "joining"
  /\ Kill
  /\ UNCHANGED <<asks, incr, local, drawn, peers>>

ReaderJoins ==
  /\ reader = "joining" /\ writer = "done"
  /\ reader' = "over"
  /\ UNCHANGED <<writer, alive, asks, incr, local, drawn, peers>>

-----------------------------------------------------------------------------
(* The writer thread.                                                      *)

\* The locals of an iteration go out of scope with it.
Forget == noted' = Nothing /\ frame' = Blank /\ arrived' = 0

\* The loop's condition, and the wait's under the lock.
Look ==
  /\ writer = "look"
  /\ CASE ~alive -> writer' = "done" /\ UNCHANGED noted
       [] alive /\ asks = <<>> -> writer' = "parking" /\ UNCHANGED noted
       [] alive /\ asks # <<>> ->
            writer' = "capture" /\ noted' = [n |-> Len(asks), incr |-> incr]
  /\ UNCHANGED <<reader, alive, asks, incr, frame, arrived, drawn, peers>>

\* wait() lets the lock go.
Park ==
  /\ writer = "parking"
  /\ writer' = "parked"
  /\ UNCHANGED <<reader, alive, asks, incr, local, drawn, peers>>

CaptureScreen ==
  /\ writer = "capture" /\ session = "up"
  /\ writer' = "compare"
  /\ frame' = screen
  /\ arrived' = Len(asks)
  /\ UNCHANGED <<reader, alive, asks, incr, noted, drawn, peers>>

\* The agent answers that it is busy, or with an image of another size.
CaptureUnusable ==
  /\ writer = "capture" /\ session = "up"
  /\ writer' = "look" /\ Forget
  /\ UNCHANGED <<reader, alive, asks, incr, drawn, peers>>

CaptureFails ==
  /\ writer = "capture" /\ session = "down"
  /\ writer' = "done" /\ alive' = FALSE /\ Forget
  /\ UNCHANGED <<reader, asks, incr, drawn, peers>>

\* The tiles an update carries.
Rects ==
  IF last # Blank /\ noted.incr THEN {t \in Tiles : last[t] # frame[t]} ELSE Tiles

\* Nothing to show for incremental requests: they stay outstanding.
Unchanged == (noted.incr /\ lastPng = frame) \/ Rects = {}

Compare ==
  /\ writer = "compare"
  /\ lastPng' = frame
  /\ IF Unchanged THEN writer' = "look" /\ Forget
                  ELSE writer' = "send" /\ UNCHANGED local
  /\ UNCHANGED <<reader, alive, asks, incr, last, shown, peers>>

\* write_all, which blocks while the viewer does not read.
Send ==
  /\ writer = "send" /\ socket = "open" /\ ~stalled
  /\ writer' = "mark"
  /\ shown' = [t \in Tiles |-> IF t \in Rects THEN frame[t] ELSE shown[t]]
  /\ last' = frame
  /\ UNCHANGED <<reader, alive, asks, incr, local, lastPng, peers>>

SendFails ==
  /\ writer = "send" /\ socket # "open"
  /\ writer' = "done" /\ alive' = FALSE /\ Forget
  /\ UNCHANGED <<reader, asks, incr, drawn, peers>>

\* Mutant: every request received by now is taken for served.
MarkAll ==
  /\ writer = "mark"
  /\ writer' = "look" /\ Forget
  /\ asks' = <<>>
  /\ incr' = TRUE
  /\ UNCHANGED <<reader, alive, drawn, peers>>

\* The requests noted before the capture are served.
Mark ==
  /\ writer = "mark"
  /\ writer' = "look" /\ Forget
  /\ asks' = SubSeq(asks, noted.n + 1, Len(asks))
  /\ incr' = (incr \/ Len(asks) = noted.n)
  /\ UNCHANGED <<reader, alive, drawn, peers>>

-----------------------------------------------------------------------------
(* The viewer, the guest, and the shutdown of the server.                  *)

ViewerStalls ==
  /\ ~stalled /\ stalled' = TRUE
  /\ UNCHANGED <<reader, writer, alive, asks, incr, local, drawn, socket, screen,
                 session>>

SocketCloses ==
  /\ socket = "open" /\ socket' \in {"left", "shut"}
  /\ UNCHANGED <<reader, writer, alive, asks, incr, local, drawn, stalled, screen,
                 session>>

Paint ==
  /\ session = "up"
  /\ screen' \in Frames \ {screen}
  /\ UNCHANGED <<reader, writer, alive, asks, incr, local, drawn, socket, stalled,
                 session>>

SessionEnds ==
  /\ session = "up" /\ session' = "down"
  /\ UNCHANGED <<reader, writer, alive, asks, incr, local, drawn, socket, stalled,
                 screen>>

Over == reader = "over" /\ UNCHANGED vars

-----------------------------------------------------------------------------
\* What the reader does once it has something to act on.
ReaderStep ==
  \/ socket # "open" /\ HandshakeFails
  \/ socket # "open" /\ ReaderLeaves
  \/ ReaderKills \/ ReaderJoins
WriterStep == Look \/ Park \/ CaptureUnusable \/ CaptureFails \/ Compare \/ Send
              \/ SendFails \/ Mark

Next ==
  \/ Handshake \/ HandshakeFails \/ (\E full \in BOOLEAN : Ask(full))
  \/ DispatchFails \/ ReaderLeaves \/ ReaderKills \/ ReaderJoins
  \/ CaptureScreen \/ WriterStep
  \/ ViewerStalls \/ SocketCloses \/ Paint \/ SessionEnds \/ Over

Spec == Init /\ [][Next]_vars

(* The threads run, and an agent that is asked again and again for a        *)
(* screenshot gives one at last.  The viewer, the screen, the session and   *)
(* the registry do what they like.                                          *)
Fairness == WF_vars(ReaderStep) /\ WF_vars(WriterStep) /\ SF_vars(CaptureScreen)
FairSpec == Spec /\ Fairness

-----------------------------------------------------------------------------
(* Type invariant. *)
TypeOK ==
  /\ reader \in {"handshake", "reading", "leaving", "joining", "over"}
  /\ writer \in {"none", "look", "parking", "parked", "capture", "compare",
                 "send", "mark", "done"}
  /\ alive \in BOOLEAN /\ incr \in BOOLEAN /\ stalled \in BOOLEAN
  /\ asks \in Seq(BOOLEAN) /\ Len(asks) <= MaxAsks
  /\ noted \in [n : 0..MaxAsks, incr : BOOLEAN] /\ arrived \in 0..MaxAsks
  /\ frame \in Frames \cup {Blank} /\ lastPng \in Frames \cup {Blank}
  /\ last \in Frames \cup {Blank} /\ shown \in Frames \cup {Blank}
  /\ socket \in {"open", "left", "shut"}
  /\ screen \in Frames /\ session \in {"up", "down"}

(* A request counts as served only by a frame captured after it arrived,    *)
(* and a non-incremental one only by a full frame, whatever arrives while   *)
(* the writer captures and sends; and after an update the viewer's picture, *)
(* put together from full and incremental ones, is the captured frame       *)
(* (ConnState::req_seq and incremental, last and last_png of the writer).   *)
ServedByLaterFrame ==
  [][LET served == Len(asks) - Len(asks') IN
     served > 0 =>
       /\ served <= arrived
       /\ shown = frame
       /\ (\E i \in 1..served : asks[i]) => ~noted.incr]_vars

\* A healthy connection owes its viewer an update.
Due ==
  /\ reader = "reading" /\ alive /\ socket = "open" /\ session = "up" /\ ~stalled
  /\ asks # <<>>
  /\ shown # screen \/ \E i \in 1..Len(asks) : asks[i]

(* No update request is lost: the viewer of a healthy connection gets an    *)
(* update when one is due (the counter of ConnState: "no flag to clobber    *)
(* and no wakeup to lose").                                                 *)
UpdateComes == Due ~> ~Due \/ writer = "mark"

(* Both threads end when the socket is closed or shut, whether they were    *)
(* reading, parked, capturing or blocked in a write (Conn::kill).           *)
ConnEnds == socket # "open" ~> reader = "over"
=============================================================================
