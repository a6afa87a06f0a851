------------------------------- MODULE MCView -------------------------------
(* Instances of the live view for TLC: a connection, the server that        *)
(* accepts it, a viewer's hand, and the encoding of the updates.  Each has  *)
(* behaviours of its own, in which the variables of the others stay as they *)
(* are.                                                                     *)
EXTENDS ViewConn, TLC

CONSTANTS
  Conns, Columns, Threshold

VARIABLES
  part, case,
  closing, acceptor, setup, conns, active, thread, connSocket,
  lastMask, lastPos, leftDownAt, mods, guest, acted, astray, wheeled, down,
  split

VS == INSTANCE ViewServer WITH socket <- connSocket
HD == INSTANCE Input
RF == INSTANCE Rfb

ASSUME ViewAssumption ==
  VS!ViewServerAssumption /\ HD!InputAssumption

serverVars == <<closing, acceptor, setup, conns, active, thread, connSocket>>
handVars   == <<lastMask, lastPos, leftDownAt, mods, guest, acted, astray, wheeled, down,
                split>>
allVars == <<part, case, vars, serverVars, handVars>>

-----------------------------------------------------------------------------
(* Screens of a tile and a bit, or of several, and tiles of two pixels.     *)
Shapes == {<<1, 1>>, <<3, 3>>, <<4, 3>>, <<5, 2>>}
FrameCases ==
  UNION {[kind : {"frame"}, shape : {s}, cur : [RF!ScreenOf(s[1], s[2]) -> {0, 1}]] :
           s \in Shapes}

Rgb(r, g, b) == [red |-> r, green |-> g, blue |-> b]
Format(bpp, big, max, shift) ==
  [bpp |-> bpp, depth |-> 24, bigEndian |-> big, trueColor |-> TRUE, max |-> max,
   shift |-> shift]

\* The server's own format, those of 16 and 8 bits, and one that is refused.
Formats ==
  {Format(32, big, Rgb(255, 255, 255), Rgb(16, 8, 0)) : big \in BOOLEAN}
    \cup {Format(16, big, Rgb(31, 63, 31), Rgb(11, 5, 0)) : big \in BOOLEAN}
    \cup {Format(16, FALSE, Rgb(15, 15, 15), Rgb(0, 4, 8)),
          Format(8, FALSE, Rgb(7, 7, 3), Rgb(0, 3, 6)),
          Format(8, FALSE, Rgb(7, 0, 3), Rgb(0, 3, 6))}
Levels == {0, 1, 100, 128, 254, 255}
PixelCases == [kind : {"pixel"}, pf : Formats, rgb : [RF!Channels -> Levels]]

HandshakeCases == [kind : {"handshake"}, minor : {3, 5, 7, 8, 889}]

-----------------------------------------------------------------------------
\* The server is not there: its accept loop does not run.
NoServer ==
  /\ closing = "no" /\ acceptor = "stopped" /\ setup = "none"
  /\ conns = {} /\ active = 0
  /\ thread = [c \in Conns |-> "none"] /\ connSocket = [c \in Conns |-> "open"]

ViewInit ==
  /\ part \in {"conn", "server", "pointer", "keys", "update"}
  /\ case \in IF part = "update" THEN FrameCases \cup PixelCases \cup HandshakeCases
              ELSE {[kind |-> "none"]}
  /\ Init /\ (part = "conn" \/ screen = [t \in Tiles |-> 0])
  /\ IF part = "server" THEN VS!Init ELSE NoServer
  /\ HD!Init /\ (part = "pointer" \/ \A x \in Columns : guest <= x)

ViewNext ==
  /\ UNCHANGED <<part, case>>
  /\ \/ part = "conn" /\ Next /\ UNCHANGED <<serverVars, handVars>>
     \/ part = "server" /\ VS!Next /\ UNCHANGED <<vars, handVars>>
     \/ part = "pointer" /\ HD!PointerNext /\ UNCHANGED <<vars, serverVars>>
     \/ part = "keys" /\ HD!KeyNext /\ UNCHANGED <<vars, serverVars>>
     \/ part = "update" /\ UNCHANGED allVars

(* The fairness of the connection and of the server.  Where they are not    *)
(* the part that runs, the one waits for a viewer and the other is not      *)
(* there, so that nothing is asked of them.                                 *)
ViewSpec ==
  /\ ViewInit /\ [][ViewNext]_allVars
  /\ Fairness /\ VS!Fairness

-----------------------------------------------------------------------------
(* The count and the map hold the connections that are served (ConnGuard),  *)
(* and one at most outlives shutdown() with an open socket                  *)
(* (ViewServer::shutdown): ViewServer!GuardExact and OneStraggler.          *)
ConnsAccounted == part = "server" => VS!ConnsAccounted

(* shutdown() returns: ViewServer!ShutdownReturns. *)
ShutdownReturns == VS!ShutdownReturns

(* A drag starts where the button went down, and a chord has the modifiers  *)
(* that are held (pointer_actions, key_action), but where Input!AnchorHeld  *)
(* and Input!ChordAsHeld say otherwise.                                     *)
HandFaithful ==
  /\ part = "pointer" => HD!AnchorHeld
  /\ part = "keys" => HD!ChordAsHeld

(* A viewer that follows the protocol shows the captured frame after an     *)
(* update, at any size of the screen (changed_rects): Rfb!Repaints.         *)
FramesRepainted ==
  case.kind = "frame" =>
    LET w == case.shape[1]
        h == case.shape[2]
    IN RF!Repaints([p \in RF!ScreenOf(w, h) |-> 0], case.cur, w, h, 2)

(* It shows it in the colours of its format, and gets through the handshake *)
(* (encode_pixel, handshake): Rfb!SeesColour and Handshake.                 *)
ViewerUnderstands ==
  CASE case.kind = "pixel" -> RF!SeesColour(case.pf, case.rgb)
    [] case.kind = "handshake" -> RF!Handshake(case.minor) = RF!ViewerHandshake(case.minor)
    [] OTHER -> TRUE

(* Both, of the frames, pixels and handshakes of the run.                   *)
UpdateFaithful == FramesRepainted /\ ViewerUnderstands
=============================================================================
