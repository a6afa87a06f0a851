---------------------------- MODULE DesktopTools ----------------------------
(***************************************************************************)
(* The tools of the MCP server (vmette-mcp/server.rs) that take several    *)
(* requests to the daemon: a click at a point, a paste, and the launch of  *)
(* an app, by several callers on one desktop session, beside a viewer and  *)
(* the guest's own programs.  What they report is what an agent acts on.   *)
(*                                                                         *)
(* The session's baseline is the detector's previous frame, which all      *)
(* callers share (registry.rs).  The guest (external) is its pointer, its  *)
(* clipboard, which an app asks for some time after ctrl+v, and a screen   *)
(* of two pictures.  Left out: the tools of a single request.              *)
(***************************************************************************)
EXTENDS Naturals

CONSTANTS
  Callers,   \* the calls
  Points     \* the points of the screen

Tools == {"click", "paste", "launch"}

\* What a tool says that names no point.
Words == {"none", "error", "pasted", "launched", "unchanged"}

DesktopToolsAssumption == Points \cap Words = {}

VARIABLES
  tool,      \* the tool of each call
  at,        \* its next request
  target,    \* the point to click at
  baseline,  \* the picture desktop_launch keeps
  painted,   \* it has seen a change
  report,    \* what the caller is told
  prev,      \* the detector's previous frame
  screen,    \* what the guest shows
  pointer,   \* the guest's pointer
  clip,      \* the call whose text is the clipboard
  clicked,   \* history: where a call's clicks happened
  slid,      \* history: calls from whose click to whose echo the pointer moved
  bare,      \* history: calls whose echo failed
  pasted,    \* history: whose text went into the app after its ctrl+v
  mixed,     \* history: calls during whose paste another one set the clipboard
  began,     \* history: the screen at the baseline, or "none" without one
  final,     \* history: and the one it ended with
  changed    \* history: calls since whose start the screen has changed

call == <<tool, at, target, baseline, painted, report>>
guest == <<prev, screen, pointer, clip>>
history == <<clicked, slid, bare, pasted, mixed, began, final, changed>>
vars == <<call, guest, history>>

Init ==
  /\ tool \in [Callers -> Tools]
  /\ at = [c \in Callers |-> "first"]
  /\ target \in [Callers -> Points]
  /\ baseline = [c \in Callers |-> "none"]
  /\ painted = [c \in Callers |-> FALSE]
  /\ report = [c \in Callers |-> "none"]
  /\ prev \in {"none", "old"} /\ screen = "old"
  /\ pointer \in Points
  /\ clip = "none"
  /\ clicked = [c \in Callers |-> {}] /\ slid = {} /\ bare = {}
  /\ pasted = [c \in Callers |-> "none"]
  /\ mixed = {} /\ changed = {}
  /\ began = [c \in Callers |-> "none"] /\ final = [c \in Callers |-> "none"]

\* Where a call has clicked and not heard where.
Clicking == {"again", "echo"}

Step(c, which, from, to) ==
  /\ tool[c] = which /\ at[c] = from
  /\ at' = [at EXCEPT ![c] = to]
Report(c, what) == report' = [report EXCEPT ![c] = what]

\* A request that fails ends the tool with its error.
RequestFails(c) ==
  /\ at[c] \notin {"over", "fetch"} /\ ~(tool[c] = "launch" /\ at[c] = "first")
  /\ at' = [at EXCEPT ![c] = "over"]
  /\ Report(c, "error")
  /\ UNCHANGED <<tool, target, baseline, painted, guest, history>>

-----------------------------------------------------------------------------
(* click_at.                                                               *)

\* The agent does one thing after the other: it moves or presses nothing
\* between a call's click and its echo.
AgentFree == \A c \in Callers : at[c] \notin Clicking

\* MouseMove, whose echo the tool drops; the window manager may hold the pointer
\* elsewhere.
MoveFirst(c) ==
  /\ AgentFree
  /\ Step(c, "click", "first", "fire")
  /\ pointer' \in Points
  /\ UNCHANGED <<tool, target, baseline, painted, report, prev, screen, clip, history>>

\* The agent presses the button where its pointer is, ...
Press(c) ==
  /\ clicked' = [clicked EXCEPT ![c] = @ \cup {pointer}]
  /\ UNCHANGED <<tool, target, baseline, painted, report, guest, slid, bare, pasted, mixed,
                 began, final, changed>>

Fire(c) ==
  /\ AgentFree
  /\ Step(c, "click", "fire", "echo") \/ Step(c, "click", "fire", "again")
  /\ Press(c)

\* ... twice, 50 ms apart, for a double click, ...
FireAgain(c) == Step(c, "click", "again", "echo") /\ Press(c)

\* Mutant: the point of the request is reported.
EchoTrusting(c) ==
  /\ Step(c, "click", "echo", "over")
  /\ Report(c, target[c])
  /\ UNCHANGED <<tool, target, baseline, painted, guest, history>>

\* ... and then asks where its pointer is.  Without an answer it says ok, and
\* the tool names the point it was asked for (landed_msg).
Echo(c) ==
  /\ Step(c, "click", "echo", "over")
  /\ \/ Report(c, pointer) /\ bare' = bare
     \/ Report(c, target[c]) /\ bare' = bare \cup {c}
  /\ UNCHANGED <<tool, target, baseline, painted, guest, clicked, slid, pasted, mixed, began,
                 final, changed>>

-----------------------------------------------------------------------------
(* desktop_paste.                                                          *)

\* A paste whose text the app has not asked for yet.
Pasting == {c \in Callers : tool[c] = "paste" /\ at[c] \in {"key", "fetch"}}

SetClipboard(c) ==
  /\ Step(c, "paste", "first", "key")
  /\ clip' = c
  /\ mixed' = mixed \cup Pasting
  /\ UNCHANGED <<tool, target, baseline, painted, report, prev, screen, pointer,
                 clicked, slid, bare, pasted, began, final, changed>>

PressPaste(c) ==
  /\ Step(c, "paste", "key", "fetch")
  /\ Report(c, "pasted")
  /\ UNCHANGED <<tool, target, baseline, painted, guest, history>>

\* The app asks the selection's owner, the agent.
AppFetches(c) ==
  /\ Step(c, "paste", "fetch", "over")
  /\ pasted' = [pasted EXCEPT ![c] = clip]
  /\ UNCHANGED <<tool, target, baseline, painted, report, guest, clicked, slid, bare,
                 mixed, began, final, changed>>

-----------------------------------------------------------------------------
(* desktop_launch.                                                         *)

\* what_changed: a picture of the changed area, or else of the whole screen.
Differs     == prev \notin {"none", screen}
WhatChanged == IF Differs THEN "crop" ELSE screen

KeepBaseline(c) ==
  /\ Step(c, "launch", "first", "exec")
  /\ \/ /\ baseline' = [baseline EXCEPT ![c] = WhatChanged]
        /\ began' = [began EXCEPT ![c] = screen]
        /\ prev' = screen
     \/ UNCHANGED <<baseline, began, prev>>
  /\ changed' = changed \ {c}
  /\ UNCHANGED <<tool, target, painted, report, screen, pointer, clip, clicked, slid,
                 bare, pasted, mixed, final>>

ExecApp(c) ==
  /\ Step(c, "launch", "exec", "poll")
  /\ UNCHANGED <<tool, target, baseline, painted, report, guest, history>>

PollChange(c) ==
  /\ tool[c] = "launch" /\ at[c] = "poll"
  /\ at' = [at EXCEPT ![c] = IF Differs THEN "settle" ELSE "poll"]
  /\ painted' = [painted EXCEPT ![c] = Differs]
  /\ prev' = screen
  /\ UNCHANGED <<tool, target, baseline, report, screen, pointer, clip, history>>

\* wait_ms are over.
PollEnds(c) ==
  /\ Step(c, "launch", "poll", "settle")
  /\ UNCHANGED <<tool, target, baseline, painted, report, guest, history>>

\* Mutant: only the polls count.
StartedByPolls(c) == painted[c]

\* "Reconcile against the pre-launch baseline."
Started(c) == painted[c] \/ baseline[c] \notin {"none", screen}

\* The settled frame is a capture of the whole screen.
SettleShot(c) ==
  /\ Step(c, "launch", "settle", "over")
  /\ prev' = screen
  /\ Report(c, IF Started(c) THEN "launched" ELSE "unchanged")
  /\ final' = [final EXCEPT ![c] = screen]
  /\ UNCHANGED <<tool, target, baseline, painted, screen, pointer, clip, clicked,
                 slid, bare, pasted, mixed, began, changed>>

-----------------------------------------------------------------------------
(* The viewer and the guest's programs.                                    *)

\* A program of the guest does so at any time, the viewer between two requests.
PointerMoves ==
  /\ pointer' \in Points \ {pointer}
  /\ slid' = slid \cup {c \in Callers : at[c] \in Clicking}
  /\ UNCHANGED <<call, prev, screen, clip, clicked, bare, pasted, mixed, began, final, changed>>

ScreenChanges ==
  /\ screen' \in {"old", "new"} \ {screen}
  /\ changed' = Callers
  /\ UNCHANGED <<call, prev, pointer, clip, clicked, slid, bare, pasted, mixed,
                 began, final>>

\* Another tool captures the screen: desktop_what_changed and the like.
OtherCapture ==
  /\ prev' = screen /\ prev # screen
  /\ UNCHANGED <<call, screen, pointer, clip, history>>

-----------------------------------------------------------------------------
CallStep(c) ==
  \/ MoveFirst(c) \/ Fire(c) \/ FireAgain(c) \/ Echo(c)
  \/ SetClipboard(c) \/ PressPaste(c) \/ AppFetches(c)
  \/ KeepBaseline(c) \/ ExecApp(c) \/ PollChange(c) \/ PollEnds(c) \/ SettleShot(c)
  \/ RequestFails(c)

Next == (\E c \in Callers : CallStep(c)) \/ PointerMoves \/ ScreenChanges \/ OtherCapture

Spec == Init /\ [][Next]_vars

-----------------------------------------------------------------------------
(* Type invariant. *)
TypeOK ==
  /\ tool \in [Callers -> Tools]
  /\ at \in [Callers -> {"first", "fire", "again", "echo", "key", "fetch", "exec",
                         "poll", "settle", "over"}]
  /\ target \in [Callers -> Points]
  /\ baseline \in [Callers -> {"none", "crop", "old", "new"}]
  /\ painted \in [Callers -> BOOLEAN]
  /\ report \in [Callers -> Points \cup Words]
  /\ prev \in {"none", "old", "new"} /\ screen \in {"old", "new"}
  /\ pointer \in Points /\ clip \in Callers \cup {"none"}

(* What a tool reports is so, whatever other callers, a viewer and the      *)
(* guest do between its requests: a click happened at the point it names    *)
(* and nowhere else, unless the pointer moved before the agent could ask    *)
(* for it, or could not be asked for, when it is the point that was wanted; *)
(* a paste put its own text into the app unless another one set the         *)
(* clipboard before the app asked for it, and a launch after which nothing  *)
(* changed leaves the screen as its baseline showed it (click_at,           *)
(* desktop_paste, and "a short wait_ms can miss an app" in desktop_launch). *)
ReportsTrue ==
  /\ \A c \in Callers : report[c] \in Points =>
       \/ clicked[c] = {report[c]}
       \/ c \in slid \ bare
       \/ c \in bare /\ report[c] = target[c]
  /\ \A c \in Callers \ mixed : pasted[c] \in {"none", c}
  /\ \A c \in Callers : report[c] = "unchanged" => began[c] \in {"none", final[c]}
=============================================================================
