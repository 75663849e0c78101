------------------------------ MODULE Overlays ------------------------------
(***************************************************************************)
(* The overlays of the desktop and their command sockets: titan-workspace-hud, *)
(* titan-menu, titan-sysmon, titan-spotlight, titan-powermenu and               *)
(* titan-quicksettings.                                                         *)
(*                                                                          *)
(* A key starts a process.  It passes its command to whoever listens at the     *)
(* program's socket and ends, or becomes the overlay itself: it removes the     *)
(* path, listens at it and shows its window or waits hidden.  Processes of one   *)
(* program interleave at each of these steps.  Listening fails where a file is,   *)
(* and the overlay goes on without; other errors of the runtime directory are     *)
(* left out.  Each program has its own path, so *)
(* a behaviour is about one of them.  The layout, the icons and what a window     *)
(* contains are left out.                                                        *)
(***************************************************************************)
EXTENDS Integers, Sequences

CONSTANTS
  Overlay,       \* the programs
  MaxLaunches    \* bound on the processes started

VARIABLES
  which,         \* the program
  path,          \* who listens at the socket's path: an instance, NoFile or Stale
  inst,          \* the processes, in the order they were started
  deeds,         \* the system actions that were run
  wanted         \* history: the system actions that were asked for since a process was
                 \* made to end

NoFile == 0
Stale == -1      \* a file without a listener

overlayVars == <<which, path, inst, deeds, wanted>>

-----------------------------------------------------------------------------
\* What the programs differ in

\* The arguments of each program.  "plain" is none, or --daemon of the HUD, which it does
\* not know.
Arguments(w) ==
  CASE w = "hud"       -> {"plain", "hold", "release", "toggle", "show", "hide"}
    [] w = "spotlight" -> {"plain", "daemon", "toggle", "show", "hide", "clipboard"}
    [] w = "power"     -> {"plain", "daemon", "toggle", "show", "hide", "lock", "reboot"}
    [] OTHER           -> {"plain", "daemon", "toggle", "show", "hide"}

Direct == {"lock", "reboot"}

\* The first branch of every main: who goes on without an answer.
GoesOn(w, arg) == arg \notin {"hide"} \cup (IF w = "hud" THEN {"release"} ELSE {})

StartsOpen(w, arg) == IF w = "hud" THEN arg = "show" ELSE arg # "daemon"

\* Only the drawer asks again when Qt has started.
AsksTwice(w) == w = "drawer"

-----------------------------------------------------------------------------
\* Windows

Opened(p) == [p EXCEPT !.open = TRUE, !.confirm = ""]

\* A HUD in which a tile is dragged closes after it.
Closed(p) == IF p.drag THEN [p EXCEPT !.late = TRUE]
             ELSE [p EXCEPT !.open = FALSE, !.confirm = "", !.late = FALSE]

Toggle(p) == IF p.open THEN Closed(p) ELSE Opened(p)

\* A power action closes the window and runs 150 ms later.
RunsLater(p, deed) == [Closed(p) EXCEPT !.timers = @ \cup {deed}]

\* handleNewConnection and the slots of main.
Answer(p, cmd) ==
  CASE cmd = "toggle" -> Toggle(p)
    [] cmd \in {"show", "clipboard"} -> Opened(p)
    [] cmd = "hide" -> [Closed(p) EXCEPT !.timers = @ \ {"hold"}]
    [] cmd = "hold" -> [p EXCEPT !.timers = @ \cup {"hold"}]
    [] cmd = "release" -> IF "hold" \in p.timers THEN [p EXCEPT !.timers = @ \ {"hold"}] ELSE Closed(p)
    [] cmd \in Direct -> RunsLater(p, cmd)

-----------------------------------------------------------------------------
\* Processes

OverlayInit ==
  /\ which \in Overlay
  /\ path = NoFile /\ inst = <<>> /\ deeds = {} /\ wanted = {}

Set(i, p) == inst' = [inst EXCEPT ![i] = p]

Launch(arg) ==
  /\ Len(inst) < MaxLaunches
  /\ inst' = Append(inst, [pc |-> IF arg \in {"plain", "daemon"} THEN "start" ELSE "ask",
                           arg |-> arg, inbox |-> {}, open |-> FALSE, confirm |-> "",
                           drag |-> FALSE, late |-> FALSE, timers |-> {}, listens |-> FALSE,
                           met |-> FALSE])
  /\ wanted' = wanted \cup ({arg} \cap Direct)
  /\ UNCHANGED <<which, path, deeds>>

\* sendCommand: the command waits at the listener, with who sent it.
Delivered(i) ==
  inst' = [inst EXCEPT ![path].inbox = @ \cup {<<i, inst[i].arg>>}, ![i].pc = "gone"]

Ask(i) ==
  /\ inst[i].pc = "ask"
  /\ IF path \in DOMAIN inst THEN Delivered(i)
     ELSE Set(i, [inst[i] EXCEPT !.pc = IF GoesOn(which, inst[i].arg) THEN "start" ELSE "gone"])
  /\ UNCHANGED <<which, path, deeds, wanted>>

\* Qt starts.  A direct action is set up here, and main returns before its timer.
Start(i) ==
  /\ inst[i].pc = "start"
  /\ IF inst[i].arg \in Direct THEN Set(i, [inst[i] EXCEPT !.pc = "gone"])
     ELSE IF AsksTwice(which) /\ inst[i].arg \notin {"plain", "daemon"} /\ path \in DOMAIN inst
     THEN Delivered(i)
     ELSE Set(i, [inst[i] EXCEPT !.pc = "bind"])
  /\ UNCHANGED <<which, path, deeds, wanted>>

\* Those that come to the path or run at a time have met.
Active(p) == p.pc \in {"listen", "run"}

Comes(i) ==
  LET others == {k \in DOMAIN inst \ {i} : Active(inst[k])}
  IN inst' = [k \in DOMAIN inst |->
       IF k = i THEN [inst[i] EXCEPT !.pc = "listen", !.met = others # {}]
       ELSE [inst[k] EXCEPT !.met = @ \/ k \in others]]

\* A startServer that leaves what is at the path.
ComesOnly(i) ==
  /\ inst[i].pc = "bind"
  /\ Comes(i)
  /\ UNCHANGED <<which, path, deeds, wanted>>

\* startServer removes whatever is at the path.
RemovesPath(i) ==
  /\ inst[i].pc = "bind"
  /\ path' = NoFile
  /\ Comes(i)
  /\ UNCHANGED <<which, deeds, wanted>>

\* It listens there, unless another made a file since.  Then the window is made either way.
Listen(i) ==
  /\ inst[i].pc = "listen"
  /\ path' = IF path = NoFile THEN i ELSE path
  /\ Set(i, [inst[i] EXCEPT !.pc = "run", !.open = StartsOpen(which, inst[i].arg),
                            !.listens = path = NoFile])
  /\ UNCHANGED <<which, deeds, wanted>>

Receive(i, msg) ==
  /\ inst[i].pc = "run" /\ msg \in inst[i].inbox
  /\ Set(i, Answer([inst[i] EXCEPT !.inbox = @ \ {msg}], msg[2]))
  /\ UNCHANGED <<which, path, deeds, wanted>>

HoldTimeout(i) ==
  /\ "hold" \in inst[i].timers
  /\ Set(i, Opened([inst[i] EXCEPT !.timers = @ \ {"hold"}]))
  /\ UNCHANGED <<which, path, deeds, wanted>>

DeedRuns(i) ==
  /\ \E deed \in inst[i].timers \cap Direct :
       /\ deeds' = deeds \cup {deed}
       /\ Set(i, [inst[i] EXCEPT !.timers = @ \ {deed}])
  /\ UNCHANGED <<which, path, wanted>>

\* Escape, a click outside, or the loss of the focus.
Dismiss(i) ==
  /\ inst[i].open
  /\ Set(i, IF inst[i].confirm # "" /\ which = "power" THEN [inst[i] EXCEPT !.confirm = ""]
            ELSE Closed(inst[i]))
  /\ UNCHANGED <<which, path, deeds, wanted>>

\* A tile of the HUD is picked up or dropped.
Drag(i) ==
  /\ which = "hud" /\ (inst[i].open \/ inst[i].drag)
  /\ LET p == [inst[i] EXCEPT !.drag = ~@]
     IN Set(i, IF inst[i].drag /\ inst[i].late THEN Closed(p) ELSE p)
  /\ UNCHANGED <<which, path, deeds, wanted>>

\* Keys of the power menu: a lock at once, a restart after Enter.
PowerKey(i) ==
  /\ which = "power" /\ inst[i].open
  /\ \/ inst[i].confirm = "" /\ wanted' = wanted \cup {"lock"} /\ Set(i, RunsLater(inst[i], "lock"))
     \/ inst[i].confirm = "" /\ wanted' = wanted /\ Set(i, [inst[i] EXCEPT !.confirm = "reboot"])
     \/ /\ inst[i].confirm # "" /\ wanted' = wanted \cup {inst[i].confirm}
        /\ Set(i, RunsLater(inst[i], inst[i].confirm))
  /\ UNCHANGED <<which, path, deeds>>

EndOf(p) == [p EXCEPT !.pc = "gone", !.open = FALSE, !.drag = FALSE, !.timers = {}, !.inbox = {}]

\* SIGTERM: the destructor of a server that listens removes the path, whoever listens at it
\* by now.  That of the power menu does not ask whether it listens.
Quit(i) ==
  /\ inst[i].pc = "run"
  /\ path' = IF inst[i].listens \/ which = "power" THEN NoFile ELSE path
  /\ Set(i, EndOf(inst[i]))
  /\ wanted' = {}
  /\ UNCHANGED <<which, deeds>>

\* A crash leaves the file.
Crash(i) ==
  /\ inst[i].pc # "gone"
  /\ path' = IF path = i THEN Stale ELSE path
  /\ Set(i, EndOf(inst[i]))
  /\ wanted' = {}
  /\ UNCHANGED <<which, deeds>>

OverlayStep(i) ==
  \/ Ask(i) \/ Start(i) \/ RemovesPath(i) \/ Listen(i) \/ HoldTimeout(i) \/ DeedRuns(i)
  \/ \E msg \in inst[i].inbox : Receive(i, msg)

OverlayNext ==
  \/ \E arg \in Arguments(which) : Launch(arg)
  \/ \E i \in DOMAIN inst :
       OverlayStep(i) \/ Dismiss(i) \/ Drag(i) \/ PowerKey(i) \/ Quit(i) \/ Crash(i)

\* A process that is not killed goes on.
OverlayFairness ==
  \A i \in 1..MaxLaunches : WF_overlayVars(i \in DOMAIN inst /\ OverlayStep(i))

OverlaySpec == OverlayInit /\ [][OverlayNext]_overlayVars /\ OverlayFairness

-----------------------------------------------------------------------------
\* Properties

\* An overlay that was alone from the moment it removed the path is at the path: neither a
\* file a crash left there, nor the end of an earlier process, nor its own failure to listen
\* takes it away (startServer, the destructor, sendCommand).  Two that come at a time may
\* end with neither at the path: the second removal comes before the first listens, whose
\* file is left when it dies and fails the second.
AloneIsReachable == \A i \in DOMAIN inst : inst[i].pc = "run" /\ ~inst[i].met => path = i

\* powermenu/src/main.cpp:63: what is asked for directly is done, unless a process is made
\* to end meanwhile.
DirectActionHappens == \A deed \in Direct : deed \in wanted ~> deed \in deeds \/ wanted = {}
=============================================================================
