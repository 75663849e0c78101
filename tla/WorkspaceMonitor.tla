-------------------------- MODULE WorkspaceMonitor --------------------------
(***************************************************************************)
(* WorkspaceMonitor: what the daemon knows of the screen.                   *)
(*                                                                          *)
(* Two threads share it.  The listener connects to Hyprland, reads          *)
(* "workspace" events and moves the focus, reconnecting for ever.  The tick  *)
(* thread asks hyprctl for the visible workspaces, publishes them and copies *)
(* the map, and at shutdown joins the listener.  A step is what a thread     *)
(* does under ws_mtx_, or one system call.  Hyprland and its user are        *)
(* external.                                                                *)
(***************************************************************************)
EXTENDS Naturals, FiniteSets, Sequences

CONSTANTS
  Workspaces,  \* workspace ids
  Monitors,    \* screens of the session
  MaxEvents    \* bound on the events a connection holds

ASSUME MonitorConfig ==
  /\ IsFiniteSet(Workspaces) /\ Monitors # {} /\ MaxEvents \in Nat

VARIABLES
  \* Hyprland
  active,      \* the workspace each monitor shows, <<>> when no instance runs
  keyboard,    \* the monitor that has the keyboard
  conn,        \* the listener's connection: "none", "open", "hup"
  events,      \* the switches sent on it and not read
  \* the listener thread
  listener,    \* "retry", "poll", "lines", "mark" or "stopped"
  lines,       \* the lines of the last read still to be handled
  prev,        \* handle_event's local: the workspace the focus was on
  \* the tick thread
  ticker,      \* "tick", "publish", "copy", "join" or "done"
  json,        \* what hyprctl answered
  \* the shared state
  running,     \* running_
  located,     \* hypr_instance_sig_ names the instance that runs
  focusedWs,   \* focused_ws_
  focused,     \* the workspaces with is_focused
  visible,     \* the workspaces with is_visible
  \* what the tick works with
  copy,        \* visible or focused in the last snapshot_workspaces()
  steady       \* history: on screen ever since hyprctl answered

hyprVars     == <<active, keyboard>>
listenerVars == <<listener, lines, prev, focusedWs, focused>>
tickerVars   == <<ticker, json, visible, copy>>
monitorVars == <<hyprVars, conn, events, listenerVars, tickerVars, running, located, steady>>

Up == active # <<>>

OnScreen == {active[m] : m \in DOMAIN active}

\* The layouts of a session: no workspace is on two monitors.
Layouts == {a \in [Monitors -> Workspaces] : \A m, n \in Monitors : a[m] = a[n] => m = n}

MonitorTypeOK ==
  /\ active \in Layouts \union {<<>>} /\ keyboard \in Monitors
  /\ conn \in {"none", "open", "hup"}
  /\ events \in Seq(Workspaces) /\ Len(events) <= MaxEvents
  /\ listener \in {"retry", "poll", "lines", "mark", "stopped"}
  /\ lines \in Seq(Workspaces) /\ (lines # <<>> => listener \in {"lines", "mark"})
  /\ prev \in Workspaces /\ focusedWs \in Workspaces
  /\ ticker \in {"tick", "publish", "copy", "join", "done"}
  /\ json \subseteq Workspaces /\ focused \subseteq Workspaces
  /\ visible \subseteq Workspaces /\ copy \subseteq Workspaces /\ steady \subseteq Workspaces
  /\ running \in BOOLEAN /\ located \in BOOLEAN

\* focused_ws_ starts at 1, which may be any of the workspaces.
MonitorInit ==
  /\ active = <<>> /\ keyboard \in Monitors
  /\ conn = "none" /\ events = <<>>
  /\ listener = "retry" /\ lines = <<>> /\ focusedWs \in Workspaces /\ prev = focusedWs
  /\ ticker = "tick" /\ json = {} /\ running = TRUE /\ located = FALSE
  /\ focused = {} /\ visible = {} /\ copy = {} /\ steady = {}

-----------------------------------------------------------------------------
\* Hyprland.

SessionStarts(layout) ==
  /\ ~Up
  /\ active' = layout
  /\ UNCHANGED <<keyboard, conn, events, listenerVars, tickerVars, running, located, steady>>

SessionEnds ==
  /\ Up
  /\ active' = <<>> /\ located' = FALSE
  /\ conn' = IF conn = "open" THEN "hup" ELSE conn
  /\ steady' = {}
  /\ UNCHANGED <<keyboard, events, listenerVars, tickerVars, running>>

\* The user shows another workspace on the monitor with the keyboard.
SwitchWorkspace(w) ==
  /\ Up /\ w \notin OnScreen /\ Len(events) < MaxEvents
  /\ active' = [active EXCEPT ![keyboard] = w]
  /\ events' = IF conn = "open" THEN Append(events, w) ELSE events
  /\ steady' = steady \ {active[keyboard]}
  /\ UNCHANGED <<keyboard, conn, listenerVars, tickerVars, running, located>>

\* The user turns to another monitor.  Hyprland reports it as "focusedmon",
\* which handle_event does not know.
SwitchMonitor(m) ==
  /\ Up /\ m # keyboard
  /\ keyboard' = m
  /\ UNCHANGED <<active, conn, events, listenerVars, tickerVars, running, located, steady>>

-----------------------------------------------------------------------------
\* The listener thread.

\* Variant: the instance is found and connected to, but not published.
ConnectUnpublished ==
  /\ listener = "retry" /\ running /\ Up
  /\ conn' = "open" /\ events' = <<>>
  /\ listener' = "poll"
  /\ UNCHANGED <<hyprVars, lines, prev, focusedWs, focused, tickerVars, running, located, steady>>

\* listen_loop and listen_once up to their loop: discover_socket_path publishes
\* the instance, then connect succeeds.  Otherwise the thread sleeps and retries.
Connect ==
  /\ listener = "retry" /\ running /\ Up
  /\ located' = TRUE /\ conn' = "open" /\ events' = <<>>
  /\ listener' = "poll"
  /\ UNCHANGED <<hyprVars, lines, prev, focusedWs, focused, tickerVars, running, steady>>

\* poll and read.
Read ==
  /\ listener = "poll" /\ running /\ events # <<>>
  /\ lines' = events /\ events' = <<>>
  /\ listener' = "lines"
  /\ UNCHANGED <<hyprVars, conn, prev, focusedWs, focused, tickerVars, running, located, steady>>

\* The peer is gone and everything it sent was read.
Disconnect ==
  /\ listener = "poll" /\ running /\ events = <<>> /\ conn = "hup"
  /\ conn' = "none" /\ listener' = "retry"
  /\ UNCHANGED <<hyprVars, events, lines, prev, focusedWs, focused, tickerVars, running,
                 located, steady>>

\* handle_event: focused_ws_.exchange, outside the mutex...
Exchange ==
  /\ listener = "lines" /\ lines # <<>>
  /\ prev' = focusedWs /\ focusedWs' = Head(lines) /\ lines' = Tail(lines)
  /\ listener' = "mark"
  /\ UNCHANGED <<hyprVars, conn, events, focused, tickerVars, running, located, steady>>

\* Variant: the workspace the focus leaves counts as hidden.
MarkHiding ==
  /\ listener = "mark"
  /\ focused' = (focused \ {prev}) \union {focusedWs}
  /\ visible' = visible \ {prev}
  /\ prev' = focusedWs /\ listener' = "lines"
  /\ UNCHANGED <<hyprVars, conn, events, lines, focusedWs, ticker, json, copy, running,
                 located, steady>>

\* Variant: only the new focus is marked.
MarkOnly ==
  /\ listener = "mark"
  /\ focused' = focused \union {focusedWs}
  /\ prev' = focusedWs /\ listener' = "lines"
  /\ UNCHANGED <<hyprVars, conn, events, lines, focusedWs, tickerVars, running, located, steady>>

\* ...then the marks, under it.  prev goes out of scope.
Mark ==
  /\ listener = "mark"
  /\ focused' = (focused \ {prev}) \union {focusedWs}
  /\ prev' = focusedWs /\ listener' = "lines"
  /\ UNCHANGED <<hyprVars, conn, events, lines, focusedWs, tickerVars, running, located, steady>>

\* Variant: back to poll after one line.
LinesDoneEarly ==
  /\ listener = "lines"
  /\ listener' = "poll"
  /\ UNCHANGED <<hyprVars, conn, events, lines, prev, focusedWs, focused, tickerVars, running,
                 located, steady>>

\* The lines are handled: back to poll.
LinesDone ==
  /\ listener = "lines" /\ lines = <<>>
  /\ listener' = "poll"
  /\ UNCHANGED <<hyprVars, conn, events, lines, prev, focusedWs, focused, tickerVars, running,
                 located, steady>>

\* Variant: poll without a timeout sees the stop only when something arrives.
ListenerStopsLate ==
  /\ ~running /\ (listener = "retry" \/ (listener = "poll" /\ (events # <<>> \/ conn = "hup")))
  /\ listener' = "stopped" /\ conn' = "none" /\ events' = <<>>
  /\ UNCHANGED <<hyprVars, lines, prev, focusedWs, focused, tickerVars, running, located, steady>>

\* Both loops and both waits of the thread look at running_.
ListenerStops ==
  /\ ~running /\ listener \in {"retry", "poll"}
  /\ listener' = "stopped" /\ conn' = "none" /\ events' = <<>>
  /\ UNCHANGED <<hyprVars, lines, prev, focusedWs, focused, tickerVars, running, located, steady>>

-----------------------------------------------------------------------------
\* The tick thread.

\* refresh_visibility: hyprctl, which finds the instance by what the listener
\* published and is silent otherwise.
Query ==
  /\ ticker = "tick" /\ running
  /\ json' = IF located THEN OnScreen ELSE {}
  /\ steady' = IF located THEN OnScreen ELSE {}
  /\ ticker' = "publish"
  /\ UNCHANGED <<hyprVars, conn, events, listenerVars, visible, copy, running, located>>

\* Variant: the flags of the last refresh stay.
PublishMore ==
  /\ ticker = "publish"
  /\ visible' = visible \union focused \union json
  /\ json' = {} /\ ticker' = "copy"
  /\ UNCHANGED <<hyprVars, conn, events, listenerVars, copy, running, located, steady>>

\* refresh_visibility, under the mutex: the focused one is always visible.
Publish ==
  /\ ticker = "publish"
  /\ visible' = focused \union json
  /\ json' = {} /\ ticker' = "copy"
  /\ UNCHANGED <<hyprVars, conn, events, listenerVars, copy, running, located, steady>>

\* snapshot_workspaces, and the tick that uses it.
Snapshot ==
  /\ ticker = "copy"
  /\ copy' = visible \union focused
  /\ steady' = {} /\ ticker' = "tick"
  /\ UNCHANGED <<hyprVars, conn, events, listenerVars, json, visible, running, located>>

\* stop(), after the loop of main().
Stop ==
  /\ ticker = "tick" /\ running
  /\ running' = FALSE /\ ticker' = "join"
  /\ UNCHANGED <<hyprVars, conn, events, listenerVars, json, visible, copy, located, steady>>

Join ==
  /\ ticker = "join" /\ listener = "stopped"
  /\ ticker' = "done"
  /\ UNCHANGED <<hyprVars, conn, events, listenerVars, json, visible, copy, running, located,
                 steady>>

-----------------------------------------------------------------------------
Listener == Connect \/ Read \/ Disconnect \/ Exchange \/ Mark \/ LinesDone \/ ListenerStops
Refresh  == Query \/ Publish \/ Snapshot
Session  == \/ \E layout \in Layouts : SessionStarts(layout)
            \/ SessionEnds
            \/ \E w \in Workspaces : SwitchWorkspace(w)
            \/ \E m \in Monitors : SwitchMonitor(m)

MonitorNext == Listener \/ Refresh \/ Stop \/ Join \/ Session

MonitorSpec == MonitorInit /\ [][MonitorNext]_monitorVars

\* Both threads run: every wait of the listener has a timeout, the tick's only
\* wait is the join, and hyprctl answers or fails.  Nothing is assumed of
\* Hyprland, of its user, or that the daemon is ever stopped.
MonitorFairSpec == MonitorSpec /\ WF_monitorVars(Listener) /\ WF_monitorVars(Refresh) /\ WF_monitorVars(Join)

-----------------------------------------------------------------------------
\* The focus is on one workspace at most, in whatever state a snapshot is taken
\* and across reconnects: nothing keeps a workspace focused that was left.
OneFocus == Cardinality(focused) <= 1

\* A workspace that stays on screen from hyprctl's answer to the copy is in the
\* copy, whatever late events the listener handles in between.
SteadyIsCopied == [][ticker = "copy" /\ ticker' = "tick" => steady \subseteq copy']_monitorVars

\* A workspace that stays on screen is in every copy from some point on, also
\* when the session started after the daemon or was restarted.
OnScreenSeen ==
  \A w \in Workspaces : <>[](w \in OnScreen /\ running) => <>[](w \in copy)

\* Only one hidden workspace can be taken for visible for ever, the focused one.
HiddenFades ==
  \A w \in Workspaces :
    <>[](w \notin OnScreen /\ w \notin focused /\ running) => <>[](w \notin copy)

\* TC-18: stop() does not hang, whatever the listener is doing.
StopReturns == ~running ~> ticker = "done"
=============================================================================
