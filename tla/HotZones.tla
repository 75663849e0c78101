------------------------------ MODULE HotZones ------------------------------
(***************************************************************************)
(* titan-hotzones and titan-zone-osd: the pointer daemon and its overlay.    *)
(*                                                                          *)
(* The daemon is one event loop.  A tick samples the pointer, finds the zone  *)
(* under it and runs the dwell machine; lines of Hyprland's event socket show *)
(* toasts; control clients switch it on and off.  What it wants shown it      *)
(* broadcasts over a local socket that keeps the order; the messages of a     *)
(* handler are applied with it, because an overlay that ends forgets all it   *)
(* was sent and one that lags only shows an older state.  An action is one    *)
(* handler.  The pointer, the windows and Hyprland are external.  Distances   *)
(* are pixels, times are units of a tick.                                     *)
(***************************************************************************)
EXTENDS Integers, SequencesExt

CONSTANTS
  Screens,       \* the monitors in the order j/monitors lists them, [x, y, w, h]
  Positions,     \* the pixels the pointer visits
  RawConfigs,    \* what hotzones.toml may say
  Bindings,      \* the zones that have a command
  Windows,       \* what hyprActiveWindow tells apart: "none" is no answer, the others a
                 \* "plain", "ignored", "maximized" or "fullscreen" window
  Toasts         \* the labels of workspaces and scratchpads

VARIABLES
  pointer,       \* where the last tick saw the pointer
  window,        \* the active window
  config,        \* cfg_
  hz,            \* the daemon's members
  stayed,        \* history: not seen inside the exclusion box since the last firing
  link,          \* the overlay is connected
  overlay        \* OsdController

hzVars == <<pointer, window, config, hz, stayed, link, overlay>>

NoZone == [id |-> "none", monitor |-> -1]

-----------------------------------------------------------------------------
\* Configuration and geometry

Bound(lo, v, hi) == IF v < lo THEN lo ELSE IF v > hi THEN hi ELSE v

\* Times are bounded in ms by the code, in ticks here.
FromFile(raw) ==
  [corner    |-> Bound(1, raw.corner, 64),
   thickness |-> Bound(1, raw.thickness, 64),
   length    |-> Bound(1, raw.length, 2000),
   dwell     |-> Bound(0, raw.dwell, 2),
   cooldown  |-> Bound(0, raw.cooldown, 2),
   exclusion |-> Bound(0, raw.exclusion, 2000),
   frame     |-> raw.frame]

Rect(x, y, w, h) == [x |-> x, y |-> y, w |-> w, h |-> h]

\* Integer division of positive lengths, as in C++.
ZoneRect(m, z, cfg) ==
  LET c == cfg.corner
      t == cfg.thickness
      midX == m.x + m.w \div 2 - cfg.length \div 2
      midY == m.y + m.h \div 2 - cfg.length \div 2
  IN CASE z = "top_left"      -> Rect(m.x, m.y, c, c)
       [] z = "top_right"     -> Rect(m.x + m.w - c, m.y, c, c)
       [] z = "bottom_left"   -> Rect(m.x, m.y + m.h - c, c, c)
       [] z = "bottom_right"  -> Rect(m.x + m.w - c, m.y + m.h - c, c, c)
       [] z = "left_center"   -> Rect(m.x, midY, t, cfg.length)
       [] z = "right_center"  -> Rect(m.x + m.w - t, midY, t, cfg.length)
       [] z = "bottom_center" -> Rect(midX, m.y + m.h - t, cfg.length, t)

\* kOrder
ZoneOrder == <<"top_left", "top_right", "bottom_left", "bottom_right",
               "left_center", "right_center", "bottom_center">>

Inside(r, p) == /\ p.x >= r.x /\ p.x < r.x + r.w
                  /\ p.y >= r.y /\ p.y < r.y + r.h

\* The first monitor of the list that holds p, or 0.
MonitorAt(p) ==
  LET on == {i \in DOMAIN Screens : Inside(Screens[i], p)}
  IN IF on = {} THEN 0 ELSE Min(on)

\* The monitor under the pointer goes first, so that a neighbour cannot take its corner.
HitTest(p, cfg) ==
  LET in(i)  == {k \in DOMAIN ZoneOrder : Inside(ZoneRect(Screens[i], ZoneOrder[k], cfg), p)}
      hit    == {i \in DOMAIN Screens : in(i) # {}}
      chosen == IF MonitorAt(p) \in hit THEN MonitorAt(p) ELSE Min(hit)
  IN IF hit = {} THEN NoZone
     ELSE [id |-> ZoneOrder[Min(in(chosen))], monitor |-> chosen]

InInnerRegion(p, cfg) ==
  LET i == MonitorAt(p)
      m == Screens[i]
  IN i # 0 /\ Min({p.x - m.x, m.x + m.w - 1 - p.x, p.y - m.y, m.y + m.h - 1 - p.y})
                >= cfg.exclusion

\* What a tick reads at each pixel.
Sample == [p \in Positions, cfg \in {FromFile(raw) : raw \in RawConfigs} |->
             [hit |-> HitTest(p, cfg), inner |-> InInnerRegion(p, cfg)]]

-----------------------------------------------------------------------------
\* The dwell machine: one sample, `gap` ticks after the one before.  Times stop at
\* the threshold they are compared with.

UpdateAnywhere(d, hit, inner, cfg) ==
  LET waited == Min({d.since + 1, IF d.zstate = "Locked" THEN cfg.cooldown ELSE cfg.dwell})
      arm == [d EXCEPT !.zstate = "Armed", !.armed = hit, !.since = 0]
  IN CASE d.zstate = "Locked" ->
            IF waited >= cfg.cooldown
            THEN [d EXCEPT !.zstate = "Idle", !.armed = NoZone, !.since = 0] ELSE [d EXCEPT !.since = waited]
       [] d.zstate # "Locked" /\ hit = NoZone -> [d EXCEPT !.zstate = "Idle", !.armed = NoZone, !.since = 0]
       [] d.zstate # "Locked" /\ hit # NoZone ->
            IF d.zstate = "Idle" \/ hit # d.armed THEN arm
            ELSE IF waited >= cfg.dwell THEN [d EXCEPT !.zstate = "Locked", !.armed = NoZone, !.since = 0]
            ELSE [d EXCEPT !.since = waited]

Update(d, hit, inner, cfg) ==
  LET limit  == IF d.zstate = "Locked" THEN cfg.cooldown ELSE cfg.dwell
      waited == Min({d.since + 1, limit})
  IN IF d.zstate = "Locked"
     THEN IF inner /\ waited >= cfg.cooldown
          THEN [d EXCEPT !.zstate = "Idle", !.armed = NoZone, !.since = 0]
          ELSE [d EXCEPT !.since = waited]
     ELSE IF hit = NoZone THEN [d EXCEPT !.zstate = "Idle", !.armed = NoZone, !.since = 0]
     ELSE IF d.zstate = "Idle" \/ hit # d.armed
     THEN [d EXCEPT !.zstate = "Armed", !.armed = hit, !.since = 0]
     ELSE IF waited >= cfg.dwell THEN [d EXCEPT !.zstate = "Locked", !.armed = NoZone, !.since = 0]
     ELSE [d EXCEPT !.since = waited]

-----------------------------------------------------------------------------
\* What the daemon wants shown.  Each operator is one method: it changes the members
\* and appends what it broadcasts to `out`.

Send(d, msg) == [d EXCEPT !.out = Append(@, msg)]

Hide == [cmd |-> "hide"]

\* The ring in percent of the dwell.  While the overlay is visible lastZone_ is sentZone_.
Progress(d, cfg) == IF cfg.dwell = 0 THEN 0 ELSE (100 * d.since) \div cfg.dwell

PublishOsd(d, hit, fired, cfg) ==
  LET holds == d.zstate = "Locked" /\ ~fired /\ d.osdVisible
      show   == d.zstate = "Armed" \/ fired \/ holds
      zone   == IF holds THEN d.sentZone ELSE hit.id
      ring   == IF d.zstate = "Armed" THEN Progress(d, cfg) ELSE 100
      redundant == d.osdVisible /\ zone = d.sentZone /\ ring - d.sentProgress < 2
  IN IF show
     THEN IF redundant THEN d
          ELSE Send([d EXCEPT !.osdVisible = TRUE, !.sentZone = zone, !.sentProgress = ring],
                    [cmd |-> "show", kind |-> "zone"])
     ELSE IF d.osdVisible
     THEN Send([d EXCEPT !.osdVisible = FALSE, !.sentZone = "", !.sentProgress = -1], Hide)
     ELSE d

\* toastHide_ runs while a toast is active.  A repeated label only restarts it.
ShowToast(d, label) ==
  IF d.toast = label THEN d
  ELSE Send([d EXCEPT !.toast = label], [cmd |-> "show", kind |-> "workspace"])

\* Over a ring the toast is left to the ring's own hide.
HideToast(d) ==
  LET gone == [d EXCEPT !.toast = ""]
  IN IF d.toast # "" /\ d.zstate = "Idle" /\ ~d.osdVisible THEN Send(gone, Hide) ELSE gone

HideOsd(d) == Send([d EXCEPT !.osdVisible = FALSE, !.sentZone = "", !.sentProgress = -1], Hide)

\* aw is what hyprActiveWindow answers.
UpdateFrame(d, force, aw, cfg) ==
  LET want == d.enabled /\ cfg.frame /\ aw # "fullscreen"
  IN IF ~force /\ want = d.frameShown THEN d
     ELSE Send([d EXCEPT !.frameShown = want], [cmd |-> "frame", show |-> want])

SetEnabled(d, on, aw, cfg) ==
  LET set == [d EXCEPT !.enabled = on]
  IN UpdateFrame(IF on THEN set ELSE HideOsd(set), FALSE, aw, cfg)

\* excludeFullscreen is on; maximized counts as fullscreen here.
Inhibited(aw) == aw \in {"ignored", "maximized", "fullscreen"}

-----------------------------------------------------------------------------
\* The overlay: OsdController::apply

Apply(o, msg) ==
  CASE msg.cmd = "hide"  -> [o EXCEPT !.active = FALSE]
    [] msg.cmd = "frame" -> [o EXCEPT !.frame = msg.show]
    [] msg.cmd = "show"  -> [o EXCEPT !.active = TRUE, !.kind = msg.kind]

FreshOverlay == [active |-> FALSE, frame |-> FALSE, kind |-> "zone"]

FreshDaemon ==
  [zstate |-> "Idle", armed |-> NoZone, since |-> 0, enabled |-> TRUE, osdVisible |-> FALSE,
   frameShown |-> FALSE, toast |-> "", frameTimer |-> FALSE,
   sentZone |-> "", sentProgress |-> -1, launched |-> FALSE, out |-> <<>>]

-----------------------------------------------------------------------------
\* Actions

\* A handler ended in d: the overlay, if it is connected, reads what was broadcast.
Broadcast(d) ==
  /\ hz' = [d EXCEPT !.out = <<>>]
  /\ overlay' = IF link THEN FoldLeft(Apply, overlay, d.out) ELSE overlay

\* hyprActiveWindow asked now: the window, or no answer in time.
Answers == {window} \cup (Windows \cap {"none"})

HzInit ==
  /\ pointer \in Positions /\ window = "plain"
  /\ config \in {FromFile(raw) : raw \in RawConfigs}
  /\ hz = [UpdateFrame(FreshDaemon, TRUE, window, config) EXCEPT !.out = <<>>]
  /\ stayed = FALSE
  /\ link = FALSE /\ overlay = FreshOverlay

OnTick(p) ==
  LET hit   == Sample[<<p, config>>].hit
      inner == Sample[<<p, config>>].inner
      d     == Update(hz, hit, inner, config)
      fired == hz.enabled /\ hz.zstate = "Armed" /\ d.zstate = "Locked"
  IN \E aw \in Answers :
       /\ Broadcast(PublishOsd([d EXCEPT !.launched = fired /\ hit.id \in Bindings /\ ~Inhibited(aw)],
                               hit, fired, config))
       /\ stayed' = (fired \/ (stayed /\ ~inner))
       /\ pointer' = p
       /\ UNCHANGED <<window, config, link>>

\* A line about windows restarts the debounce timer of the frame, unless the event
\* socket is down.
WindowChanges ==
  /\ window' \in Windows \ {window}
  /\ hz' \in {hz, [hz EXCEPT !.frameTimer = TRUE]}
  /\ UNCHANGED <<pointer, config, stayed, link, overlay>>

\* The lines "workspace" and "workspacev2" of one switch.
WorkspaceLine(label) ==
  /\ Broadcast([ShowToast(hz, label) EXCEPT !.frameTimer = TRUE])
  /\ UNCHANGED <<pointer, window, config, stayed, link>>

\* The line "activespecial" of a scratchpad that closes; one that opens is a toast.
SpecialCloses ==
  /\ Broadcast([HideToast(hz) EXCEPT !.frameTimer = TRUE])
  /\ UNCHANGED <<pointer, window, config, stayed, link>>

ToastTimeout ==
  /\ hz.toast # ""
  /\ Broadcast(HideToast(hz))
  /\ UNCHANGED <<pointer, window, config, stayed, link>>

FrameTimeout ==
  /\ hz.frameTimer
  /\ \E aw \in Answers : Broadcast(UpdateFrame([hz EXCEPT !.frameTimer = FALSE], FALSE, aw, config))
  /\ UNCHANGED <<pointer, window, config, stayed, link>>

\* A control client: its connection, then its command.
Control(on) ==
  /\ \E aw \in Answers :
       Broadcast(SetEnabled(UpdateFrame(hz, TRUE, aw, config), on, aw, config))
  /\ UNCHANGED <<pointer, window, config, stayed, link>>

OsdConnectsUnforced ==
  /\ ~link
  /\ link' = TRUE
  /\ \E aw \in Answers :
       LET d == UpdateFrame(hz, FALSE, aw, config)
       IN hz' = [d EXCEPT !.out = <<>>] /\ overlay' = FoldLeft(Apply, overlay, d.out)
  /\ UNCHANGED <<pointer, window, config, stayed>>

\* The retry timer of the overlay, and the daemon's clientConnected.
OsdConnects ==
  /\ ~link
  /\ link' = TRUE
  /\ \E aw \in Answers :
       LET d == UpdateFrame(hz, TRUE, aw, config)
       IN hz' = [d EXCEPT !.out = <<>>] /\ overlay' = FoldLeft(Apply, overlay, d.out)
  /\ UNCHANGED <<pointer, window, config, stayed>>

OsdRestarts ==
  /\ link' = FALSE /\ overlay' = FreshOverlay
  /\ UNCHANGED <<pointer, window, config, hz, stayed>>

\* The daemon ends and starts again.  The overlay keeps what it shows.
DaemonRestarts ==
  /\ \E aw \in Answers :
       hz' = [UpdateFrame(FreshDaemon, TRUE, aw, config) EXCEPT !.out = <<>>]
  /\ link' = FALSE /\ stayed' = FALSE
  /\ UNCHANGED <<pointer, window, config, overlay>>

HzNext ==
  \/ \E p \in Positions : OnTick(p)
  \/ WindowChanges \/ SpecialCloses
  \/ \E l \in Toasts : WorkspaceLine(l)
  \/ ToastTimeout \/ FrameTimeout
  \/ \E on \in BOOLEAN : Control(on)
  \/ OsdConnects \/ OsdRestarts \/ DaemonRestarts

HzSpec == HzInit /\ [][HzNext]_hzVars

-----------------------------------------------------------------------------
\* Properties

\* A command fires once per touch: between two firings the pointer was seen inside the
\* exclusion box, whatever the geometry, and with switches, toasts and overlays that come and
\* go in between (ZoneStateMachine::update, with hitTest and inInnerRegion).
OncePerTouch ==
  [][~hz.launched /\ hz'.launched => ~stayed]_hzVars

\* A connected overlay draws the frame the daemon believes
\* it draws, whichever of the two was restarted and whatever was lost (updateFrame,
\* clientConnected, OsdController::apply).
FrameAgrees == link => overlay.frame = hz.frameShown
=============================================================================
