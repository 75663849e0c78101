-------------------------- MODULE WorkloadManager --------------------------
(***************************************************************************)
(* WorkloadManager::tick: the workload state machine, as a function from a  *)
(* workload record and the tick's three inputs to the updated record.       *)
(*                                                                          *)
(* wl.age stands for minutes_since(wl.last_active).  The code compares it   *)
(* with two thresholds only, so it counts in any unit that tells them       *)
(* apart.                                                                    *)
(***************************************************************************)
EXTENDS HwmTypes

CONSTANTS
  HysteresisTicks,  \* DecayConfig::hysteresis_ticks
  SoftAge,          \* DecayConfig::age_soft_decay_min
  HardAge           \* DecayConfig::age_hard_decay_min

ASSUME DecayConfig ==
  /\ HysteresisTicks \in Nat /\ SoftAge \in Nat /\ HardAge \in Nat
  /\ SoftAge <= HardAge

\* Where a workload without history of its own belongs this tick.
Placed(shown, activity) ==
  IF shown THEN "ACTIVE"
  ELSE IF activity = "EXECUTING" THEN "BACKGROUND_EXECUTING"
  ELSE "IDLE"

\* ACTIVE: leaving the screen opens the hysteresis window unless one is open,
\* staying on it closes the window.
TickActive(wl, shown, activity) ==
  [wl EXCEPT !.state = Placed(shown, activity),
             !.hysteresis = IF shown THEN 0
                            ELSE IF @ = 0 THEN HysteresisTicks ELSE @]

\* Variant: the window is counted down without looking whether one is open.
TickBackgroundUnguarded(wl, shown, activity) ==
  IF shown THEN [wl EXCEPT !.state = "ACTIVE", !.hysteresis = 0]
  ELSE [wl EXCEPT !.hysteresis = @ - 1]

\* BACKGROUND_EXECUTING: an open window only counts down; COMPLETED is not IDLE.
TickBackground(wl, shown, activity) ==
  IF shown THEN [wl EXCEPT !.state = "ACTIVE", !.hysteresis = 0]
  ELSE IF wl.hysteresis > 0 THEN [wl EXCEPT !.hysteresis = @ - 1]
  ELSE IF activity = "IDLE" THEN [wl EXCEPT !.state = "IDLE"]
  ELSE wl

\* IDLE: resumed work is looked at before the screen.
TickIdle(wl, shown, activity, pressure) ==
  [wl EXCEPT !.state =
    IF activity = "EXECUTING" THEN "BACKGROUND_EXECUTING"
    ELSE IF shown THEN "ACTIVE"
    ELSE IF wl.age >= SoftAge /\ pressure >= MODERATE THEN "AGING"
    ELSE @]

\* Variant: the hard threshold compared with the soft one's bound.
TickDecayedEarly(wl, shown, activity, pressure) ==
  [wl EXCEPT !.state =
    IF shown THEN "ACTIVE"
    ELSE IF activity = "EXECUTING" THEN "BACKGROUND_EXECUTING"
    ELSE IF @ = "AGING" /\ wl.age >= SoftAge /\ pressure >= HIGH THEN "RECLAIMABLE"
    ELSE @]

\* AGING and RECLAIMABLE: the screen first, then resumed work.
TickDecayed(wl, shown, activity, pressure) ==
  [wl EXCEPT !.state =
    IF shown THEN "ACTIVE"
    ELSE IF activity = "EXECUTING" THEN "BACKGROUND_EXECUTING"
    ELSE IF @ = "AGING" /\ wl.age >= HardAge /\ pressure >= HIGH THEN "RECLAIMABLE"
    ELSE @]

\* WorkloadManager::tick.  wl.is_protected is never set by the daemon.
Tick(wl, shown, activity, pressure) ==
  CASE wl.observed \/ wl.state = "DISCOVERED" ->
         [wl EXCEPT !.state = Placed(shown, activity)]
    [] ~wl.observed /\ wl.state = "ACTIVE" -> TickActive(wl, shown, activity)
    [] ~wl.observed /\ wl.state = "BACKGROUND_EXECUTING" ->
         TickBackground(wl, shown, activity)
    [] ~wl.observed /\ wl.state = "IDLE" -> TickIdle(wl, shown, activity, pressure)
    [] ~wl.observed /\ wl.state \in {"AGING", "RECLAIMABLE"} ->
         TickDecayed(wl, shown, activity, pressure)
    [] OTHER -> wl
=============================================================================
