---------------------------- MODULE PolicyEngine ----------------------------
(***************************************************************************)
(* PolicyEngine::evaluate: the decision for one workload after its tick.    *)
(* The code is a cascade of early returns; each group of them is an         *)
(* operator here and Evaluate gives their order.                            *)
(***************************************************************************)
EXTENDS HwmTypes

\* Variant: CRITICAL pressure freezes headless workloads like any other.
HeadlessDecisionFreezing(shown, activity, pressure) ==
  IF ~shown /\ activity # "EXECUTING" /\ pressure >= CRITICAL
  THEN "FREEZE" ELSE "KEEP_BACKGROUND"

\* SERVICE (HC-07) and VM (HC-08): throttled under CRITICAL pressure, never more.
HeadlessDecision(shown, activity, pressure) ==
  IF ~shown /\ activity # "EXECUTING" /\ pressure >= CRITICAL
  THEN "THROTTLE" ELSE "KEEP_BACKGROUND"

\* A browser root with live connections (HC-05, HC-06).  classify() sets
\* latency_sensitive whenever it sets is_browser_root, and nothing else reads it.
BrowserDecision(pressure) ==
  CASE pressure \in {NORMAL, MODERATE} -> "KEEP_BACKGROUND"
    [] pressure = HIGH                 -> "THROTTLE"
    [] pressure = CRITICAL             -> "FREEZE"

\* Steps 4 and 5: an idle workload by its state and the pressure.
DecayDecision(wl, pressure) ==
  CASE wl.state = "IDLE" -> IF pressure = NORMAL THEN "KEEP_BACKGROUND"
                            ELSE IF pressure = MODERATE THEN "THROTTLE"
                            ELSE "FREEZE"
    [] wl.state = "AGING" -> IF pressure >= HIGH THEN "FREEZE" ELSE "THROTTLE"
    [] wl.state = "RECLAIMABLE" -> IF wl.ai_owned THEN "FREEZE" ELSE "RECLAIM"
    [] OTHER -> "KEEP_BACKGROUND"

\* Variant: the browser's rule before the execution check.
EvaluateBrowserFirst(wl, shown, activity, pressure, protected) ==
  IF protected THEN "KEEP_FULL"
  ELSE IF wl.observed THEN "KEEP_BACKGROUND"
  ELSE IF wl.type \in {"SERVICE", "VM"} THEN HeadlessDecision(shown, activity, pressure)
  ELSE IF wl.is_browser_root /\ ~shown THEN BrowserDecision(pressure)
  ELSE IF activity = "EXECUTING" THEN IF shown THEN "KEEP_FULL" ELSE "KEEP_BACKGROUND"
  ELSE IF shown /\ wl.state = "ACTIVE" THEN "KEEP_FULL"
  ELSE IF wl.hysteresis > 0 THEN "KEEP_BACKGROUND"
  ELSE DecayDecision(wl, pressure)

\* evaluate(); protected is registry.is_protected_any(wl.pids).
Evaluate(wl, shown, activity, pressure, protected) ==
  IF protected THEN "KEEP_FULL"
  ELSE IF wl.observed THEN "KEEP_BACKGROUND"
  ELSE IF wl.type \in {"SERVICE", "VM"} THEN HeadlessDecision(shown, activity, pressure)
  ELSE IF activity = "EXECUTING" THEN IF shown THEN "KEEP_FULL" ELSE "KEEP_BACKGROUND"
  ELSE IF shown /\ wl.state = "ACTIVE" THEN "KEEP_FULL"
  ELSE IF wl.hysteresis > 0 THEN "KEEP_BACKGROUND"
  ELSE IF wl.is_browser_root THEN BrowserDecision(pressure)
  ELSE DecayDecision(wl, pressure)
=============================================================================
