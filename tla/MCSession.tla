----------------------------- MODULE MCSession -----------------------------
(***************************************************************************)
(* What the daemon knows of the screen and what it asks of the processor, for *)
(* TLC.  The workspace monitor and the governor share no state that these    *)
(* modules keep, so one of them runs in each behaviour.                     *)
(***************************************************************************)
EXTENDS MCGovernor, WorkspaceMonitor

VARIABLE part

sessionParts == <<vars, monitorVars, part>>

\* The governor of a machine with nothing to do.
AtRest ==
  /\ workloads = <<>> /\ shown = {} /\ executing = {}
  /\ reading = Calm(60) /\ level = ComputePressure(reading) /\ governor = "POWERSAVE"

PartsInit ==
  /\ MonitorInit
  /\ keyboard = (CHOOSE m \in Monitors : TRUE) /\ focusedWs = (CHOOSE w \in Workspaces : TRUE)
  /\ \/ part = "governor" /\ Init
     \/ part = "monitor" /\ AtRest

PartsNext ==
  /\ UNCHANGED part
  /\ \/ part = "governor" /\ Next /\ UNCHANGED monitorVars
     \/ part = "monitor" /\ MonitorNext /\ UNCHANGED vars

\* The fairness of the modules, for the part that runs.
PartsSpec ==
  /\ PartsInit /\ [][PartsNext]_sessionParts
  /\ WF_vars(part = "governor" /\ LoopTick)
  /\ WF_monitorVars(part = "monitor" /\ Listener)
  /\ WF_monitorVars(part = "monitor" /\ Refresh)
  /\ WF_monitorVars(part = "monitor" /\ Join)
=============================================================================
