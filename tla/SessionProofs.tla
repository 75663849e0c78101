--------------------------- MODULE SessionProofs ---------------------------
(***************************************************************************)
(* Machine-checked proofs about the pressure levels and the governor, for     *)
(* every set of workloads, demands and readings, and about the workspace       *)
(* monitor, for every set of workspaces and monitors and every number of       *)
(* events in flight.                                                         *)
(***************************************************************************)
EXTENDS Governor, WorkspaceMonitor, FiniteSetTheorems, TLAPS

\* Levels are ordered numbers, whatever was read.
LEMMA PressureType == ASSUME NEW r \in Reading PROVE ComputePressure(r) \in PressureLevel
  BY DEF ComputePressure, PsiPressure, FallbackPressure,
         PressureLevel, NORMAL, MODERATE, HIGH, CRITICAL

\* With PSI on both sides, or on neither, every rule is monotone.
LEMMA SameSourceMonotone ==
  ASSUME NEW r \in Reading, NEW s \in Reading, r.psi = s.psi,
         s.free <= r.free, s.some >= r.some, s.full >= r.full
  PROVE  ComputePressure(s) >= ComputePressure(r)
<1>1. CASE r.psi
  BY <1>1 DEF Reading, ComputePressure, PsiPressure, NORMAL, MODERATE, HIGH, CRITICAL
<1>2. CASE ~r.psi
  BY <1>2 DEF Reading, ComputePressure, FallbackPressure, NORMAL, MODERATE, HIGH, CRITICAL
<1> QED BY <1>1, <1>2

\* Losing PSI on a machine without stalls errs on the side of pressure.
LEMMA FallbackCautious ==
  ASSUME NEW r \in Reading, NEW s \in Reading, r.psi, ~s.psi,
         s.free <= r.free, r.some = 0, r.full = 0
  PROVE  ComputePressure(s) >= ComputePressure(r)
BY DEF Reading, ComputePressure, PsiPressure, FallbackPressure,
       NORMAL, MODERATE, HIGH, CRITICAL

LEMMA Monotone ==
  ASSUME NEW r \in Reading, NEW s \in Reading, NoBetter(r, s)
  PROVE  ComputePressure(s) >= ComputePressure(r)
BY SameSourceMonotone, FallbackCautious DEF NoBetter

\* Neither band of the governor's hysteresis reaches HIGH.
LEMMA CappedGovernor ==
  ASSUME NEW wls, NEW pressure \in PressureLevel, NEW current, pressure >= HIGH
  PROVE  ComputeGovernor(wls, pressure, current) # "PERFORMANCE"
BY DEF ComputeGovernor, MayHoldPerformance, PressureLevel,
       NORMAL, MODERATE, HIGH, CRITICAL

-----------------------------------------------------------------------------
\* The level and the governor belong to the last reading.
LevelInv ==
  /\ reading \in Reading /\ level = ComputePressure(reading)
  /\ PressureCaps

LEMMA LevelInit == Init => LevelInv
<1> SUFFICES ASSUME Init PROVE LevelInv
  OBVIOUS
<1>1. reading \in Reading /\ level = ComputePressure(reading)
  BY GovernorConfig DEF Init
<1>2. governor # "PERFORMANCE"
  BY DEF Init
<1> QED BY <1>1, <1>2 DEF LevelInv, PressureCaps

LEMMA LevelStep == LevelInv /\ [Next]_vars => LevelInv'
<1> SUFFICES ASSUME LevelInv, [Next]_vars PROVE LevelInv'
  OBVIOUS
<1>1. CASE LoopTick
  <2> PICK r \in Readings : TickWith(r)
    BY <1>1 DEF LoopTick
  <2>1. r \in Reading /\ reading' = r /\ level' = ComputePressure(r)
    BY GovernorConfig DEF TickWith
  <2>2. governor' = ComputeGovernor(workloads, level', governor)
    BY DEF TickWith
  <2>3. PressureCaps'
    BY <2>1, <2>2, PressureType, CappedGovernor DEF PressureCaps
  <2> QED BY <2>1, <2>3 DEF LevelInv
<1>2. CASE UNCHANGED <<reading, level, governor>>
  BY <1>2 DEF LevelInv, PressureCaps
<1>3. ~LoopTick => UNCHANGED <<reading, level, governor>>
  BY DEF Next, vars, Arrive, Reclassify, Leave, Show, Work
<1> QED BY <1>1, <1>2, <1>3

THEOREM LevelCorrect == Spec => []LevelInv
BY LevelInit, LevelStep, PTL DEF Spec

\* For every machine: at HIGH and CRITICAL pressure the governor is never held
\* at or raised to PERFORMANCE.
THEOREM Capped == Spec => []PressureCaps
<1>1. LevelInv => PressureCaps
  BY DEF LevelInv
<1> QED BY <1>1, LevelCorrect, PTL

\* For every machine: a reading that is no better never lowers the level.
THEOREM NeverRelieved == Spec => PressureMonotone
<1>1. LevelInv /\ LevelInv' => (NoBetter(reading, reading') => level' >= level)
  BY Monotone DEF LevelInv
<1> QED BY <1>1, LevelCorrect, PTL DEF PressureMonotone

-----------------------------------------------------------------------------
\* The focus.

\* The only workspace that can be marked is the one handle_event is about to
\* unmark, and outside handle_event the one focused_ws_ names.
FocusInv == focused \subseteq {IF listener = "mark" THEN prev ELSE focusedWs}

LEMMA FocusStep == FocusInv /\ [MonitorNext]_monitorVars => FocusInv'
<1> SUFFICES ASSUME FocusInv, [MonitorNext]_monitorVars PROVE FocusInv'
  OBVIOUS
<1>1. CASE UNCHANGED listenerVars
  BY <1>1 DEF listenerVars, FocusInv
<1>2. CASE Exchange
  BY <1>2 DEF Exchange, FocusInv
<1>3. CASE Mark
  BY <1>3 DEF Mark, FocusInv
<1>4. CASE Connect \/ Read \/ Disconnect \/ LinesDone \/ ListenerStops
  BY <1>4 DEF Connect, Read, Disconnect, LinesDone, ListenerStops, FocusInv
<1>5. Refresh \/ Stop \/ Join \/ Session => UNCHANGED listenerVars
  BY DEF Refresh, Query, Publish, Snapshot, Stop, Join, Session,
         SessionStarts, SessionEnds, SwitchWorkspace, SwitchMonitor
<1>6. UNCHANGED monitorVars => UNCHANGED listenerVars
  BY DEF monitorVars
<1> QED BY <1>1, <1>2, <1>3, <1>4, <1>5, <1>6 DEF MonitorNext, Listener

\* For every session: at most one workspace is focused, in every state in which
\* the tick thread can take its copy.
THEOREM FocusCorrect == MonitorSpec => []OneFocus
<1>1. MonitorInit => FocusInv
  BY DEF MonitorInit, FocusInv
<1>2. FocusInv => OneFocus
  <2> SUFFICES ASSUME FocusInv PROVE Cardinality(focused) <= 1
    BY DEF OneFocus
  <2> DEFINE w == IF listener = "mark" THEN prev ELSE focusedWs
  <2>1. focused = {} \/ focused = {w}
    BY DEF FocusInv
  <2>2. Cardinality({}) = 0 /\ Cardinality({w}) = 1
    BY FS_EmptySet, FS_Singleton
  <2> QED BY <2>1, <2>2
<1> QED BY <1>1, <1>2, FocusStep, PTL DEF MonitorSpec

-----------------------------------------------------------------------------
\* What the tick is told.

\* hyprctl's answer, then the flags, hold whatever stayed on screen.
SteadyInv ==
  /\ ticker = "publish" => steady \subseteq json
  /\ ticker = "copy" => steady \subseteq visible

LEMMA SteadyStep == SteadyInv /\ [MonitorNext]_monitorVars => SteadyInv'
<1> SUFFICES ASSUME SteadyInv, [MonitorNext]_monitorVars PROVE SteadyInv'
  OBVIOUS
<1>1. CASE Listener \/ UNCHANGED monitorVars
  BY <1>1 DEF Listener, Connect, Read, Disconnect, Exchange, Mark, LinesDone, ListenerStops,
              tickerVars, monitorVars, SteadyInv
<1>2. CASE Query \/ Publish \/ Snapshot
  BY <1>2 DEF Query, Publish, Snapshot, SteadyInv
<1>3. CASE Stop \/ Join
  BY <1>3 DEF Stop, Join, SteadyInv
<1>4. CASE Session
  <2>1. UNCHANGED tickerVars /\ steady' \subseteq steady
    BY <1>4 DEF Session, SessionStarts, SessionEnds, SwitchWorkspace, SwitchMonitor
  <2> QED BY <2>1 DEF tickerVars, SteadyInv
<1> QED BY <1>1, <1>2, <1>3, <1>4 DEF MonitorNext, Refresh

\* For every session: whatever stays on screen from hyprctl's answer to the copy
\* is in the copy.
THEOREM SteadyCorrect == MonitorSpec => SteadyIsCopied
<1>1. MonitorInit => SteadyInv
  BY DEF MonitorInit, SteadyInv
<1>2. SteadyInv /\ [MonitorNext]_monitorVars
      => (ticker = "copy" /\ ticker' = "tick" => steady \subseteq copy')
  <2> SUFFICES ASSUME SteadyInv, [MonitorNext]_monitorVars, ticker = "copy", ticker' = "tick"
               PROVE  steady \subseteq copy'
    OBVIOUS
  <2>1. Listener \/ Session \/ UNCHANGED monitorVars => ticker' = ticker
    BY DEF Listener, Connect, Read, Disconnect, Exchange, Mark, LinesDone, ListenerStops,
           Session, SessionStarts, SessionEnds, SwitchWorkspace, SwitchMonitor,
           tickerVars, monitorVars
  <2>2. Snapshot
    BY <2>1 DEF MonitorNext, Refresh, Query, Publish, Stop, Join
  <2> QED BY <2>2 DEF Snapshot, SteadyInv
<1> QED BY <1>1, <1>2, SteadyStep, PTL DEF MonitorSpec, SteadyIsCopied
=============================================================================
