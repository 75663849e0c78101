------------------------------ MODULE Governor ------------------------------
(***************************************************************************)
(* The power policy of the daemon: compute_governor() in the tick loop,      *)
(* over the workload state machine and the pressure levels.                 *)
(*                                                                          *)
(* Tick is steps (c), (f) and (g) of one tick, as far as they concern the    *)
(* governor.  all_workloads is copied before the loop that drives the       *)
(* workloads, so the governor follows the states of the tick before.        *)
(***************************************************************************)
EXTENDS WorkloadManager, Pressure

CONSTANTS
  Ids,       \* workload ids
  Demands,   \* what the classifier can find in a process tree
  Readings   \* what the kernel can report of memory

GovernorHint == {"POWERSAVE", "SCHEDUTIL", "PERFORMANCE"}

Demand == [observed : BOOLEAN, is_building : BOOLEAN, latency_sensitive : BOOLEAN]

ASSUME GovernorConfig == Demands \subseteq Demand /\ Readings \subseteq Reading

VARIABLES
  workloads,  \* the registry, a function on the registered ids
  shown,      \* the workloads on a visible or focused workspace
  executing,  \* the workloads detect() finds executing
  reading,    \* what the last tick read, or would have read before the first
  level,      \* the pressure it computed
  governor    \* current_gov

vars == <<workloads, shown, executing, reading, level, governor>>

Registered == DOMAIN workloads

\* The fields of Workload that tick() and compute_governor() read.  age is
\* fixed: the states it tells apart are all idle to the governor.
Workload ==
  [state : WorkloadState, hysteresis : 0..HysteresisTicks, age : {HardAge},
   observed : BOOLEAN, is_building : BOOLEAN, latency_sensitive : BOOLEAN]

GovernorTypeOK ==
  /\ Registered \subseteq Ids /\ workloads \in [Registered -> Workload]
  /\ shown \subseteq Registered /\ executing \subseteq Registered
  /\ reading \in Reading /\ level \in PressureLevel /\ governor \in GovernorHint

-----------------------------------------------------------------------------
\* compute_governor().

\* Variant: every workload counts.
CountedAll(wls) == DOMAIN wls

\* Observed workloads have no say in the power policy.
Counted(wls) == {i \in DOMAIN wls : ~wls[i].observed}

\* Variant: the flag is overwritten by each workload instead of raised by one.
AnyBuildingLast(wls) ==
  /\ Counted(wls) # {}
  /\ \A i \in Counted(wls) : wls[i].state = "BACKGROUND_EXECUTING" /\ wls[i].is_building

AnyBuilding(wls) ==
  \E i \in Counted(wls) : wls[i].state = "BACKGROUND_EXECUTING" /\ wls[i].is_building

AnyLatency(wls) ==
  \E i \in Counted(wls) : wls[i].state = "ACTIVE" /\ wls[i].latency_sensitive

AllIdle(wls) ==
  \A i \in Counted(wls) : wls[i].state \notin {"ACTIVE", "BACKGROUND_EXECUTING"}

\* Variant: whoever holds PERFORMANCE keeps it one level longer.
MayHoldPerformanceLonger(pressure, current) ==
  IF current = "PERFORMANCE" THEN pressure <= HIGH ELSE pressure < HIGH

\* The two bands of the hysteresis.
MayHoldPerformance(pressure, current) ==
  IF current = "PERFORMANCE" THEN pressure <= MODERATE ELSE pressure < HIGH

ComputeGovernor(wls, pressure, current) ==
  IF AnyBuilding(wls) \/ AnyLatency(wls)
  THEN IF MayHoldPerformance(pressure, current) THEN "PERFORMANCE" ELSE "SCHEDUTIL"
  ELSE IF AllIdle(wls) /\ pressure = NORMAL THEN "POWERSAVE" ELSE "SCHEDUTIL"

-----------------------------------------------------------------------------
Init ==
  /\ workloads = <<>> /\ shown = {} /\ executing = {}
  /\ reading \in Readings /\ level = ComputePressure(reading)
  /\ governor = "SCHEDUTIL"

Activity(i) == IF i \in executing THEN "EXECUTING" ELSE "IDLE"

\* One tick, with the reading r.
TickWith(r) ==
  /\ reading' = r /\ level' = ComputePressure(r)
  /\ workloads' = [i \in Registered |->
                     Tick(workloads[i], i \in shown, Activity(i), level')]
  /\ governor' = ComputeGovernor(workloads, level', governor)
  /\ UNCHANGED <<shown, executing>>

\* Step (d): a workload is registered...
Arrive(i, d) ==
  /\ i \notin Registered
  /\ workloads' = [j \in Registered \union {i} |->
       IF j = i THEN [state |-> "DISCOVERED", hysteresis |-> 0, age |-> HardAge,
                      observed |-> d.observed, is_building |-> d.is_building,
                      latency_sensitive |-> d.latency_sensitive]
       ELSE workloads[j]]
  /\ UNCHANGED <<shown, executing, reading, level, governor>>

\* ...or classified anew, which promotes an observed one.  How often that may
\* happen to a workload is left open here, Daemon has the rule.
Reclassify(i, d) ==
  /\ ~d.observed
  /\ workloads' = [workloads EXCEPT ![i].observed = FALSE,
                                   ![i].is_building = d.is_building,
                                   ![i].latency_sensitive = d.latency_sensitive]
  /\ UNCHANGED <<shown, executing, reading, level, governor>>

\* Step (h): its processes are gone.
Leave(i) ==
  /\ workloads' = [j \in Registered \ {i} |-> workloads[j]]
  /\ shown' = shown \ {i} /\ executing' = executing \ {i}
  /\ UNCHANGED <<reading, level, governor>>

\* The user and the processes.
Show(i) ==
  /\ shown' = IF i \in shown THEN shown \ {i} ELSE shown \union {i}
  /\ UNCHANGED <<workloads, executing, reading, level, governor>>

Work(i) ==
  /\ executing' = IF i \in executing THEN executing \ {i} ELSE executing \union {i}
  /\ UNCHANGED <<workloads, shown, reading, level, governor>>

LoopTick == \E r \in Readings : TickWith(r)

Next ==
  \/ LoopTick
  \/ \E i \in Ids, d \in Demands : Arrive(i, d)
  \/ \E i \in Registered : \/ \E d \in Demands : Reclassify(i, d)
                           \/ Leave(i) \/ Show(i) \/ Work(i)

Spec == Init /\ [][Next]_vars

\* The loop never blocks; nothing else is fair.
FairSpec == Spec /\ WF_vars(LoopTick)

-----------------------------------------------------------------------------
\* TC-11: at HIGH and CRITICAL pressure no demand, and no hint already held,
\* earns PERFORMANCE, whatever happened to the workloads since.
PressureCaps == level >= HIGH => governor # "PERFORMANCE"

\* A reading that is no better than the last never lowers the level, also when
\* the second signal appears in it or PSI is lost in it.
PressureMonotone == [][NoBetter(reading, reading') => level' >= level]_vars

\* A machine with memory to spare whose classified workloads are left alone, and
\* whose observed ones are not promoted any more, ends in POWERSAVE: neither
\* observed workloads nor hysteresis nor newcomers keep it up.
Quiet ==
  /\ \A i \in Registered : workloads[i].observed \/ i \notin shown \union executing
  /\ level = NORMAL

Promotes == \E i \in Registered : /\ i \in DOMAIN workloads'
                                  /\ workloads[i].observed /\ ~workloads'[i].observed

SettlesToPowersave ==
  <>[]Quiet /\ <>[][~Promotes]_vars => <>[](governor = "POWERSAVE")

\* A build that goes on off screen, with memory below HIGH pressure, ends up
\* with PERFORMANCE whatever the others do.
Builds(i) ==
  /\ i \in Registered /\ i \in executing \ shown
  /\ ~workloads[i].observed /\ workloads[i].is_building

BuildIsBoosted ==
  \A i \in Ids : <>[](Builds(i) /\ level < HIGH) => <>[](governor = "PERFORMANCE")
=============================================================================
