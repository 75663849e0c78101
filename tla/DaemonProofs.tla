---------------------------- MODULE DaemonProofs ----------------------------
(***************************************************************************)
(* Machine-checked proofs about the daemon, for every value of its          *)
(* constants: its types, who owns a process, whom the enforcement plane and   *)
(* the reclaim engine may harm, and how many it observes.                    *)
(***************************************************************************)
EXTENDS Daemon, FiniteSetTheorems, TLAPS

-----------------------------------------------------------------------------
\* The pure parts: one tick of a workload and the operators on processes.

\* s and h as the state and the hysteresis window of wl.
Moved(wl, s, h) == [wl EXCEPT !.state = s, !.hysteresis = h]

\* A tick moves the state and the hysteresis window of a workload, nothing else.
LEMMA TickMoves ==
  ASSUME NEW wl \in Workload, NEW shown \in BOOLEAN,
         NEW activity \in ActivityState, NEW pressure \in PressureLevel
  PROVE  \E s \in WorkloadState, h \in 0..HysteresisTicks :
           Tick(wl, shown, activity, pressure) = Moved(wl, s, h)
<1> DEFINE t == Tick(wl, shown, activity, pressure)
           placed == Placed(shown, activity)
           held == wl.hysteresis
<1>0. /\ HysteresisTicks \in Nat
      /\ wl.state \in WorkloadState /\ held \in 0..HysteresisTicks
      /\ placed \in WorkloadState
  BY DecayConfig DEF Workload, Placed, WorkloadState
<1>a. \A s : [wl EXCEPT !.state = s] = Moved(wl, s, held)
  BY DEF Workload, Moved
<1>b. wl = Moved(wl, wl.state, held)
  BY DEF Workload, Moved
<1>c. \A h : [wl EXCEPT !.hysteresis = h] = Moved(wl, wl.state, h)
  BY DEF Workload, Moved
<1>1. CASE wl.observed \/ wl.state = "DISCOVERED"
  <2>1. t = Moved(wl, placed, held)
    BY <1>1, <1>a DEF Tick
  <2> QED BY <2>1, <1>0
<1>2. CASE ~wl.observed /\ wl.state = "ACTIVE"
  <2> DEFINE h == IF shown THEN 0 ELSE IF held = 0 THEN HysteresisTicks ELSE held
  <2>1. t = Moved(wl, placed, h)
    BY <1>2 DEF Tick, TickActive, Moved
  <2>2. h \in 0..HysteresisTicks
    BY <1>0
  <2> QED BY <2>1, <2>2, <1>0
<1>3. CASE ~wl.observed /\ wl.state = "BACKGROUND_EXECUTING"
  <2>1. \/ t = Moved(wl, "ACTIVE", 0)
        \/ held > 0 /\ t = Moved(wl, wl.state, held - 1)
        \/ t = Moved(wl, "IDLE", held)
        \/ t = Moved(wl, wl.state, held)
    BY <1>3, <1>a, <1>b, <1>c DEF Tick, TickBackground, Moved
  <2> QED BY <2>1, <1>0 DEF WorkloadState
<1>4. CASE ~wl.observed /\ wl.state = "IDLE"
  <2>1. \E s \in WorkloadState : t = [wl EXCEPT !.state = s]
    BY <1>4, <1>0 DEF Tick, TickIdle, WorkloadState
  <2> QED BY <2>1, <1>a, <1>0
<1>5. CASE ~wl.observed /\ wl.state \in {"AGING", "RECLAIMABLE"}
  <2>1. \E s \in WorkloadState : t = [wl EXCEPT !.state = s]
    BY <1>5, <1>0 DEF Tick, TickDecayed, WorkloadState
  <2> QED BY <2>1, <1>a, <1>0
<1>6. CASE ~wl.observed /\ wl.state = "TERMINATED"
  <2>1. t = Moved(wl, wl.state, held)
    BY <1>6, <1>b DEF Tick
  <2> QED BY <2>1, <1>0
<1> QED BY <1>0, <1>1, <1>2, <1>3, <1>4, <1>5, <1>6 DEF WorkloadState, Workload

LEMMA MovedType ==
  ASSUME NEW wl \in Workload, NEW s \in WorkloadState, NEW h \in 0..HysteresisTicks
  PROVE  /\ Moved(wl, s, h) \in Workload
         /\ Moved(wl, s, h).state = s
         /\ Moved(wl, s, h).pids = wl.pids /\ Moved(wl, s, h).age = wl.age
         /\ Moved(wl, s, h).type = wl.type /\ Moved(wl, s, h).observed = wl.observed
         /\ Moved(wl, s, h).ai_owned = wl.ai_owned
         /\ Moved(wl, s, h).workspace_id = wl.workspace_id
         /\ Moved(wl, s, h).root_pid = wl.root_pid
  BY DEF Moved, Workload

LEMMA TickType ==
  ASSUME NEW wl \in Workload, NEW shown \in BOOLEAN,
         NEW activity \in ActivityState, NEW pressure \in PressureLevel
  PROVE  LET t == Tick(wl, shown, activity, pressure)
         IN  /\ t \in Workload
             /\ t.pids = wl.pids /\ t.age = wl.age
             /\ t.type = wl.type /\ t.observed = wl.observed
             /\ t.ai_owned = wl.ai_owned /\ t.workspace_id = wl.workspace_id
  BY TickMoves, MovedType

\* What a driven workload is ticked with.
LEMMA TickInputs ==
  ASSUME TypeOK, NEW i \in Registered
  PROVE  /\ workloads[i] \in Workload
         /\ Shown(i) \in BOOLEAN
         /\ Aggregate(workloads[i], snap) \in ActivityState
         /\ snap.pressure \in PressureLevel
  BY DEF TypeOK, Shown, Aggregate, ActivityState, Snapshot, Registered

LEMMA TickedType ==
  ASSUME TypeOK, NEW i \in Registered
  PROVE  /\ Ticked(i) \in Workload
         /\ Ticked(i).pids = workloads[i].pids /\ Ticked(i).age = workloads[i].age
         /\ Ticked(i).type = workloads[i].type /\ Ticked(i).observed = workloads[i].observed
         /\ Ticked(i).ai_owned = workloads[i].ai_owned
         /\ Ticked(i).workspace_id = workloads[i].workspace_id
  BY TickInputs, TickType DEF Ticked

LEMMA SignalType ==
  ASSUME KernelTypeOK, NEW ps \in SUBSET Pids
  PROVE  Sigcont(ps) \in [Pids -> RunState] /\ Sigstop(ps) \in [Pids -> RunState]
  BY DEF KernelTypeOK, Sigcont, Sigstop, RunState

LEMMA ApplyType ==
  ASSUME KernelTypeOK, NEW wl \in Workload, NEW decision, Apply(wl, decision)
  PROVE  KernelTypeOK'
<1>1. wl.pids \in SUBSET Pids
  BY DEF Workload
<1>2. run' \in [Pids -> RunState] /\ frozenSlice' \subseteq Pids /\ frozen' \in BOOLEAN
  BY <1>1, SignalType
     DEF Apply, ApplyBlocked, ApplyKeepFull, ApplyKeepBackground, ApplyThrottle,
         ApplyFreeze, Movable, KernelTypeOK
<1> QED BY <1>2 DEF Apply, KernelTypeOK

LEMMA DieType ==
  ASSUME KernelTypeOK, NEW ps \in SUBSET Pids, Die(ps), UNCHANGED <<frozen, explicit>>
  PROVE  KernelTypeOK'
  BY DEF KernelTypeOK, Die, RunState, ProcessKind

-----------------------------------------------------------------------------
\* Type correctness.

LEMMA ForgetType ==
  ASSUME TypeOK, Forget, UNCHANGED onScreen,
         run' \in [Pids -> RunState], frozen' \in BOOLEAN,
         UNCHANGED <<kind, working, frozenSlice>>
  PROVE  TypeOK'
<1>1. Registered' = {} /\ workloads' \in [Registered' -> Workload]
  BY DEF Forget, Registered
<1>2. KernelTypeOK'
  BY DEF TypeOK, KernelTypeOK, Forget
<1>3. snap' \in Snapshot
  BY DEF Forget, NoSnap, Snapshot, PressureLevel, NORMAL, CRITICAL
<1> QED BY <1>1, <1>2, <1>3 DEF Forget, TypeOK, PC

LEMMA InitType == Init => TypeOK
<1> SUFFICES ASSUME Init PROVE TypeOK
  OBVIOUS
<1>1. Registered = {} /\ workloads \in [Registered -> Workload]
  BY DEF Init, Registered
<1>2. KernelTypeOK
  BY DEF Init, KernelTypeOK, RunState, ProcessKind
<1>3. snap \in Snapshot
  BY DEF Init, NoSnap, Snapshot, PressureLevel, NORMAL, CRITICAL
<1> QED BY <1>1, <1>2, <1>3 DEF Init, TypeOK, PC

LEMMA StartType == TypeOK /\ Start => TypeOK'
<1> SUFFICES ASSUME TypeOK, Start PROVE TypeOK'
  OBVIOUS
<1> PICK groups \in [Pids -> Ids \union {None}], roots \in [Ids -> Pids] :
      workloads' = Bootstrapped(groups, roots) /\ owner' = groups
  BY DEF Start
<1>1. Registered' \subseteq Ids /\ workloads' \in [Registered' -> Workload]
  <2>1. Registered' = {groups[p] : p \in Pids} \ {None}
    BY DEF Registered, Bootstrapped
  <2>2. ASSUME NEW i \in Registered' PROVE workloads'[i] \in Workload
    <3>1. i \in Ids /\ roots[i] \in Pids
      BY <2>1
    <3> QED BY <2>1, <3>1, DecayConfig
            DEF Bootstrapped, Workload, WorkloadType, WorkloadState
  <2> QED BY <2>1, <2>2 DEF Bootstrapped, Registered
<1>2. KernelTypeOK'
  <2>1. run' \in [Pids -> RunState]
    BY DaemonConfig, SignalType DEF Start, Swept, TypeOK
  <2> QED BY <2>1 DEF Start, TypeOK, KernelTypeOK
<1> QED BY <1>1, <1>2 DEF Start, TypeOK, PC

LEMMA ShutdownType == TypeOK /\ Shutdown => TypeOK'
<1> SUFFICES ASSUME TypeOK, Shutdown PROVE TypeOK'
  OBVIOUS
<1>1. run' \in [Pids -> RunState]
  BY DEF Shutdown, Sigcont, TypeOK, KernelTypeOK, RunState
<1> QED BY <1>1, ForgetType DEF Shutdown

LEMMA CrashType == TypeOK /\ Crash => TypeOK'
  BY ForgetType DEF Crash, TypeOK, KernelTypeOK

LEMMA BeginTickType == TypeOK /\ BeginTick => TypeOK'
<1> SUFFICES ASSUME TypeOK, BeginTick PROVE TypeOK'
  OBVIOUS
<1>1. Cardinality({i \in Registered : workloads[i].observed}) \in Nat
  BY DaemonConfig, FS_Subset, FS_CardinalityType DEF TypeOK
<1>2. PICK pressure \in Pressures :
        snap' = [NoSnap EXCEPT !.graph = {p \in Pids : run[p] # "absent"},
                               !.zomb = {p \in Pids : run[p] = "zombie"},
                               !.shown = onScreen, !.pressure = pressure,
                               !.observed = Cardinality({i \in Registered :
                                                           workloads[i].observed})]
  BY DEF BeginTick
<1>3. pressure \in PressureLevel /\ onScreen \subseteq Workspaces
  BY DaemonConfig DEF TypeOK
<1>4. snap' \in Snapshot /\ snap'.graph \subseteq Pids
  BY <1>1, <1>2, <1>3 DEF NoSnap, Snapshot
<1> QED BY <1>4 DEF BeginTick, TypeOK, KernelTypeOK, kernelVars, PC, Registered

LEMMA NewWorkloadType ==
  ASSUME NEW p \in Pids, NEW c \in Profiles \union {Neutral}, NEW observed \in BOOLEAN,
         NEW ws \in Workspaces \union {Headless}
  PROVE  /\ NewWorkload(p, c, observed, ws) \in Workload
         /\ NewWorkload(p, c, observed, ws).pids = {p}
         /\ NewWorkload(p, c, observed, ws).observed = observed
         /\ NewWorkload(p, c, observed, ws).age = 0
         /\ NewWorkload(p, c, observed, ws).state = "DISCOVERED"
<1>1. c.type \in WorkloadType /\ c.ai_owned \in BOOLEAN /\ c.is_browser_root \in BOOLEAN
  <2>1. CASE c \in Profiles
    <3>1. c \in Profile
      BY <2>1, DaemonConfig
    <3> QED BY <3>1 DEF Profile
  <2>2. CASE c = Neutral
    BY <2>2 DEF Neutral, WorkloadType
  <2> QED BY <2>1, <2>2
<1>2. 0 \in 0..HysteresisTicks /\ 0 \in Nat
  BY DecayConfig
<1> QED BY <1>1, <1>2 DEF NewWorkload, Workload, WorkloadState

LEMMA FoundType ==
  ASSUME TypeOK, NEW p \in Pids, NEW i \in FreshIds, NEW wl \in Workload, Found(p, i, wl)
  PROVE  /\ Registered' = Registered \union {i}
         /\ workloads' \in [Registered' -> Workload]
         /\ Registered' \subseteq Ids
         /\ owner' \in [Pids -> Ids \union {None}]
  BY DEF Found, FreshIds, TypeOK, Registered

LEMMA ClassificationType == TypeOK /\ Classification => TypeOK'
<1> SUFFICES ASSUME TypeOK, Classification PROVE TypeOK'
  OBVIOUS
<1> USE DEF Visited, kernelVars
<1> PICK p \in todo : \/ Pass(p)
                      \/ \E c \in Profiles : Reclassify(p, c)
                      \/ \E ws \in Workspaces \union {Headless} :
                           (\E c \in Profiles : Discover(p, c, ws)) \/ Observe(p, ws)
  BY DEF Classification
<1>1. CASE Pass(p)
  BY <1>1 DEF Pass, Classifies, TypeOK, KernelTypeOK, Registered
<1>2. ASSUME NEW c \in Profiles, Reclassify(p, c) PROVE TypeOK'
  <2>1. c.type \in WorkloadType /\ c.is_browser_root \in BOOLEAN
    BY DaemonConfig DEF Profile
  <2> DEFINE i == owner[p]
             wl == [workloads[i] EXCEPT !.type = c.type, !.observed = FALSE,
                      !.is_browser_root = c.is_browser_root, !.is_reclassifiable = FALSE]
  <2>2. i \in Registered /\ workloads' = [workloads EXCEPT ![i] = wl]
    BY <1>2 DEF Reclassify, Retried
  <2>3. wl \in Workload
    <3>1. workloads[i] \in Workload
      BY <2>2 DEF TypeOK
    <3> QED BY <2>1, <3>1 DEF Workload
  <2>4. Registered' = Registered /\ workloads' \in [Registered -> Workload]
    BY <2>2, <2>3 DEF TypeOK, Registered
  <2> QED BY <1>2, <2>4 DEF Reclassify, Classifies, TypeOK, KernelTypeOK
<1>3. ASSUME NEW ws \in Workspaces \union {Headless}, NEW c \in Profiles,
             Discover(p, c, ws)
      PROVE  TypeOK'
  <2>1. p \in Pids
    BY <1>3 DEF Discover, Unassigned, Classifies, TypeOK
  <2>2. PICK i \in FreshIds : Found(p, i, NewWorkload(p, c, FALSE, ws))
    BY <1>3 DEF Discover
  <2>3. NewWorkload(p, c, FALSE, ws) \in Workload
    BY <2>1, NewWorkloadType
  <2>4. /\ Registered' \subseteq Ids /\ workloads' \in [Registered' -> Workload]
        /\ owner' \in [Pids -> Ids \union {None}]
    BY <2>1, <2>2, <2>3, FoundType
  <2> QED BY <1>3, <2>4 DEF Discover, Unassigned, Classifies, TypeOK, KernelTypeOK
<1>4. ASSUME NEW ws \in Workspaces \union {Headless}, Observe(p, ws) PROVE TypeOK'
  <2>1. p \in Pids
    BY <1>4 DEF Observe, Unassigned, Classifies, TypeOK
  <2>2. PICK i \in FreshIds : Found(p, i, NewWorkload(p, Neutral, TRUE, ws))
    BY <1>4 DEF Observe
  <2>3. NewWorkload(p, Neutral, TRUE, ws) \in Workload
    BY <2>1, NewWorkloadType
  <2>4. /\ Registered' \subseteq Ids /\ workloads' \in [Registered' -> Workload]
        /\ owner' \in [Pids -> Ids \union {None}]
    BY <2>1, <2>2, <2>3, FoundType
  <2>5. snap' \in Snapshot
    BY <1>4 DEF Observe, Snapshot, TypeOK
  <2> QED BY <1>4, <2>4, <2>5 DEF Observe, Unassigned, Classifies, TypeOK, KernelTypeOK
<1> QED BY <1>1, <1>2, <1>3, <1>4

LEMMA StartDriveType == TypeOK /\ StartDrive => TypeOK'
<1> SUFFICES ASSUME TypeOK, StartDrive PROVE TypeOK'
  OBVIOUS
<1>1. /\ snap.graph \intersect (working \ snap.zomb) \subseteq Pids
      /\ {i \in Registered : workloads[i].state \in {"ACTIVE", "BACKGROUND_EXECUTING"}}
           \subseteq Ids
      /\ snap.graph \subseteq Pids
  BY DEF TypeOK, Snapshot
<1>2. snap' \in Snapshot
  BY <1>1 DEF StartDrive, TypeOK, Snapshot
<1> QED BY <1>1, <1>2 DEF StartDrive, TypeOK, KernelTypeOK, kernelVars, PC, Registered

LEMMA DriveType == ASSUME TypeOK, NEW i \in todo, Drive(i) PROVE TypeOK'
<1>1. i \in Registered /\ pc = "drive"
  BY DEF Drive, TypeOK
<1>2. Registered' = Registered /\ workloads' \in [Registered -> Workload]
  BY <1>1, TickedType DEF Drive, TypeOK, Registered
<1>3. KernelTypeOK'
  <2>1. CASE UNCHANGED kernelVars
    BY <2>1 DEF kernelVars, TypeOK, KernelTypeOK
  <2>2. CASE Apply(Ticked(i), Decision(i, Ticked(i)))
    BY <2>2, <1>1, TickedType, ApplyType DEF TypeOK
  <2> QED BY <2>1, <2>2 DEF Drive
<1>4. CASE pc' = "grace" /\ cur' = i /\ UNCHANGED todo
  BY <1>1, <1>2, <1>3, <1>4 DEF Drive, TypeOK, PC
<1>5. CASE todo' = todo \ {i} /\ UNCHANGED <<pc, cur>>
  BY <1>1, <1>2, <1>3, <1>5 DEF Drive, TypeOK
<1> QED BY <1>4, <1>5 DEF Drive

LEMMA RecheckType == TypeOK /\ Recheck => TypeOK'
<1> SUFFICES ASSUME TypeOK, Recheck PROVE TypeOK'
  OBVIOUS
<1>1. cur \in todo /\ cur \in Registered /\ pc = "grace"
  BY DEF Recheck, TypeOK
<1> QED BY <1>1 DEF Recheck, TypeOK, KernelTypeOK, kernelVars, PC, Registered

LEMMA KillType == TypeOK /\ Kill => TypeOK'
<1> SUFFICES ASSUME TypeOK, Kill PROVE TypeOK'
  OBVIOUS
<1>1. cur \in Registered /\ workloads[cur] \in Workload
  BY DEF Kill, TypeOK
<1>2. Killed(workloads[cur].pids) \subseteq Pids
  BY <1>1 DEF Workload, Killed
<1>3. KernelTypeOK'
  BY <1>2, DieType DEF Kill, TypeOK
<1>4. [workloads[cur] EXCEPT !.state = "TERMINATED"] \in Workload
  BY <1>1 DEF Workload, WorkloadState
<1>5. Registered' = Registered /\ workloads' \in [Registered -> Workload]
  BY <1>1, <1>4 DEF Kill, TypeOK, Registered
<1> QED BY <1>3, <1>5 DEF Kill, TypeOK, PC

LEMMA EndTickType == TypeOK /\ EndTick => TypeOK'
<1> SUFFICES ASSUME TypeOK, EndTick PROVE TypeOK'
  OBVIOUS
<1>1. Registered' = Kept /\ Kept \subseteq Registered
  BY DEF EndTick, Kept, Registered
<1>2. ASSUME NEW i \in Kept PROVE [workloads[i] EXCEPT !.pids = Pruned(i)] \in Workload
  <2>1. workloads[i] \in Workload /\ Pruned(i) \subseteq Pids
    BY <1>1, <1>2 DEF TypeOK, Pruned, Workload
  <2> QED BY <2>1 DEF Workload
<1>3. workloads' \in [Registered' -> Workload]
  BY <1>1, <1>2 DEF EndTick
<1>4. snap' \in Snapshot
  BY DEF EndTick, NoSnap, Snapshot, PressureLevel, NORMAL, CRITICAL
<1>5. KernelTypeOK' /\ owner' \in [Pids -> Ids \union {None}]
  BY DEF EndTick, TypeOK, KernelTypeOK, kernelVars
<1> QED BY <1>1, <1>3, <1>4, <1>5 DEF EndTick, TypeOK, PC

LEMMA EnvironmentType == TypeOK /\ Environment => TypeOK'
<1> SUFFICES ASSUME TypeOK, Environment PROVE TypeOK'
  OBVIOUS
<1> USE DEF daemonVars, kernelVars
<1>1. ASSUME KernelTypeOK', UNCHANGED daemonVars, UNCHANGED onScreen PROVE TypeOK'
  BY <1>1 DEF TypeOK, Registered
<1>2. ASSUME NEW p \in Pids, NEW k \in Kinds, NEW inSlice \in BOOLEAN, Spawn(p, k, inSlice)
      PROVE  TypeOK'
  BY <1>1, <1>2, ProcessKinds DEF Spawn, TypeOK, KernelTypeOK, RunState
<1>3. ASSUME NEW p \in Pids, NEW k \in Kinds, Exec(p, k) PROVE TypeOK'
  BY <1>1, <1>3, ProcessKinds DEF Exec, TypeOK, KernelTypeOK
<1>4. ASSUME NEW p \in Pids, Exit(p) PROVE TypeOK'
  BY <1>1, <1>4, DieType DEF Exit, TypeOK
<1>5. ASSUME NEW p \in Pids, Reap(p) PROVE TypeOK'
  BY <1>1, <1>5 DEF Reap, TypeOK, KernelTypeOK, RunState
<1>6. ASSUME NEW p \in Pids, Toggle(p) PROVE TypeOK'
  BY <1>1, <1>6 DEF Toggle, TypeOK, KernelTypeOK
<1>7. ASSUME NEW w \in Workspaces, Switch(w) PROVE TypeOK'
  BY <1>7 DEF Switch, TypeOK, KernelTypeOK, Registered
<1>8. ASSUME NEW i \in Registered, Elapse(i) PROVE TypeOK'
  <2>1. workloads[i] \in Workload
    BY DEF TypeOK
  <2>2. [workloads[i] EXCEPT !.age = @ + 1] \in Workload
    BY <2>1 DEF Workload
  <2>3. Registered' = Registered /\ workloads' \in [Registered -> Workload]
    BY <1>8, <2>2 DEF Elapse, TypeOK, Registered
  <2> QED BY <1>8, <2>3 DEF Elapse, TypeOK, KernelTypeOK
<1> QED BY <1>2, <1>3, <1>4, <1>5, <1>6, <1>7, <1>8 DEF Environment

\* Every variable of the daemon and of the process table keeps its type: no
\* step registers a workload without a valid record, drives one that is not
\* registered, or sleeps inside reclaim() without a workload to return to.
THEOREM TypeCorrect == Spec => []TypeOK
<1>1. TypeOK /\ [Next]_vars => TypeOK'
  <2> SUFFICES ASSUME TypeOK, [Next]_vars PROVE TypeOK'
    OBVIOUS
  <2>1. CASE DaemonStep
    BY <2>1, BeginTickType, ClassificationType, StartDriveType, DriveType,
       RecheckType, KillType, EndTickType DEF DaemonStep
  <2>2. CASE UNCHANGED vars
    BY <2>2 DEF vars, kernelVars, daemonVars, TypeOK, KernelTypeOK, Registered
  <2> QED BY <2>1, <2>2, StartType, ShutdownType, CrashType, EnvironmentType DEF Next
<1> QED BY InitType, <1>1, PTL DEF Spec

-----------------------------------------------------------------------------
\* Ownership.

LEMMA OwnershipStep ==
  TypeOK /\ OwnershipConsistent /\ [Next]_vars => OwnershipConsistent'
<1> SUFFICES ASSUME TypeOK, OwnershipConsistent, [Next]_vars PROVE OwnershipConsistent'
  OBVIOUS
\* Most steps keep the owners and every workload's members.
<1> DEFINE Same == /\ owner' = owner /\ Registered' = Registered
                   /\ \A i \in Registered : workloads'[i].pids = workloads[i].pids
<1>0. ASSUME Same PROVE OwnershipConsistent'
  BY <1>0 DEF OwnershipConsistent
<1>1. ASSUME workloads' = <<>> PROVE OwnershipConsistent'
  BY <1>1 DEF OwnershipConsistent, Registered
<1>2. ASSUME NEW p \in Pids, NEW i \in FreshIds, NEW wl, wl.pids = {p},
             owner[p] = None, Found(p, i, wl)
      PROVE  OwnershipConsistent'
  <2>1. Registered' = Registered \union {i} /\ i \notin Registered
    BY <1>2 DEF Found, FreshIds, Registered
  <2>2. workloads'[i] = wl /\ owner'[p] = i
    BY <1>2 DEF Found, TypeOK
  <2>3. ASSUME NEW j \in Registered, NEW q \in workloads'[j].pids PROVE owner'[q] = j
    <3>1. workloads'[j] = workloads[j]
      BY <1>2, <2>1 DEF Found
    <3>2. q \in Pids /\ owner[q] = j /\ j # None
      BY <3>1, <2>3, DaemonConfig DEF TypeOK, Workload, OwnershipConsistent
    <3> QED BY <1>2, <3>2 DEF Found, TypeOK
  <2> QED BY <1>2, <2>1, <2>2, <2>3 DEF OwnershipConsistent
<1>3. CASE Start
  <2> PICK groups \in [Pids -> Ids \union {None}], roots \in [Ids -> Pids] :
        workloads' = Bootstrapped(groups, roots) /\ owner' = groups
    BY <1>3 DEF Start
  <2> QED BY DEF Bootstrapped, OwnershipConsistent, Registered
<1>4. CASE Shutdown \/ Crash
  BY <1>1, <1>4 DEF Shutdown, Crash, Forget
<1>5. CASE Classification
  <2> PICK p \in todo : \/ Pass(p)
                        \/ \E c \in Profiles : Reclassify(p, c)
                        \/ \E ws \in Workspaces \union {Headless} :
                             (\E c \in Profiles : Discover(p, c, ws)) \/ Observe(p, ws)
    BY <1>5 DEF Classification
  <2>1. CASE Pass(p)
    BY <1>0, <2>1 DEF Pass, Registered
  <2>2. ASSUME NEW c \in Profiles, Reclassify(p, c) PROVE OwnershipConsistent'
    <3>1. \A i \in Registered : workloads[i] \in Workload
      BY DEF TypeOK
    <3>2. Same
      BY <2>2, <3>1 DEF Reclassify, Registered, Workload
    <3> QED BY <3>2, <1>0
  <2>3. ASSUME NEW ws \in Workspaces \union {Headless}, NEW c \in Profiles,
               Discover(p, c, ws)
        PROVE  OwnershipConsistent'
    <3>1. p \in Pids /\ owner[p] = None
      BY <2>3 DEF Discover, Unassigned, Classifies, TypeOK
    <3>2. NewWorkload(p, c, FALSE, ws).pids = {p}
      BY DEF NewWorkload
    <3>3. PICK i \in FreshIds : Found(p, i, NewWorkload(p, c, FALSE, ws))
      BY <2>3 DEF Discover
    <3> QED BY <3>1, <3>2, <3>3, <1>2
  <2>4. ASSUME NEW ws \in Workspaces \union {Headless}, Observe(p, ws)
        PROVE  OwnershipConsistent'
    <3>1. p \in Pids /\ owner[p] = None
      BY <2>4 DEF Observe, Unassigned, Classifies, TypeOK
    <3>2. NewWorkload(p, Neutral, TRUE, ws).pids = {p}
      BY DEF NewWorkload
    <3>3. PICK i \in FreshIds : Found(p, i, NewWorkload(p, Neutral, TRUE, ws))
      BY <2>4 DEF Observe
    <3> QED BY <3>1, <3>2, <3>3, <1>2
  <2> QED BY <2>1, <2>2, <2>3, <2>4
<1>6. ASSUME NEW i \in todo, Drive(i) PROVE OwnershipConsistent'
  <2>1. i \in Registered
    BY <1>6 DEF Drive, TypeOK
  <2> QED BY <2>1, <1>0, <1>6, TickedType DEF Drive, TypeOK, Registered
<1>7. CASE Kill
  <2>1. \A i \in Registered : workloads[i] \in Workload
    BY DEF TypeOK
  <2> QED BY <1>0, <1>7, <2>1 DEF Kill, Registered, Workload
<1>8. CASE EndTick
  <2> SUFFICES ASSUME NEW i \in Registered', NEW p \in workloads'[i].pids
               PROVE  owner'[p] = i
    BY DEF OwnershipConsistent
  <2>1. i \in Registered /\ workloads[i] \in Workload
    BY <1>8 DEF EndTick, Kept, Registered, TypeOK
  <2>2. p \in workloads[i].pids /\ p \in snap.graph
    BY <1>8, <2>1 DEF EndTick, Pruned, Workload, Registered
  <2>3. p \in Pids
    BY <2>1, <2>2 DEF Workload
  <2> QED BY <1>8, <2>1, <2>2, <2>3 DEF EndTick, OwnershipConsistent
<1>9. CASE BeginTick \/ StartDrive \/ Recheck \/ UNCHANGED vars
  BY <1>0, <1>9 DEF BeginTick, StartDrive, Recheck, vars, daemonVars, Registered
<1>10. CASE Environment
  <2>1. ASSUME NEW i \in Registered, Elapse(i) PROVE OwnershipConsistent'
    <3>1. \A j \in Registered : workloads[j] \in Workload
      BY DEF TypeOK
    <3> QED BY <1>0, <2>1, <3>1 DEF Elapse, Registered, Workload
  <2>2. CASE UNCHANGED daemonVars
    BY <1>0, <2>2 DEF daemonVars, Registered
  <2> QED BY <1>10, <2>1, <2>2 DEF Environment, Spawn, Exec, Exit, Reap, Toggle, Switch
<1> QED BY <1>3, <1>4, <1>5, <1>6, <1>7, <1>8, <1>9, <1>10 DEF Next, DaemonStep

\* A workload only signals processes that pid_to_wl_ gives to it, through every
\* recycling of process numbers and ids.
THEOREM OwnershipCorrect == Spec => []OwnershipConsistent
<1>1. Init => OwnershipConsistent
  BY DEF Init, OwnershipConsistent, Registered
<1> QED BY <1>1, OwnershipStep, TypeCorrect, PTL DEF Spec

-----------------------------------------------------------------------------
\* Reclaim: what is true of the workload inside reclaim().

\* The two facts about single ticks and decisions that make it so.
LEMMA TickToReclaimable ==
  ASSUME NEW wl \in Workload, NEW shown \in BOOLEAN, NEW activity, NEW pressure,
         Tick(wl, shown, activity, pressure).state = "RECLAIMABLE"
  PROVE  ~shown /\ (wl.state = "RECLAIMABLE" \/ wl.age >= HardAge)
<1> DEFINE t == Tick(wl, shown, activity, pressure)
<1>0. wl.state \in WorkloadState /\ Placed(shown, activity) # "RECLAIMABLE"
  BY DEF Workload, Placed
<1>a. \A s : [wl EXCEPT !.state = s].state = s
  BY DEF Workload
<1>1. ~(wl.observed \/ wl.state = "DISCOVERED")
  BY <1>0, <1>a DEF Tick
<1>2. wl.state # "ACTIVE"
  BY <1>0, <1>1, <1>a DEF Tick, TickActive, Workload
<1>3. wl.state # "BACKGROUND_EXECUTING"
  <2> SUFFICES ASSUME wl.state = "BACKGROUND_EXECUTING" PROVE FALSE
    OBVIOUS
  <2>1. t = TickBackground(wl, shown, activity)
    BY <1>1 DEF Tick
  <2>2. t.state \in {"ACTIVE", "BACKGROUND_EXECUTING", "IDLE"}
    BY <2>1 DEF TickBackground, Workload
  <2> QED BY <2>2
<1>4. wl.state # "IDLE"
  BY <1>1, <1>a DEF Tick, TickIdle
<1>5. CASE wl.state \in {"AGING", "RECLAIMABLE"}
  BY <1>1, <1>5, <1>a DEF Tick, TickDecayed
<1>6. CASE wl.state = "TERMINATED"
  BY <1>1, <1>6 DEF Tick
<1> QED BY <1>0, <1>1, <1>2, <1>3, <1>4, <1>5, <1>6 DEF WorkloadState

LEMMA ReclaimDecision ==
  ASSUME NEW wl, NEW shown, NEW activity, NEW pressure \in PressureLevel, NEW protected,
         Evaluate(wl, shown, activity, pressure, protected) = "RECLAIM"
  PROVE  /\ wl.state = "RECLAIMABLE" /\ ~wl.observed /\ ~wl.ai_owned
         /\ wl.type \notin {"SERVICE", "VM"} /\ activity # "EXECUTING" /\ ~protected
  BY DEF Evaluate, HeadlessDecision, BrowserDecision, DecayDecision, PressureLevel,
         NORMAL, MODERATE, HIGH, CRITICAL

\* The hard threshold is passed before a workload becomes RECLAIMABLE...
HardDecayOnly ==
  \A i \in Registered : workloads[i].state = "RECLAIMABLE" => workloads[i].age >= HardAge

\* ...and what made reclaim() start still holds, of the same tick's readings,
\* through both of its sleeps.
Condemned(i) ==
  /\ ~Immune(workloads[i]) /\ ~workloads[i].ai_owned /\ workloads[i].age >= HardAge
  /\ ~Shown(i) /\ CheckNotExecuting(workloads[i], snap)

ReclaimSound == pc \in {"grace", "term"} => Condemned(cur)

ReclaimInv == HardDecayOnly /\ ReclaimSound

LEMMA DriveReclaim ==
  ASSUME TypeOK, ReclaimInv, NEW i \in todo, Drive(i)
  PROVE  ReclaimInv'
<1>1. i \in Registered /\ pc = "drive" /\ workloads[i] \in Workload
  BY DEF Drive, TypeOK
<1>2. /\ Registered' = Registered /\ workloads'[i] = Ticked(i)
      /\ \A j \in Registered \ {i} : workloads'[j] = workloads[j]
  BY <1>1 DEF Drive, TypeOK, Registered
<1>3. Ticked(i).state = "RECLAIMABLE" => Ticked(i).age >= HardAge /\ ~Shown(i)
  BY <1>1, TickInputs, TickedType, TickToReclaimable DEF Ticked, ReclaimInv, HardDecayOnly
<1>4. HardDecayOnly'
  BY <1>2, <1>3 DEF ReclaimInv, HardDecayOnly
<1>5. ASSUME pc' \in {"grace", "term"} PROVE Condemned(cur)'
  <2>1. ~workloads[i].observed /\ Decision(i, Ticked(i)) = "RECLAIM" /\ cur' = i
    BY <1>1, <1>5 DEF Drive
  <2>2. /\ Ticked(i).state = "RECLAIMABLE" /\ ~Ticked(i).observed /\ ~Ticked(i).ai_owned
        /\ Ticked(i).type \notin {"SERVICE", "VM"}
        /\ Aggregate(Ticked(i), snap) # "EXECUTING"
    BY <2>1, <1>1, TickInputs, ReclaimDecision DEF Decision
  <2>3. Shown(i)' = Shown(i)
    BY <1>1, <1>2, TickedType DEF Shown, Drive
  <2>4. CheckNotExecuting(workloads[i], snap)'
    BY <1>2, <2>2 DEF CheckNotExecuting, Aggregate, Drive
  <2> QED BY <1>2, <1>3, <2>1, <2>2, <2>3, <2>4 DEF Condemned, Immune
<1> QED BY <1>4, <1>5 DEF ReclaimInv, ReclaimSound

LEMMA ReclaimStep == TypeOK /\ ReclaimInv /\ [Next]_vars => ReclaimInv'
<1> SUFFICES ASSUME TypeOK, ReclaimInv, [Next]_vars PROVE ReclaimInv'
  OBVIOUS
<1> USE DEF ReclaimInv
<1>0. ASSUME UNCHANGED <<pc, workloads, snap, cur>> PROVE ReclaimInv'
  BY <1>0 DEF HardDecayOnly, ReclaimSound, Condemned, Immune, Shown, CheckNotExecuting,
              Aggregate, Registered
\* Outside reclaim() only the first conjunct is at stake.
<1>1. ASSUME pc' \notin {"grace", "term"}, Registered' \subseteq Registered,
             \A i \in Registered' : /\ workloads'[i].state \in {workloads[i].state, "TERMINATED"}
                                    /\ workloads'[i].age = workloads[i].age
      PROVE  ReclaimInv'
  BY <1>1 DEF HardDecayOnly, ReclaimSound
<1>2. ASSUME NEW p \in Pids, NEW i \in FreshIds, NEW wl, wl.state = "DISCOVERED",
             Found(p, i, wl), pc' = "classify"
      PROVE  ReclaimInv'
  BY <1>2 DEF Found, HardDecayOnly, ReclaimSound, Registered
<1>3. CASE Start
  <2>1. \A i \in Registered' : workloads'[i].state = "DISCOVERED"
    BY <1>3 DEF Start, Bootstrapped, Registered
  <2> QED BY <1>3, <2>1 DEF Start, HardDecayOnly, ReclaimSound
<1>4. CASE Shutdown \/ Crash
  <2>1. Registered' = {} /\ pc' = "down"
    BY <1>4 DEF Shutdown, Crash, Forget, Registered
  <2> QED BY <2>1 DEF HardDecayOnly, ReclaimSound
<1>5. CASE Classification
  <2> PICK p \in todo : \/ Pass(p)
                        \/ \E c \in Profiles : Reclassify(p, c)
                        \/ \E ws \in Workspaces \union {Headless} :
                             (\E c \in Profiles : Discover(p, c, ws)) \/ Observe(p, ws)
    BY <1>5 DEF Classification
  <2> USE DEF Classifies, Visited
  <2>1. CASE Pass(p)
    BY <1>0, <2>1 DEF Pass
  <2>2. ASSUME NEW c \in Profiles, Reclassify(p, c) PROVE ReclaimInv'
    <3>1. \A i \in Registered : workloads[i] \in Workload
      BY DEF TypeOK
    <3> QED BY <1>1, <2>2, <3>1 DEF Reclassify, Registered, Workload
  <2>3. ASSUME NEW ws \in Workspaces \union {Headless}, NEW c \in Profiles,
               Discover(p, c, ws)
        PROVE  ReclaimInv'
    <3>1. p \in Pids /\ pc' = "classify"
      BY <2>3 DEF Discover, Unassigned, TypeOK
    <3>2. PICK i \in FreshIds : Found(p, i, NewWorkload(p, c, FALSE, ws))
      BY <2>3 DEF Discover
    <3> QED BY <1>2, <3>1, <3>2 DEF NewWorkload
  <2>4. ASSUME NEW ws \in Workspaces \union {Headless}, Observe(p, ws)
        PROVE  ReclaimInv'
    <3>1. p \in Pids /\ pc' = "classify"
      BY <2>4 DEF Observe, Unassigned, TypeOK
    <3>2. PICK i \in FreshIds : Found(p, i, NewWorkload(p, Neutral, TRUE, ws))
      BY <2>4 DEF Observe
    <3> QED BY <1>2, <3>1, <3>2 DEF NewWorkload
  <2> QED BY <2>1, <2>2, <2>3, <2>4
<1>6. ASSUME NEW i \in todo, Drive(i) PROVE ReclaimInv'
  BY <1>6, DriveReclaim
<1>7. CASE Recheck
  <2>1. UNCHANGED <<workloads, snap>> /\ (pc' = "term" => pc = "grace" /\ cur' = cur)
    BY <1>7 DEF Recheck
  <2>2. pc' \in {"term", "drive"}
    BY <1>7 DEF Recheck
  <2> QED BY <2>1, <2>2
          DEF HardDecayOnly, ReclaimSound, Condemned, Immune, Shown, CheckNotExecuting,
              Aggregate, Registered
<1>8. CASE Kill
  <2>1. \A i \in Registered : workloads[i] \in Workload
    BY DEF TypeOK
  <2>2. cur \in Registered
    BY <1>8 DEF Kill, TypeOK
  <2> QED BY <1>1, <1>8, <2>1, <2>2 DEF Kill, Registered, Workload
<1>9. CASE EndTick
  <2>1. \A i \in Registered : workloads[i] \in Workload
    BY DEF TypeOK
  <2> QED BY <1>1, <1>9, <2>1 DEF EndTick, Kept, Registered, Workload
<1>10. CASE BeginTick \/ StartDrive
  BY <1>1, <1>10 DEF BeginTick, StartDrive, Registered
<1>11. ASSUME NEW i \in Registered, Elapse(i) PROVE ReclaimInv'
  <2>1. \A j \in Registered : workloads[j] \in Workload
    BY DEF TypeOK
  <2>2. /\ Registered' = Registered /\ UNCHANGED <<pc, cur, snap>>
        /\ \A j \in Registered :
             /\ workloads'[j] = [workloads[j] EXCEPT !.age = workloads'[j].age]
             /\ workloads'[j].age >= workloads[j].age /\ workloads'[j].age \in Nat
    BY <1>11, <2>1 DEF Elapse, Registered, Workload
  <2>3. \A j \in Registered : /\ workloads'[j].state = workloads[j].state
                              /\ workloads'[j].pids = workloads[j].pids
                              /\ workloads'[j].type = workloads[j].type
                              /\ workloads'[j].observed = workloads[j].observed
                              /\ workloads'[j].ai_owned = workloads[j].ai_owned
                              /\ workloads'[j].workspace_id = workloads[j].workspace_id
    BY <2>1, <2>2 DEF Workload
  <2>4. \A j \in Registered :
          workloads[j].age >= HardAge => workloads'[j].age >= HardAge
    <3> TAKE j \in Registered
    <3> DEFINE before == workloads[j].age
               after == workloads'[j].age
    <3>1. before \in Nat
      BY <2>1 DEF Workload
    <3>2. after >= before /\ after \in Nat
      BY <2>2
    <3>3. HardAge \in Nat
      BY DecayConfig
    <3> HIDE DEF before, after
    <3>4. before >= HardAge => after >= HardAge
      BY <3>1, <3>2, <3>3
    <3> QED BY <3>4 DEF before, after
  <2>5. pc \in {"grace", "term"} => cur \in Registered
    BY DEF TypeOK
  <2>6. HardDecayOnly'
    BY <2>2, <2>3, <2>4 DEF HardDecayOnly
  <2>7. ReclaimSound'
    BY <2>2, <2>3, <2>4, <2>5
       DEF ReclaimSound, Condemned, Immune, Shown, CheckNotExecuting, Aggregate
  <2> QED BY <2>6, <2>7
<1>12. CASE Environment
  <2>1. CASE UNCHANGED daemonVars
    BY <1>0, <2>1 DEF daemonVars
  <2> QED BY <1>11, <1>12, <2>1 DEF Environment, Spawn, Exec, Exit, Reap, Toggle, Switch
<1>13. CASE UNCHANGED vars
  BY <1>0, <1>13 DEF vars, daemonVars
<1> QED BY <1>3, <1>4, <1>5, <1>6, <1>7, <1>8, <1>9, <1>10, <1>12, <1>13 DEF Next, DaemonStep

LEMMA ReclaimCorrect == Spec => []ReclaimInv
<1>1. Init => ReclaimInv
  BY DEF Init, ReclaimInv, HardDecayOnly, ReclaimSound, Registered
<1> QED BY <1>1, ReclaimStep, TypeCorrect, PTL DEF Spec

-----------------------------------------------------------------------------
\* Whom a step may harm.

\* Outside the enforcement plane and the last step of reclaim() nobody is harmed.
LEMMA HarmlessSteps ==
  ASSUME TypeOK, [Next]_vars, NEW p \in Pids, Harms(p)
  PROVE  Kill \/ \E i \in todo : Drive(i)
<1> USE DEF Harms, Stops, Confines, Kills, Live
<1>1. ASSUME UNCHANGED <<run, frozenSlice>> PROVE FALSE
  BY <1>1
<1>2. CASE Start
  BY <1>2, DaemonConfig DEF Start, Swept, Sigcont
<1>3. CASE Shutdown
  BY <1>3 DEF Shutdown, Forget, Sigcont
<1>4. CASE Crash \/ BeginTick \/ Classification \/ StartDrive \/ Recheck \/ EndTick
  BY <1>1, <1>4 DEF Crash, BeginTick, Classification, Pass, Reclassify, Discover,
                    Observe, Visited, StartDrive, Recheck, EndTick, kernelVars
<1>5. CASE UNCHANGED vars
  BY <1>1, <1>5 DEF vars, kernelVars
<1>6. CASE Environment
  <2>1. ASSUME NEW q \in Pids, NEW k \in Kinds, NEW inSlice \in BOOLEAN, Spawn(q, k, inSlice)
        PROVE  FALSE
    BY <2>1 DEF Spawn, daemonVars, TypeOK, KernelTypeOK
  <2>2. ASSUME NEW q \in Pids, Exit(q) PROVE FALSE
    BY <2>2 DEF Exit, Die, daemonVars
  <2>3. ASSUME NEW q \in Pids, Reap(q) PROVE FALSE
    BY <2>3 DEF Reap, daemonVars, TypeOK, KernelTypeOK
  <2>4. ASSUME UNCHANGED kernelVars \/ \E q \in Pids : (\E k \in Kinds : Exec(q, k)) \/ Toggle(q)
        PROVE  FALSE
    BY <1>1, <2>4 DEF Exec, Toggle, kernelVars
  <2> QED BY <1>6, <2>1, <2>2, <2>3, <2>4 DEF Environment, Switch, Elapse
<1> QED BY <1>2, <1>3, <1>4, <1>5, <1>6 DEF Next, DaemonStep

\* apply() only harms members of its workload, and only by a FREEZE that the
\* registry has not blocked.
LEMMA ApplyHarms ==
  ASSUME TypeOK, NEW wl \in Workload, NEW decision, Apply(wl, decision), pc' = pc,
         NEW p \in Pids, Harms(p)
  PROVE  p \in wl.pids /\ decision = "FREEZE" /\ ~ProtectedAny(wl.pids)
  BY DEF Harms, Stops, Confines, Kills, Live, Apply, ApplyBlocked, ApplyKeepFull,
         ApplyKeepBackground, ApplyThrottle, ApplyFreeze, Sigcont, Sigstop, Movable,
         TypeOK, KernelTypeOK

LEMMA DriveHarms ==
  ASSUME TypeOK, NEW i \in todo, Drive(i), NEW p \in Pids, Harms(p)
  PROVE  /\ i \in Registered /\ p \in workloads[i].pids
         /\ ~ProtectedAny(workloads[i].pids) /\ ~workloads[i].observed
         /\ Decision(i, Ticked(i)) = "FREEZE"
<1>1. i \in Registered /\ pc = "drive"
  BY DEF Drive, TypeOK
<1>2. Ticked(i) \in Workload /\ Ticked(i).pids = workloads[i].pids
  BY <1>1, TickedType
<1>3. ASSUME UNCHANGED kernelVars PROVE FALSE
  BY <1>1, <1>3 DEF Harms, Stops, Confines, Kills, Live, kernelVars
<1>4. /\ ~workloads[i].observed
      /\ Apply(Ticked(i), Decision(i, Ticked(i))) /\ pc' = pc
  BY <1>3 DEF Drive
<1> QED BY <1>1, <1>2, <1>4, ApplyHarms

LEMMA KillHarms ==
  ASSUME TypeOK, Kill, NEW p \in Pids, Harms(p)
  PROVE  /\ pc = "term" /\ cur \in Registered
         /\ p \in workloads[cur].pids /\ ~Protected(p)
  BY DEF Kill, Harms, Stops, Confines, Kills, Live, Die, Killed, Spared, TypeOK, KernelTypeOK

\* No step of the system stops, confines or kills a process that is protected
\* at that moment.
THEOREM ProtectedSafe == Spec => ProtectedUntouched
<1>1. ASSUME TypeOK, [Next]_vars, NEW p \in Pids, Protected(p) PROVE ~Harms(p)
  <2> SUFFICES ASSUME Harms(p) PROVE FALSE
    OBVIOUS
  <2>1. CASE Kill
    BY <1>1, <2>1, KillHarms
  <2>2. ASSUME NEW i \in todo, Drive(i) PROVE FALSE
    BY <1>1, <2>2, DriveHarms DEF ProtectedAny
  <2> QED BY <1>1, <2>1, <2>2, HarmlessSteps
<1>2. TypeOK /\ [Next]_vars => [\A p \in Pids : Protected(p) => ~Harms(p)]_vars
  BY <1>1
<1> QED BY <1>2, TypeCorrect, PTL DEF Spec, ProtectedUntouched

\* Immune workloads are not frozen by their own decisions...
LEMMA ImmuneDecision ==
  ASSUME NEW wl, wl.type \in {"SERVICE", "VM"} \/ wl.observed,
         NEW shown, NEW activity, NEW pressure, NEW protected
  PROVE  Evaluate(wl, shown, activity, pressure, protected) \notin {"FREEZE", "RECLAIM"}
  BY DEF Evaluate, HeadlessDecision

\* ...and, owning their processes exclusively, not by anyone else's.
THEOREM ImmuneSafe == Spec => ImmuneUntouched
<1>1. ASSUME TypeOK, OwnershipConsistent, ReclaimInv, [Next]_vars,
             NEW j \in Registered, Immune(workloads[j]), NEW p \in workloads[j].pids
      PROVE  ~Harms(p)
  <2> SUFFICES ASSUME Harms(p) PROVE FALSE
    OBVIOUS
  <2>1. p \in Pids /\ owner[p] = j
    BY <1>1 DEF TypeOK, Workload, OwnershipConsistent
  <2>2. CASE Kill
    <3>1. cur = j /\ pc = "term"
      BY <1>1, <2>1, <2>2, KillHarms DEF OwnershipConsistent
    <3> QED BY <1>1, <3>1 DEF ReclaimInv, ReclaimSound, Condemned
  <2>3. ASSUME NEW i \in todo, Drive(i) PROVE FALSE
    <3>1. i = j /\ Decision(i, Ticked(i)) = "FREEZE"
      BY <1>1, <2>1, <2>3, DriveHarms DEF OwnershipConsistent
    <3>2. Immune(Ticked(i))
      BY <1>1, <3>1, TickedType DEF Immune
    <3> QED BY <3>1, <3>2, ImmuneDecision DEF Decision, Immune
  <2> QED BY <1>1, <2>1, <2>2, <2>3, HarmlessSteps
<1>2. TypeOK /\ OwnershipConsistent /\ ReclaimInv /\ [Next]_vars
        => [\A i \in Registered : Immune(workloads[i])
              => \A p \in workloads[i].pids : ~Harms(p)]_vars
  BY <1>1
<1> QED BY <1>2, TypeCorrect, OwnershipCorrect, ReclaimCorrect, PTL DEF Spec, ImmuneUntouched

\* SIGKILL only reaches members of a workload past the hard threshold, not an AI
\* agent's, that was idle and off screen when its tick looked.
THEOREM KillSafe == Spec => KillJustified
<1>1. ASSUME TypeOK, ReclaimInv, [Next]_vars, NEW p \in Pids, Kills(p)
      PROVE  p \in workloads[cur].pids /\ Condemned(cur)
  <2>1. Kill
    <3>1. ASSUME NEW i \in todo, Drive(i) PROVE FALSE
      BY <1>1, <3>1 DEF Kills, Drive
    <3> QED BY <1>1, <3>1, HarmlessSteps DEF Harms
  <2> QED BY <1>1, <2>1, KillHarms DEF Harms, Kills, ReclaimInv, ReclaimSound
<1>2. TypeOK /\ ReclaimInv /\ [Next]_vars =>
        [\A p \in Pids : Kills(p) =>
           /\ p \in workloads[cur].pids
           /\ workloads[cur].age >= HardAge /\ ~workloads[cur].ai_owned
           /\ ~Shown(cur) /\ CheckNotExecuting(workloads[cur], snap)]_vars
  BY <1>1 DEF Condemned
<1> QED BY <1>2, TypeCorrect, ReclaimCorrect, PTL DEF Spec, KillJustified

\* A workload with an executing member keeps running, at full or background rate.
LEMMA ExecutingDecision ==
  ASSUME NEW wl, NEW shown, NEW pressure, NEW protected
  PROVE  Evaluate(wl, shown, "EXECUTING", pressure, protected)
           \in {"KEEP_FULL", "KEEP_BACKGROUND"}
  BY DEF Evaluate, HeadlessDecision

\* No process that the tick found executing is harmed before the tick ends.
THEOREM ExecutingSafe == Spec => ExecutingUntouched
<1>1. ASSUME TypeOK, ReclaimInv, [Next]_vars, NEW p \in snap.exec PROVE ~Harms(p)
  <2> SUFFICES ASSUME Harms(p) PROVE FALSE
    OBVIOUS
  <2>1. p \in Pids
    BY <1>1 DEF TypeOK, Snapshot
  <2>2. \A wl : p \in wl.pids => Aggregate(wl, snap) = "EXECUTING"
    BY <1>1 DEF Aggregate
  <2>3. CASE Kill
    <3>1. pc = "term" /\ p \in workloads[cur].pids
      BY <1>1, <2>1, <2>3, KillHarms
    <3> QED BY <1>1, <2>2, <3>1 DEF ReclaimInv, ReclaimSound, Condemned, CheckNotExecuting
  <2>4. ASSUME NEW i \in todo, Drive(i) PROVE FALSE
    <3>1. /\ i \in Registered /\ p \in workloads[i].pids
          /\ Decision(i, Ticked(i)) = "FREEZE"
      BY <1>1, <2>1, <2>4, DriveHarms
    <3>2. p \in Ticked(i).pids
      BY <1>1, <3>1, TickedType
    <3>3. Aggregate(Ticked(i), snap) = "EXECUTING"
      BY <2>2, <3>2
    <3>4. Decision(i, Ticked(i)) = Evaluate(Ticked(i), Shown(i), "EXECUTING",
                                            snap.pressure, ProtectedAny(Ticked(i).pids))
      BY <3>3 DEF Decision
    <3>5. Decision(i, Ticked(i)) \in {"KEEP_FULL", "KEEP_BACKGROUND"}
      BY <3>4, ExecutingDecision
    <3> QED BY <3>1, <3>5
  <2> QED BY <1>1, <2>1, <2>3, <2>4, HarmlessSteps
<1>2. TypeOK /\ ReclaimInv /\ [Next]_vars => [\A p \in snap.exec : ~Harms(p)]_vars
  BY <1>1
<1> QED BY <1>2, TypeCorrect, ReclaimCorrect, PTL DEF Spec, ExecutingUntouched

-----------------------------------------------------------------------------
\* The limit of observed workloads.

ObservedIds == {i \in Registered : workloads[i].observed}

\* The count of the tick is advanced by hand; promotions only make it too high.
Counted == ObservedBounded /\ (pc = "classify" => Cardinality(ObservedIds) <= snap.observed)

LEMMA ObservedFinite == ASSUME TypeOK PROVE IsFiniteSet(ObservedIds) /\ Cardinality(ObservedIds) \in Nat
<1>1. ObservedIds \subseteq Ids
  BY DEF TypeOK, ObservedIds
<1> QED BY <1>1, DaemonConfig, FS_Subset, FS_CardinalityType

LEMMA NoMoreObserved ==
  ASSUME TypeOK, Counted, ObservedIds' \subseteq ObservedIds,
         pc' = "classify" => pc = "classify" /\ snap'.observed = snap.observed
  PROVE  Counted'
<1>1. Cardinality(ObservedIds') <= Cardinality(ObservedIds) /\ Cardinality(ObservedIds') \in Nat
  BY ObservedFinite, FS_Subset, FS_CardinalityType
<1>2. Cardinality(ObservedIds) <= MaxObserved /\ Cardinality(ObservedIds) \in Nat /\ MaxObserved \in Nat
  BY ObservedFinite, DaemonConfig DEF Counted, ObservedBounded, ObservedIds
<1>3. Cardinality(ObservedIds') <= MaxObserved
  BY <1>1, <1>2
<1>4. ASSUME pc' = "classify" PROVE Cardinality(ObservedIds') <= snap'.observed
  <2>1. snap.observed \in Nat
    BY DEF TypeOK, Snapshot
  <2> QED BY <1>1, <1>2, <1>4, <2>1 DEF Counted
<1> QED BY <1>3, <1>4 DEF Counted, ObservedBounded, ObservedIds

LEMMA ObserveCounts ==
  ASSUME TypeOK, Counted, NEW p \in todo, NEW ws \in Workspaces \union {Headless}, Observe(p, ws)
  PROVE  Counted'
<1>1. PICK i \in FreshIds : Found(p, i, NewWorkload(p, Neutral, TRUE, ws))
  BY DEF Observe
<1>2. /\ i \notin Registered /\ Registered' = Registered \union {i}
      /\ \A j \in Registered : workloads'[j] = workloads[j]
      /\ workloads'[i] = NewWorkload(p, Neutral, TRUE, ws)
  BY <1>1 DEF Found, FreshIds, Registered
<1>3. ObservedIds' = ObservedIds \union {i} /\ i \notin ObservedIds
  BY <1>2 DEF ObservedIds, NewWorkload
<1>4. Cardinality(ObservedIds') = Cardinality(ObservedIds) + 1
  BY <1>3, ObservedFinite, FS_AddElement
<1>5. /\ snap.observed < MaxObserved /\ Cardinality(ObservedIds) <= snap.observed
      /\ snap'.observed = snap.observed + 1
      /\ snap.observed \in Nat /\ Cardinality(ObservedIds) \in Nat /\ MaxObserved \in Nat
  BY ObservedFinite, DaemonConfig
     DEF Observe, Unassigned, Classifies, Counted, TypeOK, Snapshot
<1>6. Cardinality(ObservedIds') <= MaxObserved /\ Cardinality(ObservedIds') <= snap'.observed
  BY <1>4, <1>5
<1> QED BY <1>6 DEF Counted, ObservedBounded, ObservedIds

LEMMA CountedStep == TypeOK /\ Counted /\ [Next]_vars => Counted'
<1> SUFFICES ASSUME TypeOK, Counted, [Next]_vars PROVE Counted'
  OBVIOUS
<1>0. \A i \in Registered : workloads[i] \in Workload
  BY DEF TypeOK
<1> DEFINE Same == /\ Registered' = Registered
                   /\ \A i \in Registered : workloads'[i].observed = workloads[i].observed
           SameCount == pc' = "classify" => pc = "classify" /\ snap'.observed = snap.observed
<1>a. ASSUME Same, SameCount PROVE Counted'
  BY <1>a, NoMoreObserved DEF ObservedIds
<1>1. CASE Start
  <2> PICK groups \in [Pids -> Ids \union {None}], roots \in [Ids -> Pids] :
        workloads' = Bootstrapped(groups, roots) /\ owner' = groups
    BY <1>1 DEF Start
  <2>1. ObservedIds' = {}
    BY DEF ObservedIds, Registered, Bootstrapped
  <2> QED BY <1>1, <2>1, NoMoreObserved DEF Start
<1>2. CASE Shutdown \/ Crash
  <2>1. ObservedIds' = {} /\ pc' = "down"
    BY <1>2 DEF Shutdown, Crash, Forget, ObservedIds, Registered
  <2> QED BY <2>1, NoMoreObserved
<1>3. CASE BeginTick
  <2>1. workloads' = workloads /\ snap'.observed = Cardinality(ObservedIds)
    BY <1>3 DEF BeginTick, NoSnap, ObservedIds
  <2>2. ObservedIds' = ObservedIds
    BY <2>1 DEF ObservedIds, Registered
  <2> QED BY <2>1, <2>2, ObservedFinite DEF Counted, ObservedBounded, ObservedIds, Registered
<1>4. ASSUME NEW p \in todo, Pass(p) PROVE Counted'
  BY <1>a, <1>4 DEF Pass, Visited, Registered
<1>5. ASSUME NEW p \in todo, NEW c \in Profiles, Reclassify(p, c) PROVE Counted'
  <2>1. ObservedIds' \subseteq ObservedIds
    BY <1>0, <1>5 DEF Reclassify, ObservedIds, Registered, Workload
  <2> QED BY <1>5, <2>1, NoMoreObserved DEF Reclassify, Visited
<1>6. ASSUME NEW p \in todo, NEW c \in Profiles, NEW ws \in Workspaces \union {Headless},
             Discover(p, c, ws)
      PROVE  Counted'
  <2>1. PICK i \in FreshIds : Found(p, i, NewWorkload(p, c, FALSE, ws))
    BY <1>6 DEF Discover
  <2>2. ObservedIds' \subseteq ObservedIds
    BY <2>1 DEF Found, FreshIds, Registered, ObservedIds, NewWorkload
  <2> QED BY <1>6, <2>2, NoMoreObserved DEF Discover, Visited
<1>7. ASSUME NEW i \in todo, Drive(i) PROVE Counted'
  <2>1. i \in Registered /\ pc' # "classify" /\ workloads' = [workloads EXCEPT ![i] = Ticked(i)]
    BY <1>7 DEF Drive, TypeOK
  <2>2. Same
    BY <2>1, TickedType DEF TypeOK, Registered
  <2> QED BY <1>a, <2>1, <2>2
<1>8. CASE StartDrive \/ Recheck
  BY <1>a, <1>8 DEF StartDrive, Recheck, Registered
<1>9. CASE Kill
  BY <1>a, <1>0, <1>9 DEF Kill, Registered, Workload
<1>10. CASE EndTick
  <2>1. ObservedIds' \subseteq ObservedIds /\ pc' # "classify"
    BY <1>0, <1>10 DEF EndTick, Kept, ObservedIds, Registered, Workload
  <2> QED BY <2>1, NoMoreObserved
<1>11. CASE Environment
  <2>1. ASSUME NEW i \in Registered, Elapse(i) PROVE Counted'
    BY <1>a, <1>0, <2>1 DEF Elapse, Registered, Workload
  <2>2. CASE UNCHANGED daemonVars
    BY <1>a, <2>2 DEF daemonVars, Registered
  <2> QED BY <1>11, <2>1, <2>2 DEF Environment, Spawn, Exec, Exit, Reap, Toggle, Switch
<1>12. CASE UNCHANGED vars
  BY <1>a, <1>12 DEF vars, daemonVars, Registered
<1> QED BY <1>1, <1>2, <1>3, <1>4, <1>5, <1>6, <1>7, <1>8, <1>9, <1>10, <1>11, <1>12, ObserveCounts
        DEF Next, DaemonStep, Classification

\* kMaxObserved bounds the observed workloads across ticks, promotions, evictions and the reuse
\* of process numbers, although the tick counts them once and advances the count by hand.
THEOREM ObservedLimited == Spec => []ObservedBounded
<1>1. Init => Counted
  <2> SUFFICES ASSUME Init PROVE Counted
    OBVIOUS
  <2>1. ObservedIds = {} /\ pc # "classify"
    BY DEF Init, ObservedIds, Registered
  <2>2. Cardinality(ObservedIds) = 0 /\ MaxObserved \in Nat
    BY <2>1, FS_EmptySet, DaemonConfig
  <2> QED BY <2>1, <2>2 DEF Counted, ObservedBounded, ObservedIds
<1>2. Counted => ObservedBounded
  BY DEF Counted
<1> QED BY <1>1, <1>2, CountedStep, TypeCorrect, PTL DEF Spec
=============================================================================
