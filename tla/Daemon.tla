------------------------------- MODULE Daemon -------------------------------
(***************************************************************************)
(* The titan-hwm-v3 daemon: main() with its tick loop, over the process     *)
(* table it observes and signals.  One tick is                              *)
(*   BeginTick, one classification step per process, StartDrive,            *)
(*   one Drive per workload (a reclaim sleeps inside its Drive: Recheck and *)
(*   Kill), EndTick.                                                        *)
(* Each step is atomic.  Processes, the user and the clock act between any  *)
(* two steps of the daemon whose pc is in Preempt.                          *)
(***************************************************************************)
EXTENDS WorkloadManager, PolicyEngine, ReclaimEngine

CONSTANTS
  Ids,          \* workload ids; next_workload_id never reuses one
  None,         \* no process, no workload
  Workspaces,   \* Hyprland workspaces
  Headless,     \* the workspace_id -2 (HC-03) and -1: never on screen
  Profiles,     \* what classify() can return, NEUTRAL apart
  Pressures,    \* the levels compute_pressure() can return
  MaxObserved,  \* kMaxObserved
  SweepReaches, \* the processes whose uid is the daemon's own
  Preempt,      \* the pcs at which the daemon can lose the processor
  Faults        \* what else can happen: a subset of Fault

PC    == {"down", "sleep", "classify", "drive", "grace", "term"}
Fault == {"crash", "recycle", "exec"}

Profile == [type : WorkloadType \ {"NEUTRAL"}, ai_owned : BOOLEAN,
            is_browser_root : BOOLEAN]

ASSUME DaemonConfig ==
  /\ None \notin Pids /\ None \notin Ids /\ Headless \notin Workspaces
  /\ IsFiniteSet(Pids) /\ IsFiniteSet(Ids) /\ Cardinality(Pids) <= Cardinality(Ids)
  /\ Profiles \subseteq Profile /\ Pressures \subseteq PressureLevel
  /\ MaxObserved \in Nat /\ SweepReaches \subseteq Pids
  /\ {"down", "sleep", "grace", "term"} \subseteq Preempt /\ Preempt \subseteq PC
  /\ Faults \subseteq Fault

VARIABLES
  pc,         \* where main() is; "grace" and "term" are the sleeps of reclaim()
  workloads,  \* WorkloadManager::workloads_, a function on the registered ids
  owner,      \* OwnershipGraph::pid_to_wl_
  prev,       \* the keys of prev_children
  snap,       \* what this tick has read so far
  todo,       \* the processes, then the workloads, this tick still has to visit
  cur,        \* the workload inside reclaim()
  onScreen    \* the workspaces that are visible or focused

daemonVars == <<pc, workloads, owner, prev, snap, todo, cur>>
vars == <<kernelVars, daemonVars, onScreen>>

Workload ==
  [type : WorkloadType, state : WorkloadState, ai_owned : BOOLEAN,
   is_browser_root : BOOLEAN, observed : BOOLEAN, is_reclassifiable : BOOLEAN,
   workspace_id : Workspaces \union {Headless}, hysteresis : 0..HysteresisTicks,
   age : Nat, pids : SUBSET Pids, root_pid : Pids]

Snapshot == [graph : SUBSET Pids, zomb : SUBSET Pids, exec : SUBSET Pids,
             busy : SUBSET Ids, shown : SUBSET Workspaces,
             pressure : PressureLevel, observed : Nat]

NoSnap == [graph |-> {}, zomb |-> {}, exec |-> {}, busy |-> {}, shown |-> {},
           pressure |-> NORMAL, observed |-> 0]

Registered == DOMAIN workloads

TypeOK ==
  /\ KernelTypeOK
  /\ pc \in PC
  /\ Registered \subseteq Ids /\ workloads \in [Registered -> Workload]
  /\ owner \in [Pids -> Ids \union {None}]
  /\ prev \subseteq Pids
  /\ snap \in Snapshot
  /\ pc = "classify" => todo \subseteq Pids
  /\ pc \in {"drive", "grace", "term"} => todo \subseteq Registered
  /\ pc \in {"down", "sleep"} => todo = {}
  /\ cur \in Ids \union {None} /\ (pc \in {"grace", "term"} => cur \in todo)
  /\ onScreen \subseteq Workspaces

Init ==
  /\ run = [p \in Pids |-> "absent"] /\ kind = [p \in Pids |-> "plain"]
  /\ working = {} /\ frozenSlice = {} /\ frozen = FALSE /\ explicit = {}
  /\ pc = "down" /\ workloads = <<>> /\ owner = [p \in Pids |-> None]
  /\ prev = {} /\ snap = NoSnap /\ todo = {} /\ cur = None
  /\ onScreen \in SUBSET Workspaces

-----------------------------------------------------------------------------
\* Start and bootstrap.

\* startup_thaw_sweep: only processes of the daemon's own uid.
Swept == Sigcont(SweepReaches)

\* OwnershipGraph::bootstrap: groups[p] is the workload p inherits or founds,
\* None when nothing about it is recognised.  Protected processes are grouped
\* like any other.
Bootstrapped(groups, roots) ==
  [i \in {groups[p] : p \in Pids} \ {None} |->
    [type |-> "DEV", state |-> "DISCOVERED", ai_owned |-> FALSE,
     is_browser_root |-> FALSE, observed |-> FALSE, is_reclassifiable |-> FALSE,
     workspace_id |-> Headless, hysteresis |-> 0, age |-> 0,
     pids |-> {p \in Pids : groups[p] = i}, root_pid |-> roots[i]]]

\* main() up to the loop.  setup_slices writes cgroup.freeze = 0.
Start ==
  /\ pc = "down"
  /\ run' = Swept /\ frozen' = FALSE
  /\ explicit' = {p \in Pids : kind[p] = "protected"}
  /\ \E groups \in [Pids -> Ids \union {None}], roots \in [Ids -> Pids] :
       /\ \A p \in Pids : run[p] = "absent" => groups[p] = None
       /\ \A i \in Ids : (\E p \in Pids : groups[p] = i) => groups[roots[i]] = i
       /\ workloads' = Bootstrapped(groups, roots)
       /\ owner' = groups
  /\ pc' = "sleep"
  /\ UNCHANGED <<kind, working, frozenSlice, prev, snap, todo, cur, onScreen>>

\* Everything main() keeps in memory is gone.
Forget ==
  /\ pc' = "down" /\ workloads' = <<>> /\ owner' = [p \in Pids |-> None]
  /\ prev' = {} /\ snap' = NoSnap /\ todo' = {} /\ cur' = None
  /\ explicit' = {}

\* Variant: the slice is thawed, the signals are forgotten.
ShutdownSilent ==
  /\ pc = "sleep"
  /\ frozen' = FALSE
  /\ Forget
  /\ UNCHANGED <<run, kind, working, frozenSlice, onScreen>>

\* The end of main(), reached from the loop head only: signal_tree(SIGCONT)
\* for the workloads still registered, then cgroup.freeze = 0.
Shutdown ==
  /\ pc = "sleep"
  /\ run' = Sigcont({p \in UNION {workloads[i].pids : i \in Registered} : ~Protected(p)})
  /\ frozen' = FALSE
  /\ Forget
  /\ UNCHANGED <<kind, working, frozenSlice, onScreen>>

\* SIGKILL, the OOM killer or an abort: nothing is thawed.
Crash ==
  /\ "crash" \in Faults /\ pc # "down"
  /\ Forget
  /\ UNCHANGED <<run, kind, working, frozenSlice, frozen, onScreen>>

-----------------------------------------------------------------------------
\* The tick: observe and classify.

\* Steps (a) to (c) of the loop.
BeginTick ==
  /\ pc = "sleep"
  /\ \E pressure \in Pressures :
       snap' = [NoSnap EXCEPT !.graph = {p \in Pids : run[p] # "absent"},
                              !.zomb = {p \in Pids : run[p] = "zombie"},
                              !.shown = onScreen, !.pressure = pressure,
                              !.observed = Cardinality({i \in Registered :
                                                          workloads[i].observed})]
  /\ pc' = "classify" /\ todo' = snap'.graph
  /\ UNCHANGED <<kernelVars, workloads, owner, prev, cur, onScreen>>

\* Step (d), one iteration of it.
Classifies(p) == pc = "classify" /\ p \in todo

Visited(p) ==
  /\ todo' = todo \ {p}
  /\ UNCHANGED <<kernelVars, pc, prev, cur, onScreen>>

\* HC-10 for the root of an assigned workload: drift of its command line, or
\* an observed workload, which is retried on every tick because tick_count is
\* only advanced under --ticks.
Retried(p) ==
  /\ owner[p] \in Registered
  /\ LET wl == workloads[owner[p]]
     IN wl.root_pid = p /\ (wl.observed \/ wl.is_reclassifiable)

\* Protected, assigned and not retried or NEUTRAL again, or not for the daemon.
Pass(p) ==
  /\ Classifies(p) /\ Visited(p)
  /\ UNCHANGED <<workloads, owner, snap>>

\* ai_owned keeps its old value; so does a NEUTRAL root's command line.
Reclassify(p, c) ==
  /\ Classifies(p) /\ ~Protected(p) /\ Retried(p)
  /\ workloads' = [workloads EXCEPT ![owner[p]] =
       [@ EXCEPT !.type = c.type, !.is_browser_root = c.is_browser_root,
                 !.observed = FALSE, !.is_reclassifiable = FALSE]]
  /\ Visited(p)
  /\ UNCHANGED <<owner, snap>>

\* Stands for next_workload_id: an id nothing refers to any more.
FreshIds == Ids \ (Registered \union {owner[p] : p \in Pids})

Found(p, i, wl) ==
  /\ workloads' = [j \in Registered \union {i} |-> IF j = i THEN wl ELSE workloads[j]]
  /\ owner' = [owner EXCEPT ![p] = i]

NewWorkload(p, c, observed, ws) ==
  [type |-> c.type, state |-> "DISCOVERED", ai_owned |-> c.ai_owned,
   is_browser_root |-> c.is_browser_root, observed |-> observed,
   is_reclassifiable |-> TRUE, workspace_id |-> ws, hysteresis |-> 0, age |-> 0,
   pids |-> {p}, root_pid |-> p]

\* Variant: pid_to_wl_ is not asked before a process founds a workload.
UnassignedUnasked(p) == Classifies(p) /\ ~Protected(p)

Unassigned(p) == Classifies(p) /\ ~Protected(p) /\ owner[p] = None

Discover(p, c, ws) ==
  /\ Unassigned(p)
  /\ \E i \in FreshIds : Found(p, i, NewWorkload(p, c, FALSE, ws))
  /\ Visited(p)
  /\ UNCHANGED snap

Neutral == [type |-> "NEUTRAL", ai_owned |-> FALSE, is_browser_root |-> FALSE]

\* Variant: the count of the tick is not advanced.
ObserveUncounted(p, ws) ==
  /\ Unassigned(p) /\ snap.observed < MaxObserved
  /\ \E i \in FreshIds : Found(p, i, NewWorkload(p, Neutral, TRUE, ws))
  /\ Visited(p)
  /\ UNCHANGED snap

\* The root of a user's process tree that nothing classifies.
Observe(p, ws) ==
  /\ Unassigned(p) /\ snap.observed < MaxObserved
  /\ \E i \in FreshIds : Found(p, i, NewWorkload(p, Neutral, TRUE, ws))
  /\ snap' = [snap EXCEPT !.observed = @ + 1]
  /\ Visited(p)

-----------------------------------------------------------------------------
\* The tick: drive, evaluate, enforce.

\* Step (e), and the all_workloads copy of step (f).
StartDrive ==
  /\ pc = "classify" /\ todo = {}
  /\ snap' = [snap EXCEPT
       !.exec = snap.graph \intersect (working \ snap.zomb),
       !.busy = {i \in Registered :
                   workloads[i].state \in {"ACTIVE", "BACKGROUND_EXECUTING"}}]
  /\ prev' = prev \union snap.graph
  /\ pc' = "drive" /\ todo' = Registered
  /\ UNCHANGED <<kernelVars, workloads, owner, cur, onScreen>>

Shown(i) == workloads[i].workspace_id \in snap.shown

Ticked(i) == Tick(workloads[i], Shown(i), Aggregate(workloads[i], snap), snap.pressure)

Decision(i, wl) ==
  Evaluate(wl, Shown(i), Aggregate(wl, snap), snap.pressure, ProtectedAny(wl.pids))

\* Step (f) for one workload, up to the point where reclaim() sleeps.
Drive(i) ==
  /\ pc = "drive" /\ i \in todo
  /\ workloads' = [workloads EXCEPT ![i] = Ticked(i)]
  /\ \/ /\ workloads[i].observed
        /\ todo' = todo \ {i}
        /\ UNCHANGED <<kernelVars, pc, cur>>
     \/ /\ ~workloads[i].observed /\ Decision(i, Ticked(i)) # "RECLAIM"
        /\ Apply(Ticked(i), Decision(i, Ticked(i)))
        /\ todo' = todo \ {i}
        /\ UNCHANGED <<pc, cur>>
     \/ /\ ~workloads[i].observed /\ Decision(i, Ticked(i)) = "RECLAIM"
        /\ IF ReclaimAllowed(i, workloads', snap)
           THEN pc' = "grace" /\ cur' = i /\ UNCHANGED todo
           ELSE todo' = todo \ {i} /\ UNCHANGED <<pc, cur>>
        /\ UNCHANGED kernelVars
  /\ UNCHANGED <<owner, prev, snap, onScreen>>

\* Steps 7 and 8 of reclaim(), after its 2 s sleep.
Recheck ==
  /\ pc = "grace"
  /\ IF ReclaimAllowed(cur, workloads, snap)
     THEN pc' = "term" /\ UNCHANGED <<cur, todo>>
     ELSE pc' = "drive" /\ cur' = None /\ todo' = todo \ {cur}
  /\ UNCHANGED <<kernelVars, workloads, owner, prev, snap, onScreen>>

\* Step 9, after its 3 s sleep.
Kill ==
  /\ pc = "term"
  /\ Die(Killed(workloads[cur].pids))
  /\ workloads' = [workloads EXCEPT ![cur].state = "TERMINATED"]
  /\ pc' = "drive" /\ cur' = None /\ todo' = todo \ {cur}
  /\ UNCHANGED <<frozen, explicit, owner, prev, snap, onScreen>>

\* Variant: only the zombies are pruned, not the processes gone from /proc.
PrunedZombies(i) == workloads[i].pids \ snap.zomb

\* Steps (g) and (h): prune_dead, forget the processes gone from /proc,
\* prune_dead_pids, and evict the workloads without a live process.
Pruned(i) == workloads[i].pids \intersect (snap.graph \ snap.zomb)

Kept == {i \in Registered : /\ workloads[i].state # "TERMINATED"
                            /\ \E p \in Pruned(i) : run[p] # "absent"}

EndTick ==
  /\ pc = "drive" /\ todo = {}
  /\ workloads' = [i \in Kept |-> [workloads[i] EXCEPT !.pids = Pruned(i)]]
  /\ owner' = [p \in Pids |-> IF p \in prev \ snap.graph THEN None ELSE owner[p]]
  /\ prev' = prev \intersect snap.graph
  /\ snap' = NoSnap /\ pc' = "sleep"
  /\ UNCHANGED <<kernelVars, todo, cur, onScreen>>

-----------------------------------------------------------------------------
\* The rest of the machine.

\* Process numbers this daemon still has something to say about.
Referenced(p) ==
  \/ owner[p] # None \/ p \in prev \union snap.graph
  \/ \E i \in Registered : p \in workloads[i].pids

\* A new process.  It starts in the cgroup of its parent, which may be a member
\* of archtitan-frozen.slice that runs because the slice is thawed.
Spawn(p, k, inSlice) ==
  /\ pc \in Preempt /\ run[p] = "absent"
  /\ Referenced(p) => "recycle" \in Faults
  /\ inSlice => \E q \in frozenSlice : run[q] = "running" /\ ~frozen
  /\ run' = [run EXCEPT ![p] = "running"] /\ kind' = [kind EXCEPT ![p] = k]
  /\ frozenSlice' = IF inSlice THEN frozenSlice \union {p} ELSE frozenSlice
  /\ UNCHANGED <<working, frozen, explicit, daemonVars, onScreen>>

\* A process exits by itself or is killed by someone else.
Exit(p) ==
  /\ pc \in Preempt /\ Live(p)
  /\ Die({p})
  /\ UNCHANGED <<frozen, explicit, daemonVars, onScreen>>

Reap(p) ==
  /\ pc \in Preempt /\ run[p] = "zombie"
  /\ run' = [run EXCEPT ![p] = "absent"]
  /\ UNCHANGED <<kind, working, frozenSlice, frozen, explicit, daemonVars, onScreen>>

Exec(p, k) ==
  /\ "exec" \in Faults
  /\ pc \in Preempt /\ run[p] = "running" /\ ~Frozen(p) /\ k # kind[p]
  /\ kind' = [kind EXCEPT ![p] = k]
  /\ UNCHANGED <<run, working, frozenSlice, frozen, explicit, daemonVars, onScreen>>

\* A process starts or stops looking busy to detect().
Toggle(p) ==
  /\ pc \in Preempt /\ Live(p)
  /\ working' = IF p \in working THEN working \ {p} ELSE working \union {p}
  /\ UNCHANGED <<run, kind, frozenSlice, frozen, explicit, daemonVars, onScreen>>

\* The user turns to other workspaces.
Switch(w) ==
  /\ pc \in Preempt
  /\ onScreen' = IF w \in onScreen THEN onScreen \ {w} ELSE onScreen \union {w}
  /\ UNCHANGED <<kernelVars, daemonVars>>

\* Time passes for one workload.  HardAge bounds the counter: nothing tells
\* greater ages apart, and no code writes last_active after the registration.
Elapse(i) ==
  /\ pc \in Preempt /\ workloads[i].age < HardAge
  /\ workloads' = [workloads EXCEPT ![i].age = @ + 1]
  /\ UNCHANGED <<kernelVars, pc, owner, prev, snap, todo, cur, onScreen>>

-----------------------------------------------------------------------------
Classification ==
  \E p \in todo :
    \/ Pass(p)
    \/ \E c \in Profiles : Reclassify(p, c)
    \/ \E ws \in Workspaces \union {Headless} :
         (\E c \in Profiles : Discover(p, c, ws)) \/ Observe(p, ws)

DaemonStep ==
  \/ BeginTick \/ Classification \/ StartDrive
  \/ (\E i \in todo : Drive(i)) \/ Recheck \/ Kill \/ EndTick

Environment ==
  \/ \E p \in Pids : \/ \E k \in Kinds, inSlice \in BOOLEAN : Spawn(p, k, inSlice)
                     \/ \E k \in Kinds : Exec(p, k)
                     \/ Exit(p) \/ Reap(p) \/ Toggle(p)
  \/ \E w \in Workspaces : Switch(w)
  \/ \E i \in Registered : Elapse(i)

Next == Start \/ Shutdown \/ Crash \/ DaemonStep \/ Environment

Spec == Init /\ [][Next]_vars

\* The loop never blocks: it sleeps 200 ms, 2 s or 3 s and goes on.
FairSpec == Spec /\ WF_vars(DaemonStep)

-----------------------------------------------------------------------------
\* What the daemon does to p in a step.

Stops(p)   == run[p] = "running" /\ run'[p] = "stopped"
Confines(p) == Live(p) /\ p \notin frozenSlice /\ p \in frozenSlice'
Kills(p)   == pc = "term" /\ pc' = "drive" /\ Live(p) /\ run'[p] = "zombie"
Harms(p)   == Stops(p) \/ Confines(p) \/ Kills(p)

\* No step stops, confines or kills a process that is protected at that moment,
\* whatever workload it was grouped into and however late it became protected.
ProtectedUntouched == [][\A p \in Pids : Protected(p) => ~Harms(p)]_vars

\* HC-07, HC-08 and observation mode: members of SERVICE, VM and observed
\* workloads are never stopped, confined or killed, by any workload's turn.
Immune(wl) == wl.observed \/ wl.type \in {"SERVICE", "VM"}

ImmuneUntouched ==
  [][\A i \in Registered : Immune(workloads[i]) => \A p \in workloads[i].pids : ~Harms(p)]_vars

\* SIGKILL only ever reaches members of a workload past the hard threshold, not
\* an AI agent's, that was idle and off screen when its tick looked.
KillJustified ==
  [][\A p \in Pids : Kills(p) =>
       /\ p \in workloads[cur].pids
       /\ workloads[cur].age >= HardAge /\ ~workloads[cur].ai_owned
       /\ ~Shown(cur) /\ CheckNotExecuting(workloads[cur], snap)]_vars

\* Execution is the authority: whoever this tick found executing is left alone
\* until the tick ends, whatever the pressure and whichever workload's turn it is.
ExecutingUntouched == [][\A p \in snap.exec : ~Harms(p)]_vars

\* A workload only signals processes that pid_to_wl_ gives to it, so no process
\* takes orders from two workloads.
OwnershipConsistent ==
  \A i \in Registered : \A p \in workloads[i].pids : owner[p] = i

\* kMaxObserved bounds the observed workloads across ticks and promotions.
ObservedBounded == Cardinality({i \in Registered : workloads[i].observed}) <= MaxObserved

\* Whoever the daemon has stopped is in a workload it will drive again.
StoppedIsTracked ==
  \A p \in Pids : run[p] = "stopped" => \E i \in Registered : p \in workloads[i].pids

\* A window of a classified workload that stays on screen is running from some
\* point on.  (Observed workloads are not covered: the daemon leaves them as
\* they are, stopped ones included.)
OnScreen(p) ==
  \E i \in Registered : /\ p \in workloads[i].pids /\ ~workloads[i].observed
                         /\ workloads[i].workspace_id \in onScreen

VisibleRuns == \A p \in Pids : <>[]OnScreen(p) => <>[]~Held(p)

\* What a process sees of the daemon: whether it is alive, stopped by it, and in
\* which registered workload.
Keeper(p) ==
  IF owner[p] \in Registered /\ p \in workloads[owner[p]].pids THEN owner[p] ELSE None

Promised ==
  INSTANCE Custody WITH
    serving <- pc # "down",
    alive <- {p \in Pids : Live(p)},
    held <- {p \in Pids : run[p] = "stopped"},
    keeper <- [p \in Pids |-> Keeper(p)],
    condemned <- IF pc \in {"grace", "term"} THEN cur ELSE None,
    final <- pc = "term"

\* The daemon, when it does not crash, keeps what Custody promises.
KeepsCustody == Promised!Spec

-----------------------------------------------------------------------------
\* Statements of the repository's comments, tests and wiki that the code does
\* not keep.

\* types.hpp: ws_hysteresis_ticks counts down the ticks before a downgrade.
HysteresisExpires ==
  \A i \in Ids : (i \in Registered /\ workloads[i].hysteresis > 0)
                 ~> (i \in Registered => workloads[i].hysteresis = 0)

\* startup_thaw_sweep: a start releases whatever a crash left stopped.
RestartThaws ==
  [][pc = "down" /\ pc' = "sleep" => \A p \in Pids : run'[p] # "stopped"]_vars

\* Test TC-9 and step 7 of reclaim(): work that resumes before SIGTERM aborts
\* the reclaim.  (Held processes cannot resume work, whatever they look like.)
AbortsWhenWorkResumes ==
  [][pc = "grace" /\ pc' = "term" =>
       \A p \in workloads[cur].pids \intersect working : Held(p)]_vars
=============================================================================
