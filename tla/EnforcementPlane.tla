-------------------------- MODULE EnforcementPlane --------------------------
(***************************************************************************)
(* What titan-hwm-v3 does to processes: EnforcementPlane::apply, the signal *)
(* deliveries of ReclaimEngine, and the kernel state they act on (the       *)
(* process table and archtitan-frozen.slice, which the code under src/ uses *)
(* and does not implement).  The other slices, cpu.weight and oom_score_adj *)
(* decide nothing in the daemon and are left out.                           *)
(***************************************************************************)
EXTENDS HwmTypes, FiniteSets

CONSTANTS
  Pids,  \* process numbers
  Kinds  \* what an executable can be: a subset of ProcessKind

\* What the registry reads off a process's comm and exe.
ProcessKind == {"plain", "browser", "protected"}

ASSUME ProcessKinds == Kinds \subseteq ProcessKind /\ "plain" \in Kinds

VARIABLES
  run,          \* the state of each process number
  kind,         \* its executable ("plain" when there is no live process)
  working,      \* live processes whose CPU, state or children look busy
  frozenSlice,  \* the members of archtitan-frozen.slice
  frozen,       \* its cgroup.freeze
  explicit      \* ProtectedRegistry::explicit_pids_

kernelVars == <<run, kind, working, frozenSlice, frozen, explicit>>

RunState == {"absent", "running", "stopped", "zombie"}

KernelTypeOK ==
  /\ run \in [Pids -> RunState]
  /\ kind \in [Pids -> ProcessKind]
  /\ working \subseteq Pids
  /\ frozenSlice \subseteq Pids
  /\ frozen \in BOOLEAN
  /\ explicit \subseteq Pids

Live(p)   == run[p] \in {"running", "stopped"}
Frozen(p) == frozen /\ p \in frozenSlice

\* A live process that makes no progress by the daemon's doing.
Held(p) == run[p] = "stopped" \/ (run[p] = "running" /\ Frozen(p))

\* is_protected and is_protected_any: asked of the process table of the moment.
Protected(p)     == p \in explicit \/ kind[p] = "protected"
ProtectedAny(ps) == \E p \in ps : Protected(p)

-----------------------------------------------------------------------------
\* Signals.

\* sigcont_if_stopped: no protected check.
Sigcont(ps) == [p \in Pids |-> IF p \in ps /\ run[p] = "stopped" THEN "running" ELSE run[p]]

\* signal_tree(SIGSTOP).
Sigstop(ps) ==
  [p \in Pids |-> IF p \in ps /\ run[p] = "running" /\ ~Protected(p) THEN "stopped" ELSE run[p]]

\* Variant: kill_tree asks only for the processes registered at the start.
SparedAtStart(p) == p \in explicit \/ kind[p] = "browser"

\* kill_tree passes over protected processes and over browsers.
Spared(p) == Protected(p) \/ kind[p] = "browser"

\* kill_tree(SIGKILL): who dies.
Killed(ps) == {p \in ps : Live(p) /\ ~Spared(p)}

\* The exit of the processes in ps, whatever caused it.
Die(ps) ==
  /\ run' = [p \in Pids |-> IF p \in ps THEN "zombie" ELSE run[p]]
  /\ kind' = [p \in Pids |-> IF p \in ps THEN "plain" ELSE kind[p]]
  /\ working' = working \ ps
  /\ frozenSlice' = frozenSlice \ ps

-----------------------------------------------------------------------------
\* apply(): one operator per case of its switch.  ps are wl.pids; only live
\* processes can be moved between slices.

Movable(ps) == {p \in ps : Live(p)}

\* The hard block in front of the switch.
ApplyBlocked(ps) ==
  /\ run' = Sigcont(ps)
  /\ frozenSlice' = frozenSlice \ Movable(ps)
  /\ UNCHANGED frozen

\* Variant: the slice is thawed and its processes continued, and nobody is moved out of it.
ApplyKeepFullInPlace(ps) ==
  /\ run' = Sigcont(ps)
  /\ frozen' = FALSE
  /\ UNCHANGED frozenSlice

ApplyKeepFull(ps) ==
  /\ run' = Sigcont(ps)
  /\ frozenSlice' = frozenSlice \ Movable(ps)
  /\ frozen' = FALSE

ApplyKeepBackground(ps) ==
  /\ run' = Sigcont(ps)
  /\ frozenSlice' = frozenSlice \ Movable(ps)
  /\ UNCHANGED frozen

\* No SIGCONT: who was stopped stays stopped.
ApplyThrottle(ps) ==
  /\ frozenSlice' = frozenSlice \ Movable(ps)
  /\ UNCHANGED <<run, frozen>>

\* HC-05: a browser root is frozen by its cgroup alone.
ApplyFreeze(ps, browserRoot) ==
  /\ run' = IF browserRoot THEN run ELSE Sigstop(ps)
  /\ frozenSlice' = frozenSlice \union Movable(ps)
  /\ frozen' = TRUE

\* EnforcementPlane::apply.  RECLAIM never reaches it.
Apply(wl, decision) ==
  /\ \/ ProtectedAny(wl.pids) /\ ApplyBlocked(wl.pids)
     \/ /\ ~ProtectedAny(wl.pids)
        /\ \/ decision = "KEEP_FULL"       /\ ApplyKeepFull(wl.pids)
           \/ decision = "KEEP_BACKGROUND" /\ ApplyKeepBackground(wl.pids)
           \/ decision = "THROTTLE"        /\ ApplyThrottle(wl.pids)
           \/ decision = "FREEZE"          /\ ApplyFreeze(wl.pids, wl.is_browser_root)
  /\ UNCHANGED <<kind, working, explicit>>
=============================================================================
