--------------------------- MODULE ReclaimEngine ---------------------------
(***************************************************************************)
(* ReclaimEngine: the safety checks of reclaim(), and what they read.  The  *)
(* sequence itself (checks, grace period, the same checks, SIGTERM, grace,  *)
(* SIGKILL) sleeps twice and is therefore three steps of Daemon.            *)
(*                                                                          *)
(* snap is what the tick read before it drove the workloads: graph and zomb *)
(* (the processes and the zombies of proc_graph), exec (those detect() found *)
(* EXECUTING), busy (the ids of all_workloads that were ACTIVE or           *)
(* BACKGROUND_EXECUTING).                                                   *)
(***************************************************************************)
EXTENDS EnforcementPlane

CONSTANT RecentAge  \* ReclaimConfig::recent_focus_s, in the unit of wl.age

ASSUME ReclaimConfig == RecentAge \in Nat

\* ExecutionDetector::aggregate.  A zombie is still in the graph: it counts as
\* a live member, and a workload of zombies is IDLE.
Aggregate(wl, snap) ==
  IF wl.pids \intersect snap.exec # {} THEN "EXECUTING"
  ELSE IF wl.pids \intersect snap.graph = {} THEN "COMPLETED"
  ELSE "IDLE"

CheckNotProtected(wl) == ~ProtectedAny(wl.pids)

CheckNotExecuting(wl, snap) == Aggregate(wl, snap) # "EXECUTING"

\* A dependent is another busy workload rooted at one of our processes.
CheckNoActiveDependent(i, workloads, snap) ==
  \A j \in snap.busy \ {i} : workloads[j].root_pid \notin workloads[i].pids

CheckNoRecentFocus(wl) == wl.age >= RecentAge

\* Steps 1 to 4, and again step 7.
ReclaimAllowed(i, workloads, snap) ==
  /\ CheckNotProtected(workloads[i])
  /\ CheckNotExecuting(workloads[i], snap)
  /\ CheckNoActiveDependent(i, workloads, snap)
  /\ CheckNoRecentFocus(workloads[i])
=============================================================================
