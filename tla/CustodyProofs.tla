---------------------------- MODULE CustodyProofs ----------------------------
(***************************************************************************)
(* The daemon refines Custody, for every number of processes, ids and       *)
(* workspaces and every decay configuration, as long as it does not crash,   *)
(* process numbers are not reused while it refers to them, and no executable *)
(* is protected or a browser.                                               *)
(***************************************************************************)
EXTENDS DaemonProofs

\* The machines the refinement is stated for.
FaultFree == Faults = {} /\ Kinds = {"plain"}

-----------------------------------------------------------------------------
\* The invariant.

Plain == explicit = {} /\ \A p \in Pids : kind[p] = "plain"

\* A daemon that is down left nobody behind.
Clean == pc = "down" =>
  Registered = {} /\ \A p \in Pids : owner[p] = None /\ run[p] # "stopped"

Tracked == \A p \in Pids : run[p] = "stopped" => Keeper(p) # None

\* During a tick, a living process that is in the snapshot was read alive, and whoever has
\* an owner is in the snapshot.
Seen == pc \notin {"down", "sleep"} =>
  \A p \in Pids : Live(p) => /\ p \in snap.graph => p \notin snap.zomb
                             /\ owner[p] # None => p \in snap.graph

Queued == pc = "classify" => todo \subseteq snap.graph

\* What is evicted as TERMINATED has no living member.
Ended == \A i \in Registered : workloads[i].state = "TERMINATED" =>
                               \A p \in workloads[i].pids : ~Live(p)

Types == TypeOK /\ OwnershipConsistent

CustodyInv == FaultFree /\ Plain /\ Clean /\ Tracked /\ Seen /\ Queued /\ Ended

-----------------------------------------------------------------------------
\* What Custody sees of a step.

LEMMA KeeperType ==
  ASSUME Types, NEW p \in Pids
  PROVE  /\ Keeper(p) \in Ids \union {None}
         /\ owner[p] = None => Keeper(p) = None
         /\ \A i \in Registered : Keeper(p) = i <=> p \in workloads[i].pids
<1>1. Registered \subseteq Ids /\ None \notin Ids /\ owner[p] \in Ids \union {None}
  BY DaemonConfig DEF Types, TypeOK
<1>2. \A i \in Registered : p \in workloads[i].pids => owner[p] = i
  BY DEF Types, OwnershipConsistent
<1> QED BY <1>1, <1>2 DEF Keeper

LEMMA MembersAre ==
  ASSUME Types, NEW i \in Registered
  PROVE  Promised!Members(i) = workloads[i].pids
<1>1. workloads[i].pids \subseteq Pids
  BY DEF Types, TypeOK, Workload
<1> QED BY <1>1, KeeperType DEF Promised!Members

\* Most steps keep the owners and every workload's members.
SameGroups ==
  /\ owner' = owner /\ Registered' = Registered
  /\ \A i \in Registered : workloads'[i].pids = workloads[i].pids

LEMMA KeeperKept == ASSUME SameGroups PROVE \A p \in Pids : Keeper(p)' = Keeper(p)
  BY DEF SameGroups, Keeper

SamePlace ==
  /\ (pc' = "down") <=> (pc = "down")
  /\ pc \notin {"grace", "term"} /\ pc' \notin {"grace", "term"}

LEMMA Unseen ==
  ASSUME \A p \in Pids : Keeper(p)' = Keeper(p),
         \A p \in Pids : run'[p] = run[p],
         SamePlace \/ UNCHANGED <<pc, cur>>
  PROVE  UNCHANGED Promised!custodyVars
<1>1. {p \in Pids : Live(p)}' = {p \in Pids : Live(p)}
  BY DEF Live
<1>2. {p \in Pids : run[p] = "stopped"}' = {p \in Pids : run[p] = "stopped"}
  OBVIOUS
<1>3. [p \in Pids |-> Keeper(p)]' = [p \in Pids |-> Keeper(p)]
  OBVIOUS
<1> QED BY <1>1, <1>2, <1>3 DEF SamePlace, Promised!custodyVars

LEMMA NobodySpared == ASSUME CustodyInv PROVE \A p \in Pids : ~Protected(p) /\ ~Spared(p)
  BY DEF CustodyInv, Plain, Protected, Spared

-----------------------------------------------------------------------------
\* Start and shutdown.

LEMMA StartOpens == ASSUME Types, CustodyInv, Start PROVE Promised!Open /\ CustodyInv'
<1>1. \A p \in Pids : run'[p] = run[p] /\ run[p] # "stopped"
  BY DEF CustodyInv, Clean, Start, Swept, Sigcont
<1>2. PICK groups \in [Pids -> Ids \union {None}], roots \in [Ids -> Pids] :
        workloads' = Bootstrapped(groups, roots) /\ owner' = groups
  BY DEF Start
<1>3. pc = "down" /\ pc' = "sleep"
  BY DEF Start
<1>4. \A p \in Pids : Keeper(p)' \in Ids \union {None}
  BY <1>2 DEF Keeper
<1>5. Promised!Open
  <2>1. {p \in Pids : Live(p)}' = {p \in Pids : Live(p)}
    BY <1>1 DEF Live
  <2>2. {p \in Pids : run[p] = "stopped"}' = {p \in Pids : run[p] = "stopped"}
    BY <1>1
  <2> QED BY <1>3, <1>4, <2>1, <2>2 DEF Promised!Open
<1>6. Ended'
  BY <1>2 DEF Ended, Registered, Bootstrapped
<1>7. Plain'
  BY DEF CustodyInv, Plain, Start
<1> QED BY <1>1, <1>3, <1>5, <1>6, <1>7 DEF CustodyInv, FaultFree, Clean, Tracked, Seen, Queued

LEMMA ShutdownCloses == ASSUME Types, CustodyInv, Shutdown PROVE Promised!Close /\ CustodyInv'
<1> DEFINE members == UNION {workloads[i].pids : i \in Registered}
<1>1. \A p \in Pids : run[p] = "stopped" => p \in members
  BY DEF CustodyInv, Tracked, Keeper
<1>2. \A p \in Pids : run'[p] = IF run[p] = "stopped" THEN "running" ELSE run[p]
  BY <1>1, NobodySpared DEF Shutdown, Sigcont
<1>3. pc = "sleep" /\ pc' = "down" /\ Registered' = {} /\ \A p \in Pids : owner'[p] = None
  BY DEF Shutdown, Forget, Registered
<1>4. \A p \in Pids : Keeper(p)' = None
  BY <1>3 DEF Keeper
<1>5. Promised!Close
  <2>1. {p \in Pids : Live(p)}' = {p \in Pids : Live(p)}
    BY <1>2 DEF Live
  <2>2. {p \in Pids : run[p] = "stopped"}' = {}
    BY <1>2
  <2> QED BY <1>3, <1>4, <2>1, <2>2 DEF Promised!Close
<1>6. Plain'
  BY DEF CustodyInv, Plain, Shutdown, Forget
<1> QED BY <1>2, <1>3, <1>5, <1>6 DEF CustodyInv, FaultFree, Clean, Tracked, Seen, Queued, Ended

-----------------------------------------------------------------------------
\* Observing and classifying.

LEMMA BeginTickUnseen ==
  ASSUME Types, CustodyInv, BeginTick
  PROVE  UNCHANGED Promised!custodyVars /\ CustodyInv'
<1> USE DEF kernelVars
<1>1. SameGroups /\ pc = "sleep" /\ pc' = "classify" /\ run' = run
  BY DEF BeginTick, SameGroups, Registered
<1>2. \A p \in Pids : Keeper(p)' = Keeper(p)
  BY <1>1, KeeperKept
<1>3. UNCHANGED Promised!custodyVars
  BY <1>1, <1>2, Unseen DEF SamePlace
<1>4. snap'.graph = {p \in Pids : run[p] # "absent"} /\ snap'.zomb = {p \in Pids : run[p] = "zombie"}
  BY DEF BeginTick, NoSnap
<1>5. Seen' /\ Queued'
  BY <1>1, <1>4 DEF Seen, Queued, Live, BeginTick
<1>6. Ended'
  BY <1>1 DEF CustodyInv, Ended, SameGroups, Live, BeginTick
<1> QED BY <1>1, <1>2, <1>3, <1>5, <1>6 DEF CustodyInv, FaultFree, Plain, Clean, Tracked, BeginTick

\* A process that is visited and keeps its workload, or has none.
LEMMA VisitKeeps ==
  ASSUME Types, CustodyInv, NEW p, Classifies(p), Visited(p), SameGroups, UNCHANGED snap,
         \A i \in Registered : workloads'[i].state = workloads[i].state
  PROVE  UNCHANGED Promised!custodyVars /\ CustodyInv'
<1> USE DEF kernelVars
<1>1. pc = "classify" /\ pc' = "classify" /\ run' = run
  BY DEF Classifies, Visited
<1>2. \A q \in Pids : Keeper(q)' = Keeper(q)
  BY KeeperKept
<1>3. UNCHANGED Promised!custodyVars
  BY <1>1, <1>2, Unseen DEF SamePlace
<1>4. Seen' /\ Queued' /\ Ended'
  BY <1>1 DEF CustodyInv, Seen, Queued, Ended, Live, SameGroups, Visited
<1> QED BY <1>1, <1>2, <1>3, <1>4 DEF CustodyInv, FaultFree, Plain, Clean, Tracked, Visited

LEMMA FoundAdopts ==
  ASSUME Types, CustodyInv, NEW p \in Pids, Unassigned(p), Visited(p),
         NEW i \in FreshIds, NEW wl, wl.pids = {p}, wl.state = "DISCOVERED", Found(p, i, wl),
         snap'.graph = snap.graph, snap'.zomb = snap.zomb
  PROVE  Promised!Adopt(p, i) /\ CustodyInv'
<1> USE DEF kernelVars
<1>1. /\ pc = "classify" /\ pc' = "classify" /\ run' = run
      /\ p \in todo /\ owner[p] = None /\ p \in snap.graph
  BY DEF Unassigned, Classifies, Visited, CustodyInv, Queued
<1>2. /\ i \in Ids /\ i \notin Registered /\ Registered' = Registered \union {i}
      /\ workloads'[i] = wl /\ \A j \in Registered : workloads'[j] = workloads[j]
      /\ \A q \in Pids : owner[q] # i
  BY DEF Found, FreshIds, Registered
<1>3. owner'[p] = i /\ \A q \in Pids \ {p} : owner'[q] = owner[q]
  BY DEF Found, Types, TypeOK
<1>4. Keeper(p) = None /\ Keeper(p)' = i
  BY <1>1, <1>2, <1>3, KeeperType DEF Keeper
<1>5. \A q \in Pids \ {p} : Keeper(q)' = Keeper(q)
  BY <1>2, <1>3 DEF Keeper
<1>6. \A q \in Pids : Keeper(q) # i
  <2>1. i # None
    BY <1>2, DaemonConfig
  <2> QED BY <1>2, <2>1 DEF Keeper
<1>7. Promised!Adopt(p, i)
  <2>1. {q \in Pids : Live(q)}' = {q \in Pids : Live(q)}
    BY <1>1 DEF Live
  <2>2. [q \in Pids |-> Keeper(q)]' = [[q \in Pids |-> Keeper(q)] EXCEPT ![p] = i]
    BY <1>4, <1>5
  <2>3. Promised!Members(i) = {}
    BY <1>6 DEF Promised!Members
  <2> QED BY <1>1, <1>4, <2>1, <2>2, <2>3 DEF Promised!Adopt
<1>8. Seen' /\ Queued'
  BY <1>1, <1>3 DEF CustodyInv, Seen, Queued, Live, Visited
<1>9. Ended'
  BY <1>1, <1>2 DEF CustodyInv, Ended, Live
<1>10. Tracked'
  <2>1. i # None
    BY <1>2, DaemonConfig
  <2> QED BY <1>1, <1>4, <1>5, <2>1 DEF CustodyInv, Tracked
<1> QED BY <1>1, <1>7, <1>8, <1>9, <1>10 DEF CustodyInv, FaultFree, Plain, Clean, Visited

\* A step of the daemon is one of Custody, or nothing Custody sees.
Allowed == Promised!Next \/ UNCHANGED Promised!custodyVars

LEMMA ClassificationAdopts ==
  ASSUME Types, CustodyInv, Classification PROVE Allowed /\ CustodyInv'
<1> PICK p \in todo : \/ Pass(p)
                      \/ \E c \in Profiles : Reclassify(p, c)
                      \/ \E ws \in Workspaces \union {Headless} :
                           (\E c \in Profiles : Discover(p, c, ws)) \/ Observe(p, ws)
  BY DEF Classification
<1>1. CASE Pass(p)
  <2>1. SameGroups
    BY <1>1 DEF Pass, SameGroups, Registered
  <2> QED BY <1>1, <2>1, VisitKeeps DEF Pass, Allowed
<1>2. ASSUME NEW c \in Profiles, Reclassify(p, c) PROVE Allowed /\ CustodyInv'
  <2>1. \A i \in Registered : workloads[i] \in Workload
    BY DEF Types, TypeOK
  <2>2. SameGroups /\ \A i \in Registered : workloads'[i].state = workloads[i].state
    BY <1>2, <2>1 DEF Reclassify, SameGroups, Registered, Workload
  <2> QED BY <1>2, <2>2, VisitKeeps DEF Reclassify, Allowed
<1>3. ASSUME NEW ws \in Workspaces \union {Headless}, NEW c \in Profiles, Discover(p, c, ws)
      PROVE  Allowed /\ CustodyInv'
  <2>1. p \in Pids /\ Unassigned(p) /\ Visited(p) /\ UNCHANGED snap
    BY <1>3 DEF Discover, Unassigned, Classifies, Types, TypeOK
  <2>2. PICK i \in FreshIds : Found(p, i, NewWorkload(p, c, FALSE, ws))
    BY <1>3 DEF Discover
  <2>3. Promised!Adopt(p, i) /\ CustodyInv'
    BY <2>1, <2>2, FoundAdopts DEF NewWorkload
  <2> QED BY <2>1, <2>3 DEF FreshIds, Allowed, Promised!Next
<1>4. ASSUME NEW ws \in Workspaces \union {Headless}, Observe(p, ws)
      PROVE  Allowed /\ CustodyInv'
  <2>1. p \in Pids /\ Unassigned(p) /\ Visited(p)
    BY <1>4 DEF Observe, Unassigned, Classifies, Types, TypeOK
  <2>2. PICK i \in FreshIds : Found(p, i, NewWorkload(p, Neutral, TRUE, ws))
    BY <1>4 DEF Observe
  <2>3. snap'.graph = snap.graph /\ snap'.zomb = snap.zomb
    BY <1>4 DEF Observe, Types, TypeOK, Snapshot
  <2>4. Promised!Adopt(p, i) /\ CustodyInv'
    BY <2>1, <2>2, <2>3, FoundAdopts DEF NewWorkload
  <2> QED BY <2>1, <2>4 DEF FreshIds, Allowed, Promised!Next
<1> QED BY <1>1, <1>2, <1>3, <1>4

LEMMA StartDriveUnseen ==
  ASSUME Types, CustodyInv, StartDrive
  PROVE  UNCHANGED Promised!custodyVars /\ CustodyInv'
<1> USE DEF kernelVars
<1>1. SameGroups /\ pc = "classify" /\ pc' = "drive" /\ run' = run
  BY DEF StartDrive, SameGroups, Registered
<1>2. \A p \in Pids : Keeper(p)' = Keeper(p)
  BY <1>1, KeeperKept
<1>3. UNCHANGED Promised!custodyVars
  BY <1>1, <1>2, Unseen DEF SamePlace
<1>4. snap'.graph = snap.graph /\ snap'.zomb = snap.zomb
  BY DEF StartDrive, Types, TypeOK, Snapshot
<1>5. Seen' /\ Queued' /\ Ended'
  BY <1>1, <1>4 DEF CustodyInv, Seen, Queued, Ended, Live, SameGroups, StartDrive
<1> QED BY <1>1, <1>2, <1>3, <1>5 DEF CustodyInv, FaultFree, Plain, Clean, Tracked, StartDrive

-----------------------------------------------------------------------------
\* Driving and reclaiming.

\* Only a reclaim ends a workload.
LEMMA TickNeverEnds ==
  ASSUME NEW wl \in Workload, NEW shown \in BOOLEAN, NEW activity, NEW pressure,
         wl.state # "TERMINATED"
  PROVE  Tick(wl, shown, activity, pressure).state # "TERMINATED"
<1> DEFINE t == Tick(wl, shown, activity, pressure)
<1>0. wl.state \in WorkloadState /\ Placed(shown, activity) # "TERMINATED"
  BY DEF Workload, Placed
<1>a. \A s : [wl EXCEPT !.state = s].state = s
  BY DEF Workload
<1>1. CASE wl.observed \/ wl.state = "DISCOVERED"
  BY <1>1, <1>0, <1>a DEF Tick
<1>2. CASE ~wl.observed /\ wl.state = "ACTIVE"
  BY <1>2, <1>0 DEF Tick, TickActive, Workload
<1>3. CASE ~wl.observed /\ wl.state = "BACKGROUND_EXECUTING"
  <2>1. t = TickBackground(wl, shown, activity)
    BY <1>3 DEF Tick
  <2> QED BY <1>3, <2>1 DEF TickBackground, Workload
<1>4. CASE ~wl.observed /\ wl.state = "IDLE"
  BY <1>4, <1>a DEF Tick, TickIdle
<1>5. CASE ~wl.observed /\ wl.state \in {"AGING", "RECLAIMABLE"}
  BY <1>5, <1>a DEF Tick, TickDecayed
<1> QED BY <1>0, <1>1, <1>2, <1>3, <1>4, <1>5 DEF WorkloadState

LEMMA ApplyIsAllowed ==
  ASSUME Types, CustodyInv, NEW i \in Registered, NEW wl, wl.pids = workloads[i].pids,
         NEW decision, Apply(wl, decision),
         \A p \in Pids : Keeper(p)' = Keeper(p), SamePlace, pc # "down"
  PROVE  /\ Allowed
         /\ \A p \in Pids : /\ run'[p] = "stopped" => run[p] = "stopped" \/ p \in wl.pids
                            /\ Live(p)' <=> Live(p)
<1> DEFINE ps == wl.pids
<1>1. Promised!Members(i) = ps /\ ps \subseteq Pids /\ i \in Ids
  BY MembersAre DEF Types, TypeOK, Workload
<1>2. \A p \in ps : ~Protected(p)
  BY <1>1, NobodySpared
<1>3. \/ \A p \in Pids : run'[p] = run[p]
      \/ run' = Sigcont(ps)
      \/ run' = Sigstop(ps)
  BY <1>2 DEF Apply, ProtectedAny, ApplyKeepFull, ApplyKeepBackground, ApplyThrottle, ApplyFreeze
<1>4. [p \in Pids |-> Keeper(p)]' = [p \in Pids |-> Keeper(p)]
  OBVIOUS
<1>5. CASE \A p \in Pids : run'[p] = run[p]
  BY <1>5, Unseen DEF Live, Allowed
<1>6. CASE run' = Sigcont(ps)
  <2>1. /\ {p \in Pids : Live(p)}' = {p \in Pids : Live(p)}
        /\ {p \in Pids : run[p] = "stopped"}' = {p \in Pids : run[p] = "stopped"} \ ps
    BY <1>6 DEF Live, Sigcont
  <2>2. Promised!Release(i)
    BY <1>1, <1>4, <2>1 DEF Promised!Release, SamePlace
  <2>3. Allowed
    BY <1>1, <2>2 DEF Allowed, Promised!Next
  <2> QED BY <1>6, <2>3 DEF Live, Sigcont
<1>7. CASE run' = Sigstop(ps)
  <2>1. /\ {p \in Pids : Live(p)}' = {p \in Pids : Live(p)}
        /\ {p \in Pids : run[p] = "stopped"}'
             = {p \in Pids : run[p] = "stopped"} \union (ps \intersect {p \in Pids : Live(p)})
    BY <1>1, <1>2, <1>7 DEF Live, Sigstop
  <2>2. Promised!Hold(i)
    BY <1>1, <1>4, <2>1 DEF Promised!Hold, SamePlace
  <2>3. Allowed
    BY <1>1, <2>2 DEF Allowed, Promised!Next
  <2> QED BY <1>7, <2>3 DEF Live, Sigstop
<1> QED BY <1>3, <1>5, <1>6, <1>7

LEMMA DriveAllowed ==
  ASSUME Types, CustodyInv, NEW i \in todo, Drive(i) PROVE Allowed /\ CustodyInv'
<1> USE DEF kernelVars
<1>1. i \in Registered /\ i \in Ids /\ pc = "drive" /\ Ticked(i).pids = workloads[i].pids
  BY TickedType DEF Drive, Types, TypeOK
<1>2. /\ SameGroups /\ workloads'[i] = Ticked(i)
      /\ \A j \in Registered \ {i} : workloads'[j] = workloads[j]
  BY <1>1 DEF Drive, SameGroups, Types, TypeOK, Registered
<1>3. \A p \in Pids : Keeper(p)' = Keeper(p)
  BY <1>2, KeeperKept
<1>4. /\ Allowed
      /\ \A p \in Pids : /\ run'[p] = "stopped" => run[p] = "stopped" \/ p \in workloads[i].pids
                         /\ Live(p)' <=> Live(p)
      /\ pc' \in {"drive", "grace"} /\ UNCHANGED <<kind, explicit>>
  <2>1. CASE UNCHANGED kernelVars /\ UNCHANGED <<pc, cur>>
    BY <2>1, <1>1, <1>3, Unseen DEF Allowed, SamePlace, Live
  <2>2. CASE Apply(Ticked(i), Decision(i, Ticked(i))) /\ UNCHANGED <<pc, cur>>
    BY <2>2, <1>1, <1>3, ApplyIsAllowed DEF SamePlace, Apply
  <2>3. CASE UNCHANGED kernelVars /\ pc' = "grace" /\ cur' = i
    <3>1. {p \in Pids : Live(p)}' = {p \in Pids : Live(p)}
      BY <2>3 DEF Live
    <3>2. [p \in Pids |-> Keeper(p)]' = [p \in Pids |-> Keeper(p)]
      BY <1>3
    <3>3. Promised!Announce(i)
      BY <1>1, <2>3, <3>1, <3>2 DEF Promised!Announce
    <3> QED BY <1>1, <2>3, <3>3 DEF Allowed, Promised!Next, Live
  <2> QED BY <2>1, <2>2, <2>3, <1>1 DEF Drive
<1>5. Tracked'
  <2>1. \A p \in workloads[i].pids \intersect Pids : Keeper(p) # None
    BY <1>1, KeeperType, DaemonConfig
  <2> QED BY <1>3, <1>4, <2>1 DEF CustodyInv, Tracked
<1>6. Seen'
  BY <1>1, <1>2, <1>4 DEF CustodyInv, Seen, SameGroups, Drive
<1>7. Ended'
  <2>1. Ticked(i).state = "TERMINATED" => workloads[i].state = "TERMINATED"
    BY <1>1, TickInputs, TickNeverEnds DEF Ticked, Types
  <2>2. \A j \in Registered : workloads[j].pids \subseteq Pids
    BY DEF Types, TypeOK, Workload
  <2> QED BY <1>2, <1>4, <2>1, <2>2 DEF CustodyInv, Ended, SameGroups
<1> QED BY <1>4, <1>5, <1>6, <1>7 DEF CustodyInv, FaultFree, Plain, Clean, Queued

LEMMA RecheckAllowed == ASSUME Types, CustodyInv, Recheck PROVE Allowed /\ CustodyInv'
<1> USE DEF kernelVars
<1>1. SameGroups /\ workloads' = workloads /\ run' = run /\ pc = "grace" /\ cur # None
  BY DaemonConfig DEF Recheck, SameGroups, Registered, Types, TypeOK
<1>2. \A p \in Pids : Keeper(p)' = Keeper(p)
  BY <1>1, KeeperKept
<1>3. Allowed
  <2>1. {p \in Pids : Live(p)}' = {p \in Pids : Live(p)}
    BY <1>1 DEF Live
  <2>2. [p \in Pids |-> Keeper(p)]' = [p \in Pids |-> Keeper(p)]
    BY <1>2
  <2>3. CASE pc' = "term" /\ UNCHANGED cur
    BY <1>1, <2>1, <2>2, <2>3 DEF Promised!AnnounceAgain, Promised!Next, Allowed
  <2>4. CASE pc' = "drive"
    BY <1>1, <2>1, <2>2, <2>4 DEF Promised!Pardon, Promised!Next, Allowed
  <2> QED BY <2>3, <2>4 DEF Recheck
<1>4. pc' \in {"drive", "term"} /\ UNCHANGED <<kind, explicit, snap, owner>>
  BY DEF Recheck
<1>5. Seen' /\ Ended' /\ Tracked'
  BY <1>1, <1>2, <1>4 DEF CustodyInv, Seen, Ended, Tracked, Live, SameGroups
<1> QED BY <1>1, <1>3, <1>4, <1>5 DEF CustodyInv, FaultFree, Plain, Clean, Queued

LEMMA KillExecutes == ASSUME Types, CustodyInv, Kill PROVE Allowed /\ CustodyInv'
<1>1. /\ cur \in Registered /\ cur \in Ids /\ cur # None /\ pc = "term" /\ pc' = "drive"
      /\ workloads[cur].pids \subseteq Pids
  BY DaemonConfig DEF Kill, Types, TypeOK, Workload
<1>2. \A i \in Registered : workloads[i] \in Workload
  BY DEF Types, TypeOK
<1>3. SameGroups /\ \A i \in Registered \ {cur} : workloads'[i] = workloads[i]
  BY <1>1, <1>2 DEF Kill, SameGroups, Registered, Workload
<1>4. \A p \in Pids : Keeper(p)' = Keeper(p)
  BY <1>3, KeeperKept
<1> DEFINE ps == workloads[cur].pids
<1>5. \A p \in Pids : run'[p] = IF p \in ps /\ Live(p) THEN "zombie" ELSE run[p]
  BY <1>1, NobodySpared DEF Kill, Die, Killed
<1>6. \A p \in Pids : Live(p)' <=> Live(p) /\ p \notin ps
  BY <1>5 DEF Live
<1>7. Promised!Execute
  <2>1. Promised!Members(cur) = ps
    BY <1>1, MembersAre
  <2>2. {p \in Pids : Live(p)}' = {p \in Pids : Live(p)} \ ps
    BY <1>6
  <2>3. {p \in Pids : run[p] = "stopped"}' = {p \in Pids : run[p] = "stopped"} \ ps
    BY <1>5 DEF Live
  <2>4. [p \in Pids |-> Keeper(p)]' = [p \in Pids |-> Keeper(p)]
    BY <1>4
  <2> QED BY <1>1, <2>1, <2>2, <2>3, <2>4 DEF Promised!Execute
<1>8. Ended'
  BY <1>1, <1>2, <1>3, <1>6 DEF CustodyInv, Ended, SameGroups, Workload
<1>9. Seen'
  BY <1>1, <1>6 DEF CustodyInv, Seen, Kill
<1>10. Tracked'
  BY <1>4, <1>5 DEF CustodyInv, Tracked
<1>11. Plain'
  BY DEF CustodyInv, Plain, Kill, Die
<1> QED BY <1>1, <1>7, <1>8, <1>9, <1>10, <1>11
        DEF CustodyInv, FaultFree, Clean, Queued, Allowed, Promised!Next

LEMMA EndTickDismisses == ASSUME Types, CustodyInv, EndTick PROVE Allowed /\ CustodyInv'
<1> USE DEF kernelVars
<1>1. pc = "drive" /\ pc' = "sleep" /\ run' = run
  BY DEF EndTick
<1>2. /\ Registered' = Kept /\ Kept \subseteq Registered
      /\ \A i \in Kept : workloads'[i].pids = Pruned(i) /\ workloads'[i].state = workloads[i].state
  <2>1. \A i \in Registered : workloads[i] \in Workload
    BY DEF Types, TypeOK
  <2> QED BY <2>1 DEF EndTick, Kept, Registered, Workload
<1>3. \A p \in Pids : owner'[p] = owner[p] \/ (owner'[p] = None /\ p \notin snap.graph)
  BY DEF EndTick
<1>4. ASSUME NEW p \in Pids, Keeper(p)' # None PROVE Keeper(p)' = Keeper(p)
  <2>1. owner'[p] = owner[p] /\ owner[p] \in Kept /\ p \in Pruned(owner[p])
    BY <1>2, <1>3, <1>4 DEF Keeper
  <2> QED BY <1>2, <2>1 DEF Keeper, Pruned
<1>5. ASSUME NEW p \in Pids, Live(p), Keeper(p) # None PROVE Keeper(p)' = Keeper(p)
  <2> DEFINE i == owner[p]
  <2>1. i \in Registered /\ p \in workloads[i].pids /\ i # None
    BY <1>5 DEF Keeper
  <2>2. p \in snap.graph \ snap.zomb
    BY <1>1, <1>5, <2>1 DEF CustodyInv, Seen
  <2>3. p \in Pruned(i) /\ i \in Kept
    BY <1>5, <2>1, <2>2 DEF Pruned, Kept, CustodyInv, Ended, Live
  <2>4. owner'[p] = i
    BY <1>3, <2>2
  <2> QED BY <1>2, <2>1, <2>3, <2>4 DEF Keeper
<1>6. Promised!Dismiss
  <2> DEFINE gone == {p \in Pids : ~Live(p) /\ Keeper(p)' = None}
  <2>1. \A p \in Pids : Keeper(p)' = IF p \in gone THEN None ELSE Keeper(p)
    BY <1>4, <1>5
  <2>2. [p \in Pids |-> Keeper(p)]'
          = [p \in Pids |-> IF p \in gone THEN None ELSE [q \in Pids |-> Keeper(q)][p]]
    BY <2>1
  <2>3. gone \in SUBSET (Pids \ {p \in Pids : Live(p)})
    OBVIOUS
  <2>4. {p \in Pids : Live(p)}' = {p \in Pids : Live(p)}
    BY <1>1 DEF Live
  <2> QED BY <1>1, <2>2, <2>3, <2>4 DEF Promised!Dismiss
<1>7. Tracked'
  BY <1>1, <1>5 DEF CustodyInv, Tracked, Live
<1>8. Ended'
  BY <1>1, <1>2 DEF CustodyInv, Ended, Live, Pruned
<1> QED BY <1>1, <1>6, <1>7, <1>8
        DEF CustodyInv, FaultFree, Plain, Clean, Seen, Queued, EndTick, Allowed, Promised!Next

-----------------------------------------------------------------------------
\* The machine around the daemon.

LEMMA SpawnAppears ==
  ASSUME Types, CustodyInv, NEW p \in Pids, NEW k \in Kinds, NEW inSlice \in BOOLEAN,
         Spawn(p, k, inSlice)
  PROVE  Allowed /\ CustodyInv'
<1>1. run[p] = "absent" /\ run' = [run EXCEPT ![p] = "running"] /\ k = "plain"
  BY DEF Spawn, CustodyInv, FaultFree
<1>2. /\ owner[p] = None /\ p \notin snap.graph
      /\ \A i \in Registered : p \notin workloads[i].pids
  BY DEF Spawn, Referenced, CustodyInv, FaultFree
<1>3. SameGroups /\ UNCHANGED <<pc, cur, todo, snap, owner, workloads, explicit>>
  BY DEF Spawn, SameGroups, daemonVars, Registered
<1>4. \A q \in Pids : Keeper(q)' = Keeper(q)
  BY <1>3, KeeperKept
<1>5. \A q \in Pids : run'[q] = IF q = p THEN "running" ELSE run[q]
  BY <1>1 DEF Types, TypeOK, KernelTypeOK
<1>6. Promised!Appear(p)
  <2>1. Keeper(p) = None
    BY <1>2, KeeperType
  <2>2. {q \in Pids : Live(q)}' = {q \in Pids : Live(q)} \union {p}
    BY <1>5 DEF Live
  <2>3. {q \in Pids : run[q] = "stopped"}' = {q \in Pids : run[q] = "stopped"}
    BY <1>1, <1>5
  <2>4. [q \in Pids |-> Keeper(q)]' = [q \in Pids |-> Keeper(q)]
    BY <1>4
  <2> QED BY <1>1, <1>3, <2>1, <2>2, <2>3, <2>4 DEF Promised!Appear, Live
<1>7. Plain'
  BY <1>1, <1>3 DEF CustodyInv, Plain, Spawn, Types, TypeOK, KernelTypeOK
<1>8. Clean' /\ Tracked'
  BY <1>3, <1>4, <1>5 DEF CustodyInv, Clean, Tracked, SameGroups
<1>9. Seen' /\ Queued'
  BY <1>2, <1>3, <1>5 DEF CustodyInv, Seen, Queued, Live
<1>10. Ended'
  <2>1. \A i \in Registered : workloads[i].pids \subseteq Pids
    BY DEF Types, TypeOK, Workload
  <2> QED BY <1>2, <1>3, <1>5, <2>1 DEF CustodyInv, Ended, SameGroups, Live
<1> QED BY <1>6, <1>7, <1>8, <1>9, <1>10 DEF CustodyInv, FaultFree, Allowed, Promised!Next

LEMMA ExitDeparts ==
  ASSUME Types, CustodyInv, NEW p \in Pids, Exit(p) PROVE Allowed /\ CustodyInv'
<1>1. \A q \in Pids : run'[q] = IF q = p THEN "zombie" ELSE run[q]
  BY DEF Exit, Die
<1>2. SameGroups /\ UNCHANGED <<pc, cur, todo, snap, owner, workloads, explicit>>
  BY DEF Exit, SameGroups, daemonVars, Registered
<1>3. \A q \in Pids : Keeper(q)' = Keeper(q)
  BY <1>2, KeeperKept
<1>4. Promised!Depart(p)
  <2>1. {q \in Pids : Live(q)}' = {q \in Pids : Live(q)} \ {p}
    BY <1>1 DEF Live
  <2>2. {q \in Pids : run[q] = "stopped"}' = {q \in Pids : run[q] = "stopped"} \ {p}
    BY <1>1
  <2>3. [q \in Pids |-> Keeper(q)]' = [q \in Pids |-> Keeper(q)]
    BY <1>3
  <2> QED BY <1>2, <2>1, <2>2, <2>3 DEF Promised!Depart, Exit
<1>5. Plain'
  BY DEF CustodyInv, Plain, Exit, Die
<1>6. Clean' /\ Tracked'
  BY <1>1, <1>2, <1>3 DEF CustodyInv, Clean, Tracked, SameGroups
<1>7. Seen' /\ Queued'
  BY <1>1, <1>2 DEF CustodyInv, Seen, Queued, Live
<1>8. Ended'
  <2>1. \A i \in Registered : workloads[i].pids \subseteq Pids
    BY DEF Types, TypeOK, Workload
  <2> QED BY <1>1, <1>2, <2>1 DEF CustodyInv, Ended, SameGroups, Live
<1> QED BY <1>4, <1>5, <1>6, <1>7, <1>8 DEF CustodyInv, FaultFree, Allowed, Promised!Next

\* What neither ends a living process nor makes one.
LEMMA QuietSteps ==
  ASSUME Types, CustodyInv, SameGroups, UNCHANGED <<pc, cur, todo, snap, kind, explicit>>,
         \A i \in Registered : workloads'[i].state = workloads[i].state,
         \A p \in Pids : run'[p] = run[p] \/ (run[p] = "zombie" /\ run'[p] = "absent")
  PROVE  Allowed /\ CustodyInv'
<1>1. \A p \in Pids : Keeper(p)' = Keeper(p)
  BY KeeperKept
<1>2. \A p \in Pids : (Live(p)' <=> Live(p)) /\ (run'[p] = "stopped" <=> run[p] = "stopped")
  BY DEF Live
<1>3. UNCHANGED Promised!custodyVars
  <2>1. {p \in Pids : Live(p)}' = {p \in Pids : Live(p)}
    BY <1>2
  <2>2. {p \in Pids : run[p] = "stopped"}' = {p \in Pids : run[p] = "stopped"}
    BY <1>2
  <2>3. [p \in Pids |-> Keeper(p)]' = [p \in Pids |-> Keeper(p)]
    BY <1>1
  <2> QED BY <2>1, <2>2, <2>3 DEF Promised!custodyVars
<1>4. Plain' /\ Clean' /\ Tracked'
  BY <1>1, <1>2 DEF CustodyInv, Plain, Clean, Tracked, SameGroups
<1>5. Seen' /\ Queued'
  BY <1>2 DEF CustodyInv, Seen, Queued, SameGroups
<1>6. Ended'
  <2>1. \A i \in Registered : workloads[i].pids \subseteq Pids
    BY DEF Types, TypeOK, Workload
  <2> QED BY <1>2, <2>1 DEF CustodyInv, Ended, SameGroups
<1> QED BY <1>3, <1>4, <1>5, <1>6 DEF CustodyInv, FaultFree, Allowed

LEMMA EnvironmentAllowed ==
  ASSUME Types, CustodyInv, Environment PROVE Allowed /\ CustodyInv'
<1> USE DEF daemonVars, kernelVars
<1>1. ASSUME NEW p \in Pids, NEW k \in Kinds, Exec(p, k) PROVE FALSE
  BY <1>1 DEF Exec, CustodyInv, FaultFree
<1>2. ASSUME NEW p \in Pids, Reap(p) PROVE Allowed /\ CustodyInv'
  <2>1. \A q \in Pids : run'[q] = run[q] \/ (run[q] = "zombie" /\ run'[q] = "absent")
    BY <1>2 DEF Reap, Types, TypeOK, KernelTypeOK
  <2> QED BY <1>2, <2>1, QuietSteps DEF Reap, SameGroups, Registered
<1>3. ASSUME NEW p \in Pids, Toggle(p) PROVE Allowed /\ CustodyInv'
  BY <1>3, QuietSteps DEF Toggle, SameGroups, Registered
<1>4. ASSUME NEW w \in Workspaces, Switch(w) PROVE Allowed /\ CustodyInv'
  BY <1>4, QuietSteps DEF Switch, SameGroups, Registered
<1>5. ASSUME NEW i \in Registered, Elapse(i) PROVE Allowed /\ CustodyInv'
  <2>1. \A j \in Registered : workloads[j] \in Workload
    BY DEF Types, TypeOK
  <2>2. SameGroups /\ \A j \in Registered : workloads'[j].state = workloads[j].state
    BY <1>5, <2>1 DEF Elapse, SameGroups, Registered, Workload
  <2> QED BY <1>5, <2>2, QuietSteps DEF Elapse
<1> QED BY <1>1, <1>2, <1>3, <1>4, <1>5, SpawnAppears, ExitDeparts DEF Environment

-----------------------------------------------------------------------------
\* The refinement.

LEMMA InitIsPromised == FaultFree /\ Init => Promised!Init /\ CustodyInv
<1> SUFFICES ASSUME FaultFree, Init PROVE Promised!Init /\ CustodyInv
  OBVIOUS
<1>1. /\ Registered = {} /\ pc = "down"
      /\ \A p \in Pids : owner[p] = None /\ run[p] = "absent"
  BY DEF Init, Registered
<1>2. \A p \in Pids : Keeper(p) = None /\ ~Live(p)
  BY <1>1 DEF Keeper, Live
<1>3. Promised!Init
  BY <1>1, <1>2 DEF Promised!Init
<1>4. Plain /\ Clean /\ Tracked /\ Seen /\ Queued /\ Ended
  BY <1>1 DEF Init, Plain, Clean, Tracked, Seen, Queued, Ended
<1> QED BY <1>3, <1>4 DEF CustodyInv

LEMMA StepIsAllowed == Types /\ CustodyInv /\ [Next]_vars => Allowed /\ CustodyInv'
<1> SUFFICES ASSUME Types, CustodyInv, [Next]_vars PROVE Allowed /\ CustodyInv'
  OBVIOUS
<1>1. CASE Start
  BY <1>1, StartOpens DEF Allowed, Promised!Next
<1>2. CASE Shutdown
  BY <1>2, ShutdownCloses DEF Allowed, Promised!Next
<1>3. CASE Crash
  BY <1>3 DEF Crash, CustodyInv, FaultFree
<1>4. CASE DaemonStep
  BY <1>4, BeginTickUnseen, ClassificationAdopts, StartDriveUnseen, DriveAllowed,
     RecheckAllowed, KillExecutes, EndTickDismisses DEF DaemonStep, Allowed
<1>5. CASE Environment
  BY <1>5, EnvironmentAllowed
<1>6. CASE UNCHANGED vars
  BY <1>6, QuietSteps DEF vars, kernelVars, daemonVars, SameGroups, Registered
<1> QED BY <1>1, <1>2, <1>3, <1>4, <1>5, <1>6 DEF Next

\* A daemon that does not crash implements Custody, whatever it classifies and decides: it
\* stops and continues workloads as a whole, forgets nobody it stopped, founds every
\* workload on one process after the start, and kills one workload at a time after both
\* checks (main, the tick loop and ReclaimEngine::reclaim).
THEOREM CustodyKept == FaultFree /\ Spec => KeepsCustody
<1>1. FaultFree /\ Spec => [](Types /\ CustodyInv)
  <2>1. Types /\ CustodyInv /\ [Next]_vars => CustodyInv'
    BY StepIsAllowed
  <2>2. Types <=> TypeOK /\ OwnershipConsistent
    BY DEF Types
  <2> QED BY <2>1, <2>2, InitIsPromised, TypeCorrect, OwnershipCorrect, PTL DEF Spec
<1>2. Types /\ CustodyInv /\ [Next]_vars => [Promised!Next]_(Promised!custodyVars)
  BY StepIsAllowed DEF Allowed
<1> QED BY <1>1, <1>2, InitIsPromised, PTL DEF Spec, KeepsCustody, Promised!Spec

\* Without a crash, whoever the daemon stopped is a member of a registered workload, through
\* reclaims, evictions and shutdowns: some later turn can release it.
THEOREM StoppedTracked == FaultFree /\ Spec => []StoppedIsTracked
<1>1. FaultFree /\ Spec => []Tracked
  <2>1. Types /\ CustodyInv /\ [Next]_vars => CustodyInv'
    BY StepIsAllowed
  <2>2. Types <=> TypeOK /\ OwnershipConsistent
    BY DEF Types
  <2>3. CustodyInv => Tracked
    BY DEF CustodyInv
  <2> QED BY <2>1, <2>2, <2>3, InitIsPromised, TypeCorrect, OwnershipCorrect, PTL DEF Spec
<1>2. Tracked => StoppedIsTracked
  BY DEF Tracked, StoppedIsTracked, Keeper
<1> QED BY <1>1, <1>2, PTL
=============================================================================
