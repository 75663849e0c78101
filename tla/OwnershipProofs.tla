-------------------------- MODULE OwnershipProofs --------------------------
(***************************************************************************)
(* Machine-checked proofs about the trees of processes that the daemon reads: *)
(* bootstrap(), for every set of process numbers and everything the machine   *)
(* does during the scan, and what founds a workload, for every number of       *)
(* processes, images and titles.                                              *)
(***************************************************************************)
EXTENDS Ownership, Classifier, FiniteSetTheorems, TLAPS

-----------------------------------------------------------------------------
\* Type correctness.

LEMMA InitType == Init => OwnershipTypeOK
<1> SUFFICES ASSUME Init PROVE OwnershipTypeOK
  OBVIOUS
<1>1. DOMAIN parent = {} /\ DOMAIN owner = {} /\ DOMAIN stubs = {}
  BY DEF Init
<1>2. 1..(next_id - 1) = {} /\ next_id \in Nat \ {0}
  BY DEF Init
<1>3. stubs \in [1..(next_id - 1) -> [root_pid : Pids, pids : SUBSET Pids]]
  BY <1>1, <1>2 DEF Init
<1> QED BY <1>1, <1>2, <1>3 DEF Init, OwnershipTypeOK, Alive

\* What the machine does touches only the process table.
LEMMA MachineType == OwnershipTypeOK /\ Machine => OwnershipTypeOK'
<1> SUFFICES ASSUME OwnershipTypeOK, Machine PROVE OwnershipTypeOK'
  OBVIOUS
<1>1. CASE \E p \in Pids, q \in Alive \union {1}, hint \in BOOLEAN : Spawn(p, q, hint)
  BY <1>1 DEF Spawn, OwnershipTypeOK, Alive
<1>2. CASE \E p \in Alive : Exit(p)
  BY <1>2 DEF Exit, Gone, OwnershipTypeOK, Alive
<1> QED BY <1>1, <1>2 DEF Machine

\* A new entry has a number that no entry has.
LEMMA ScanType == OwnershipTypeOK /\ Scan => OwnershipTypeOK'
<1> SUFFICES ASSUME OwnershipTypeOK, Scan PROVE OwnershipTypeOK'
  OBVIOUS
<1>1. \A p \in Alive : Reads(p) => \A e \in entries : e.pid # p
  <2> SUFFICES ASSUME NEW p \in Alive, Reads(p), NEW e \in entries PROVE e.pid # p
    OBVIOUS
  <2>1. e.pid < p /\ e.pid \in Nat /\ p \in Nat
    BY PidNumbers DEF Reads, Unread, OwnershipTypeOK, ProcEntry
  <2> QED BY <2>1
<1>2. ASSUME NEW p \in Alive, NEW e \in ProcEntry, pc = "scan", Reads(p), e.pid = p,
             entries' = entries \union {e}, UNCHANGED <<pc, todo, owner, stubs, next_id>>,
             Alive' \subseteq Alive, hinted' \subseteq Alive',
             \A q \in Alive' : parent'[q] \in Pids \union {1}
      PROVE  OwnershipTypeOK'
  <2>1. /\ entries' \subseteq ProcEntry /\ todo' \subseteq entries'
        /\ \A f, g \in entries' : f.pid = g.pid => f = g
    BY <1>1, <1>2 DEF OwnershipTypeOK
  <2>2. DOMAIN owner' = {} /\ todo' = {}
    BY <1>2 DEF OwnershipTypeOK
  <2> QED BY <1>2, <2>1, <2>2 DEF OwnershipTypeOK, Alive
<1>3. ASSUME NEW p \in Alive, Collect(p) \/ CollectGone(p) PROVE OwnershipTypeOK'
  <2>1. p \in Pids /\ parent[p] \in Ppids /\ 0 \in Ppids
    BY DEF OwnershipTypeOK, Ppids
  <2>2. CASE Collect(p)
    <3> DEFINE e == [pid |-> p, ppid |-> parent[p], hinted |-> p \in hinted]
    <3>1. e \in ProcEntry /\ e.pid = p
      BY <2>1 DEF ProcEntry
    <3> HIDE DEF e
    <3> QED BY <1>2, <2>2, <3>1 DEF Collect, kernelVars, OwnershipTypeOK, Alive, e
  <2>3. CASE CollectGone(p)
    <3> DEFINE e == [pid |-> p, ppid |-> 0, hinted |-> FALSE]
    <3>1. e \in ProcEntry /\ e.pid = p
      BY <2>1 DEF ProcEntry
    <3>2. /\ Alive' \subseteq Alive /\ hinted' \subseteq Alive'
          /\ \A q \in Alive' : parent'[q] \in Pids \union {1}
      BY <2>3 DEF CollectGone, Gone, OwnershipTypeOK, Alive
    <3> QED BY <1>2, <2>3, <3>1, <3>2 DEF CollectGone
  <2> QED BY <1>3, <2>2, <2>3
<1>4. CASE ScanEnds
  BY <1>4 DEF ScanEnds, OwnershipTypeOK, Alive, kernelVars
<1> QED BY <1>3, <1>4 DEF Scan

\* The entry that is decided was not decided before.
LEMMA Undecided ==
  ASSUME OwnershipTypeOK, NEW e \in todo
  PROVE  e \in ProcEntry /\ e \in entries /\ e.pid \notin DOMAIN owner
BY DEF OwnershipTypeOK

LEMMA AssignType == OwnershipTypeOK /\ Assign => OwnershipTypeOK'
<1> SUFFICES ASSUME OwnershipTypeOK, Assign PROVE OwnershipTypeOK'
  OBVIOUS
<1>1. CASE Finish
  BY <1>1 DEF Finish, OwnershipTypeOK, Alive, kernelVars
<1>2. ASSUME NEW e \in todo, Inherit(e) PROVE OwnershipTypeOK'
  <2> DEFINE i == owner[e.ppid]
  <2>1. i \in DOMAIN stubs /\ e.pid \notin DOMAIN owner /\ e \in entries
    BY <1>2, Undecided DEF Inherit, Inherits, OwnershipTypeOK
  <2>2. /\ DOMAIN owner' = DOMAIN owner \union {e.pid} /\ owner'[e.pid] = i
        /\ \A p \in DOMAIN owner : owner'[p] = owner[p]
    BY <1>2, <2>1 DEF Inherit, Assigned, Heir
  <2>3. /\ DOMAIN stubs' = DOMAIN stubs
        /\ stubs'[i].pids = stubs[i].pids \union {e.pid}
        /\ stubs'[i].root_pid = stubs[i].root_pid
        /\ \A j \in DOMAIN stubs : j # i => stubs'[j] = stubs[j]
    <3>1. stubs' = [stubs EXCEPT ![i].pids = @ \union {e.pid}]
      BY <1>2 DEF Inherit, Heir
    <3>2. stubs[i] \in [root_pid : Pids, pids : SUBSET Pids]
      BY <2>1 DEF OwnershipTypeOK
    <3> HIDE DEF i
    <3> QED BY <2>1, <3>1, <3>2
  <2>4. e.pid \in Pids /\ i \in 1..(next_id - 1)
    BY <1>2, <2>1, Undecided DEF OwnershipTypeOK, ProcEntry
  <2>5. stubs' \in [1..(next_id - 1) -> [root_pid : Pids, pids : SUBSET Pids]]
    <3>1. stubs' = [stubs EXCEPT ![i].pids = @ \union {e.pid}]
      BY <1>2 DEF Inherit, Heir
    <3> HIDE DEF i
    <3> QED BY <2>4, <3>1 DEF OwnershipTypeOK
  <2>6. \A j \in DOMAIN stubs' : /\ stubs'[j].pids = {p \in DOMAIN owner' : owner'[p] = j}
                                 /\ stubs'[j].root_pid \in stubs'[j].pids
    <3> HIDE DEF i
    <3> QED BY <2>1, <2>2, <2>3 DEF OwnershipTypeOK
  <2> HIDE DEF i
  <2> QED BY <1>2, <2>1, <2>2, <2>3, <2>5, <2>6 DEF Inherit, OwnershipTypeOK, Alive, kernelVars
<1>3. ASSUME NEW e \in todo, Found(e) PROVE OwnershipTypeOK'
  <2>1. next_id \notin DOMAIN stubs /\ e.pid \notin DOMAIN owner /\ e \in entries
        /\ e.pid \in Pids
    BY Undecided DEF OwnershipTypeOK, ProcEntry
  <2>2. /\ DOMAIN owner' = DOMAIN owner \union {e.pid} /\ owner'[e.pid] = next_id
        /\ \A p \in DOMAIN owner : owner'[p] = owner[p]
    BY <1>3, <2>1 DEF Found, Assigned
  <2>3. /\ DOMAIN stubs' = DOMAIN stubs \union {next_id}
        /\ stubs'[next_id] = [root_pid |-> e.pid, pids |-> {e.pid}]
        /\ \A j \in DOMAIN stubs : stubs'[j] = stubs[j]
    BY <1>3, <2>1 DEF Found
  <2>4. next_id' = next_id + 1 /\ next_id' \in Nat \ {0}
        /\ 1..(next_id' - 1) = (1..(next_id - 1)) \union {next_id}
    BY <1>3 DEF Found, OwnershipTypeOK
  <2>5. stubs' \in [1..(next_id' - 1) -> [root_pid : Pids, pids : SUBSET Pids]]
    <3>1. stubs' = [j \in DOMAIN stubs \union {next_id} |->
                     IF j = next_id THEN [root_pid |-> e.pid, pids |-> {e.pid}] ELSE stubs[j]]
      BY <1>3 DEF Found
    <3> QED BY <2>1, <2>4, <3>1 DEF OwnershipTypeOK
  <2>6. \A p \in DOMAIN owner : owner[p] # next_id
    BY <2>1 DEF OwnershipTypeOK
  <2>7. \A j \in DOMAIN stubs' : /\ stubs'[j].pids = {p \in DOMAIN owner' : owner'[p] = j}
                                 /\ stubs'[j].root_pid \in stubs'[j].pids
    BY <2>1, <2>2, <2>3, <2>6 DEF OwnershipTypeOK
  <2> QED BY <1>3, <2>1, <2>2, <2>3, <2>4, <2>5, <2>7
          DEF Found, OwnershipTypeOK, Alive, kernelVars
<1>4. ASSUME NEW e \in todo, Leave(e) PROVE OwnershipTypeOK'
  BY <1>4 DEF Leave, OwnershipTypeOK, Alive, kernelVars
<1> QED BY <1>1, <1>2, <1>3, <1>4 DEF Assign

\* For every machine: bootstrap keeps pid_to_wl_ and the stubs in agreement.
THEOREM OwnershipTypeCorrect == Spec => []OwnershipTypeOK
<1>1. OwnershipTypeOK /\ [Next]_vars => OwnershipTypeOK'
  <2>1. OwnershipTypeOK /\ UNCHANGED vars => OwnershipTypeOK'
    BY DEF vars, kernelVars, OwnershipTypeOK, Alive
  <2> QED BY <2>1, MachineType, ScanType, AssignType DEF Next
<1> QED BY <1>1, InitType, PTL DEF Spec

-----------------------------------------------------------------------------
\* What the steps of Assign have in common.

MachineSteps == UNCHANGED <<pc, entries, todo, owner, stubs, next_id>>

LEMMA MachineLeaves == Machine \/ UNCHANGED vars => MachineSteps
BY DEF Machine, Spawn, Exit, vars, MachineSteps

\* During the scan nothing is owned.
LEMMA ScanOwnsNothing ==
  OwnershipTypeOK /\ Scan => DOMAIN owner = {} /\ DOMAIN owner' = {} /\ UNCHANGED stubs
BY DEF Scan, Collect, CollectGone, ScanEnds, OwnershipTypeOK

\* Deciding e: the other processes keep their workload.
Decides(e) ==
  /\ First(e) /\ todo' = todo \ {e} /\ entries' = entries
  /\ \A p \in DOMAIN owner : p \in DOMAIN owner' /\ owner'[p] = owner[p]
  /\ DOMAIN owner' \subseteq DOMAIN owner \union {e.pid}
  /\ Inherits(e) => e.pid \in DOMAIN owner' /\ owner'[e.pid] = owner[e.ppid]

LEMMA AssignDecides ==
  ASSUME OwnershipTypeOK, Assign
  PROVE  Finish \/ \E e \in todo : Decides(e)
<1>1. ASSUME NEW e \in todo, Inherit(e) PROVE Decides(e)
  <2>1. e.pid \notin DOMAIN owner
    BY Undecided
  <2> QED BY <1>1, <2>1 DEF Inherit, Assigned, Heir, Decides
<1>2. ASSUME NEW e \in todo, Found(e) PROVE Decides(e)
  <2>1. e.pid \notin DOMAIN owner
    BY Undecided
  <2> QED BY <1>2, <2>1 DEF Found, Assigned, Decides
<1>3. ASSUME NEW e \in todo, Leave(e) PROVE Decides(e)
  BY <1>3 DEF Leave, Decides
<1> QED BY <1>1, <1>2, <1>3 DEF Assign

-----------------------------------------------------------------------------
\* Families.

\* The loop has decided a prefix of the sorted entries.
Sorted == \A e \in entries \ todo, f \in todo : e.ppid <= f.ppid

FamilyInv == Sorted /\ FamilyTogether

LEMMA FamilyDecide ==
  ASSUME OwnershipTypeOK, FamilyInv, NEW e \in todo, Decides(e)
  PROVE  FamilyInv'
<1>1. \A f \in entries : f.ppid \in Nat /\ f.pid \in Nat
  <2>1. Pids \subseteq Nat /\ Ppids \subseteq Nat
    BY PidNumbers DEF Ppids
  <2>2. \A f \in entries : f.ppid \in Ppids /\ f.pid \in Pids
    BY DEF OwnershipTypeOK, ProcEntry
  <2> QED BY <2>1, <2>2
<1>2. e \in entries /\ e.pid \notin DOMAIN owner /\ todo \subseteq entries
  BY Undecided DEF OwnershipTypeOK
<1>3. entries' = entries /\ todo' = todo \ {e} /\ \A f \in todo : e.ppid <= f.ppid
  BY DEF Decides, First
<1>4. Sorted'
  BY <1>2, <1>3 DEF FamilyInv, Sorted
<1>5. FamilyTogether'
  <2> SUFFICES ASSUME Ascending, NEW c \in entries \ todo', NEW f \in entries,
                      c.ppid = f.pid, f.pid \in DOMAIN owner'
               PROVE  c.pid \in DOMAIN owner' /\ owner'[c.pid] = owner'[f.pid]
    BY <1>3 DEF FamilyTogether, Ascending
  <2>1. CASE c = e
    <3>1. f.pid # e.pid
      BY <1>1, <1>2, <2>1 DEF Ascending
    <3>2. f.pid \in DOMAIN owner
      BY <3>1 DEF Decides
    <3> QED BY <2>1, <3>2 DEF Decides, Inherits
  <2>2. CASE c # e
    <3>1. c \in entries \ todo
      BY <1>3, <2>2
    <3>2. CASE f.pid \in DOMAIN owner
      BY <3>1, <3>2 DEF Decides, FamilyInv, FamilyTogether
    <3>3. CASE f.pid \notin DOMAIN owner
      \* f was decided just now, after its child c: sorting excludes it.
      <4>1. f = e
        BY <1>2, <3>3 DEF Decides, OwnershipTypeOK
      <4>2. c.ppid <= e.ppid
        BY <3>1 DEF FamilyInv, Sorted
      <4> QED BY <1>1, <1>2, <3>1, <4>1, <4>2 DEF Ascending
    <3> QED BY <3>2, <3>3
  <2> QED BY <2>1, <2>2
<1> QED BY <1>4, <1>5 DEF FamilyInv

LEMMA FamilyStep == OwnershipTypeOK /\ FamilyInv /\ [Next]_vars => FamilyInv'
<1> SUFFICES ASSUME OwnershipTypeOK, FamilyInv, [Next]_vars PROVE FamilyInv'
  OBVIOUS
<1>1. CASE MachineSteps
  BY <1>1 DEF MachineSteps, FamilyInv, Sorted, FamilyTogether, Ascending
<1>2. CASE Scan
  <2>1. DOMAIN owner' = {}
    BY <1>2, ScanOwnsNothing
  <2>2. todo' = {} \/ todo' = entries'
    BY <1>2 DEF Scan, Collect, CollectGone, ScanEnds, OwnershipTypeOK
  <2> QED BY <2>1, <2>2 DEF FamilyInv, Sorted, FamilyTogether
<1>3. CASE Assign
  <2>1. CASE Finish
    BY <2>1 DEF Finish, FamilyInv, Sorted, FamilyTogether, Ascending
  <2> QED BY <1>3, <2>1, AssignDecides, FamilyDecide
<1> QED BY <1>1, <1>2, <1>3, MachineLeaves DEF Next

\* For every machine whose numbers did not wrap around: no process is decided
\* before its parent, so the members of a family stay in one workload.
THEOREM FamiliesStay == Spec => []FamilyTogether
<1>1. Init => FamilyInv
  BY DEF Init, FamilyInv, Sorted, FamilyTogether
<1>2. FamilyInv => FamilyTogether
  BY DEF FamilyInv
<1> QED BY <1>1, <1>2, FamilyStep, OwnershipTypeCorrect, PTL DEF Spec

-----------------------------------------------------------------------------
\* Groups.

LEMMA GroupsStep ==
  OwnershipTypeOK /\ OwnershipTypeOK' /\ GroupsConnected /\ [Next]_vars => GroupsConnected'
<1> SUFFICES ASSUME OwnershipTypeOK, OwnershipTypeOK', GroupsConnected, [Next]_vars
             PROVE  GroupsConnected'
  OBVIOUS
<1>1. CASE MachineSteps
  BY <1>1 DEF MachineSteps, GroupsConnected
<1>2. CASE Scan
  BY <1>2, ScanOwnsNothing DEF GroupsConnected
<1>3. CASE Finish
  BY <1>3 DEF Finish, GroupsConnected
<1>4. ASSUME NEW e \in todo, Leave(e) PROVE GroupsConnected'
  BY <1>4 DEF Leave, GroupsConnected
<1>5. ASSUME NEW e \in todo, Inherit(e) PROVE GroupsConnected'
  <2> SUFFICES ASSUME NEW f \in entries, f.pid \in DOMAIN owner'
               PROVE  \/ f.pid = stubs'[owner'[f.pid]].root_pid
                      \/ f.ppid \in stubs'[owner'[f.pid]].pids
    BY <1>5 DEF Inherit, GroupsConnected
  <2>1. PICK i : i = owner[e.ppid]
    OBVIOUS
  <2>2. e.pid \notin DOMAIN owner /\ e.ppid \in DOMAIN owner /\ i \in DOMAIN stubs
    BY <1>5, <2>1, Undecided DEF Inherit, Inherits, OwnershipTypeOK
  <2>3. /\ owner'[e.pid] = i /\ DOMAIN owner' = DOMAIN owner \union {e.pid}
        /\ \A p \in DOMAIN owner : owner'[p] = owner[p]
    BY <1>5, <2>1, <2>2 DEF Inherit, Assigned, Heir
  <2>4. /\ stubs' = [stubs EXCEPT ![i].pids = @ \union {e.pid}]
        /\ \A j \in DOMAIN stubs : stubs[j] \in [root_pid : Pids, pids : SUBSET Pids]
    BY <1>5, <2>1 DEF Inherit, Heir, OwnershipTypeOK
  <2>5. \A j \in DOMAIN stubs : /\ stubs'[j].root_pid = stubs[j].root_pid
                               /\ stubs[j].pids \subseteq stubs'[j].pids
    BY <2>2, <2>4
  <2>6. CASE f.pid \in DOMAIN owner
    BY <2>3, <2>5, <2>6 DEF GroupsConnected, OwnershipTypeOK
  <2>7. CASE f.pid = e.pid
    <3>1. f = e
      BY <2>7, Undecided DEF OwnershipTypeOK
    <3>2. e.ppid \in stubs[i].pids
      BY <2>1, <2>2 DEF OwnershipTypeOK
    <3> QED BY <2>2, <2>3, <2>5, <3>1, <3>2
  <2> QED BY <2>3, <2>6, <2>7
<1>6. ASSUME NEW e \in todo, Found(e) PROVE GroupsConnected'
  <2> SUFFICES ASSUME NEW f \in entries, f.pid \in DOMAIN owner'
               PROVE  \/ f.pid = stubs'[owner'[f.pid]].root_pid
                      \/ f.ppid \in stubs'[owner'[f.pid]].pids
    BY <1>6 DEF Found, GroupsConnected
  <2>1. e.pid \notin DOMAIN owner
    BY Undecided
  <2>2. \A p \in DOMAIN owner : owner[p] \in DOMAIN stubs /\ owner[p] # next_id
    BY DEF OwnershipTypeOK
  <2>3. /\ owner'[e.pid] = next_id /\ DOMAIN owner' = DOMAIN owner \union {e.pid}
        /\ \A p \in DOMAIN owner : owner'[p] = owner[p]
    BY <1>6, <2>1 DEF Found, Assigned
  <2>4. /\ stubs'[next_id].root_pid = e.pid
        /\ \A j \in DOMAIN stubs : j # next_id => stubs'[j] = stubs[j]
    BY <1>6 DEF Found
  <2> QED BY <2>1, <2>2, <2>3, <2>4 DEF GroupsConnected
<1> QED BY <1>1, <1>2, <1>3, <1>4, <1>5, <1>6, MachineLeaves DEF Next, Assign

\* For every machine, also when numbers wrapped around: a group holds its founder
\* and processes whose parent, as it was read, is in the group.
THEOREM GroupsAreFamilies == Spec => []GroupsConnected
<1>1. Init => GroupsConnected
  BY DEF Init, GroupsConnected
<1> QED BY <1>1, GroupsStep, OwnershipTypeCorrect, PTL DEF Spec

-----------------------------------------------------------------------------
\* Founders.

\* Induction over a set of numbers.
LEMMA EveryNat ==
  ASSUME NEW P, 0 \in P, \A k \in Nat : k \in P => k + 1 \in P
  PROVE  Nat \subseteq P
<1> DEFINE T == Nat \ P
<1> SUFFICES ASSUME T # {} PROVE FALSE
  OBVIOUS
<1>1. PICK x \in T : \A y \in T : ~(<<y, x>> \in OpToRel(<, Nat))
  BY NatLessThanWellFounded, WFMin, Zenon
<1>2. \A y \in T : ~(y < x)
  BY <1>1 DEF OpToRel
<1>3. x - 1 \in Nat /\ x - 1 < x
  OBVIOUS
<1> QED BY <1>2, <1>3

\* There is a number above all process numbers.
LEMMA Highest == \E m \in Nat : \A p \in Pids : p < m
<1> DEFINE n == Cardinality(Pids)
<1>1. n \in Nat /\ ExistsBijection(1..n, Pids)
  BY PidNumbers, FS_CardinalityType
<1>2. PICK h \in [1..n -> Pids] : \A p \in Pids : \E i \in 1..n : h[i] = p
  BY <1>1 DEF ExistsBijection, Bijection, Surjection
<1> HIDE DEF n
<1> DEFINE P == {k \in Nat : k <= n => \E m \in Nat : \A i \in 1..k : h[i] < m}
<1>3. 0 \in P
  BY DEF P
<1>4. ASSUME NEW k \in Nat, k \in P PROVE k + 1 \in P
  <2> SUFFICES ASSUME k + 1 <= n PROVE \E m \in Nat : \A i \in 1..(k + 1) : h[i] < m
    OBVIOUS
  <2>1. PICK m \in Nat : \A i \in 1..k : h[i] < m
    BY <1>1, <1>4
  <2>2. h[k + 1] \in Nat /\ \A i \in 1..k : h[i] \in Nat
    <3>1. \A i \in 1..n : h[i] \in Nat
      BY <1>2, PidNumbers
    <3>2. k + 1 \in 1..n /\ 1..k \subseteq 1..n
      BY <1>1
    <3> QED BY <3>1, <3>2
  <2> DEFINE top == IF h[k + 1] < m THEN m ELSE h[k + 1] + 1
  <2>3. top \in Nat /\ h[k + 1] < top /\ m <= top
    BY <2>2
  <2> HIDE DEF top
  <2>4. \A i \in 1..(k + 1) : h[i] < top
    BY <2>1, <2>2, <2>3
  <2> QED BY <2>3, <2>4
<1>5. n \in P
  <2> HIDE DEF P
  <2> QED BY <1>1, <1>3, <1>4, EveryNat
<1>6. PICK m \in Nat : \A i \in 1..n : h[i] < m
  BY <1>1, <1>5
<1> QED BY <1>2, <1>6

\* The line of an entry is its own and that of its parent, if that was read.
Numbers == {e.pid : e \in entries}
LineAt(f, p) ==
  LET e == CHOOSE g \in entries : g.pid = p
  IN  {e} \union (IF \E g \in entries : g.pid = e.ppid THEN f[e.ppid] ELSE {})

LEMMA EntryOf ==
  ASSUME OwnershipTypeOK, NEW e \in entries
  PROVE  (CHOOSE g \in entries : g.pid = e.pid) = e
BY DEF OwnershipTypeOK

\* A line looks only at smaller numbers, so that the recursion has a solution.
LEMMA LineExists ==
  ASSUME OwnershipTypeOK, Ascending
  PROVE  \E f : f = [p \in Numbers |-> LineAt(f, p)]
<1> DEFINE Below(k) == {p \in Numbers : p < k}
           Has(k) == \E f : f = [p \in Below(k) |-> LineAt(f, p)]
           P == {k \in Nat : Has(k)}
<1>1. \A p \in Numbers : p \in Pids /\ p \in Nat
  <2>1. \A e \in entries : e.pid \in Pids
    BY DEF OwnershipTypeOK, ProcEntry
  <2> QED BY <2>1, PidNumbers DEF Numbers
<1>2. \A f, g : \A p \in Numbers :
        (\A q \in Numbers : q < p => f[q] = g[q]) => LineAt(f, p) = LineAt(g, p)
  <2> SUFFICES ASSUME NEW f, NEW g, NEW p \in Numbers, \A q \in Numbers : q < p => f[q] = g[q]
               PROVE  LineAt(f, p) = LineAt(g, p)
    OBVIOUS
  <2>1. PICK e \in entries : e.pid = p
    BY DEF Numbers
  <2>2. (CHOOSE x \in entries : x.pid = p) = e
    BY <2>1, EntryOf
  <2>3. (\E x \in entries : x.pid = e.ppid) => e.ppid \in Numbers /\ e.ppid < p
    BY <2>1 DEF Numbers, Ascending
  <2> QED BY <2>2, <2>3 DEF LineAt
<1>3. 0 \in P
  <2>1. Below(0) = {}
    BY <1>1
  <2> DEFINE f == [p \in {} |-> {}]
  <2>2. f = [p \in Below(0) |-> LineAt(f, p)]
    BY <2>1
  <2> QED BY <2>2
<1>4. ASSUME NEW k \in Nat, k \in P PROVE k + 1 \in P
  <2>1. PICK f : f = [p \in Below(k) |-> LineAt(f, p)]
    BY <1>4
  <2> DEFINE g == [p \in Below(k + 1) |-> IF p \in Below(k) THEN f[p] ELSE LineAt(f, p)]
  <2>2. \A p \in Below(k + 1) : g[p] = LineAt(f, p)
    BY <2>1
  <2>3. \A p \in Below(k) : p \in Below(k + 1) /\ g[p] = f[p]
    BY <1>1
  <2>4. \A p \in Below(k + 1), q \in Numbers : q < p => q \in Below(k)
    BY <1>1
  <2>5. g = [p \in Below(k + 1) |-> g[p]]
    OBVIOUS
  <2> HIDE DEF g
  <2>6. \A p \in Below(k + 1) : LineAt(f, p) = LineAt(g, p)
    BY <1>2, <2>3, <2>4
  <2>7. g = [p \in Below(k + 1) |-> LineAt(g, p)]
    BY <2>2, <2>5, <2>6
  <2>8. Has(k + 1)
    BY <2>7
  <2> HIDE DEF Has
  <2> QED BY <2>8
<1>5. PICK m \in Nat : \A p \in Pids : p < m
  BY Highest
<1>6. m \in P
  <2> HIDE DEF P
  <2> QED BY <1>3, <1>4, EveryNat
<1>7. Below(m) = Numbers
  BY <1>1, <1>5
<1> HIDE DEF Below
<1> QED BY <1>6, <1>7

LEMMA LineIs ==
  ASSUME OwnershipTypeOK, Ascending, NEW e \in entries
  PROVE  Line[e.pid] =
           {e} \union (IF \E g \in entries : g.pid = e.ppid THEN Line[e.ppid] ELSE {})
<1>1. Line = CHOOSE f : f = [p \in Numbers |-> LineAt(f, p)]
  BY DEF Line, LineAt, Numbers
<1>2. Line = [p \in Numbers |-> LineAt(Line, p)]
  BY <1>1, LineExists
<1>3. e.pid \in Numbers
  BY DEF Numbers
<1>4. Line[e.pid] = LineAt(Line, e.pid)
  BY <1>2, <1>3
<1> QED BY <1>4, EntryOf DEF LineAt

\* Without an owned parent, a process that was decided founds a workload when it is hinted
\* and has none otherwise.
RootInv ==
  /\ pc \in {"assign", "done"} => \A e \in entries \ todo : e.ppid \notin DOMAIN owner =>
       IF e.hinted THEN e.pid \in DOMAIN owner /\ stubs[owner[e.pid]].root_pid = e.pid
       ELSE e.pid \notin DOMAIN owner
  /\ pc = "done" => todo = {}

LEMMA RootDecide ==
  ASSUME OwnershipTypeOK, RootInv, NEW e \in todo, Inherit(e) \/ Found(e) \/ Leave(e)
  PROVE  RootInv'
<1>1. /\ e \in entries /\ e.pid \notin DOMAIN owner
      /\ \A c \in entries : c.pid = e.pid => c = e
  BY Undecided DEF OwnershipTypeOK
<1>2. /\ pc = "assign" /\ pc' = pc /\ entries' = entries /\ todo' = todo \ {e}
      /\ \A p \in DOMAIN owner : p \in DOMAIN owner' /\ owner'[p] = owner[p]
      /\ DOMAIN owner' \subseteq DOMAIN owner \union {e.pid}
  BY <1>1 DEF Inherit, Found, Leave, Assigned
<1>3. \A j \in DOMAIN stubs : stubs'[j].root_pid = stubs[j].root_pid
  <2>1. CASE Inherit(e)
    <3> DEFINE i == Heir(e)
    <3>1. stubs' = [stubs EXCEPT ![i].pids = @ \union {e.pid}]
      BY <2>1 DEF Inherit
    <3>2. \A j \in DOMAIN stubs : stubs[j] \in [root_pid : Pids, pids : SUBSET Pids]
      BY DEF OwnershipTypeOK
    <3> HIDE DEF i
    <3> QED BY <3>1, <3>2
  <2>2. CASE Found(e)
    <3>1. next_id \notin DOMAIN stubs
      BY DEF OwnershipTypeOK
    <3> QED BY <2>2, <3>1 DEF Found
  <2>3. CASE Leave(e)
    BY <2>3 DEF Leave
  <2> QED BY <2>1, <2>2, <2>3
<1>4. ASSUME e.ppid \notin DOMAIN owner
      PROVE  IF e.hinted THEN e.pid \in DOMAIN owner' /\ stubs'[owner'[e.pid]].root_pid = e.pid
             ELSE e.pid \notin DOMAIN owner'
  <2>1. CASE Found(e)
    <3>1. e.hinted /\ e.pid \in DOMAIN owner' /\ owner'[e.pid] = next_id
      BY <2>1 DEF Found, Assigned
    <3>2. stubs'[next_id].root_pid = e.pid
      BY <2>1 DEF Found
    <3> QED BY <3>1, <3>2
  <2>2. CASE Leave(e)
    BY <1>1, <2>2 DEF Leave
  <2> QED BY <1>4, <2>1, <2>2 DEF Inherit, Inherits
<1>5. ASSUME NEW c \in entries \ todo', c.ppid \notin DOMAIN owner'
      PROVE  IF c.hinted THEN c.pid \in DOMAIN owner' /\ stubs'[owner'[c.pid]].root_pid = c.pid
             ELSE c.pid \notin DOMAIN owner'
  <2>1. c.ppid \notin DOMAIN owner
    BY <1>2, <1>5
  <2>2. CASE c = e
    BY <1>4, <2>1, <2>2
  <2>3. CASE c # e
    <3>1. c \in entries \ todo /\ c.pid # e.pid
      BY <1>1, <1>2, <2>3
    <3>2. CASE c.hinted
      <4>1. c.pid \in DOMAIN owner /\ stubs[owner[c.pid]].root_pid = c.pid
        BY <1>2, <2>1, <3>1, <3>2 DEF RootInv
      <4>2. owner[c.pid] \in DOMAIN stubs
        BY <4>1 DEF OwnershipTypeOK
      <4> QED BY <1>2, <1>3, <3>2, <4>1, <4>2
    <3>3. CASE ~c.hinted
      BY <1>2, <2>1, <3>1, <3>3 DEF RootInv
    <3> QED BY <3>2, <3>3
  <2> QED BY <2>2, <2>3
<1> QED BY <1>2, <1>5 DEF RootInv

LEMMA RootStep == OwnershipTypeOK /\ RootInv /\ [Next]_vars => RootInv'
<1> SUFFICES ASSUME OwnershipTypeOK, RootInv, [Next]_vars PROVE RootInv'
  OBVIOUS
<1>1. CASE MachineSteps
  BY <1>1 DEF MachineSteps, RootInv
<1>2. CASE Scan
  <2>1. pc' = "scan" \/ (pc' = "assign" /\ todo' = entries /\ entries' = entries)
    BY <1>2 DEF Scan, Collect, CollectGone, ScanEnds
  <2> QED BY <2>1 DEF RootInv
<1>3. CASE Finish
  BY <1>3 DEF Finish, RootInv
<1> QED BY <1>1, <1>2, <1>3, MachineLeaves, RootDecide DEF Next, Assign

-----------------------------------------------------------------------------
\* From the two invariants to the reference, up the line of an entry.

Founders(e) == {f.pid : f \in {g \in Line[e.pid] : g.hinted}}

HasTopmost(e) ==
  IF Founders(e) = {} THEN e.pid \notin DOMAIN owner
  ELSE /\ e.pid \in DOMAIN owner
       /\ stubs[owner[e.pid]].root_pid \in Founders(e)
       /\ \A p \in Founders(e) : stubs[owner[e.pid]].root_pid <= p

Follows(e) == (\A p \in Founders(e) : p \in Nat /\ p <= e.pid) /\ HasTopmost(e)

LEMMA TopmostUp ==
  ASSUME OwnershipTypeOK, FamilyInv, RootInv, pc = "done", Ascending, NEW e \in entries,
         \A f \in entries : f.pid < e.pid => Follows(f)
  PROVE  Follows(e)
<1>1. e.pid \in Nat /\ e.ppid \in Nat /\ e.ppid < e.pid /\ e \in entries \ todo
  <2>1. Pids \subseteq Nat /\ Ppids \subseteq Nat
    BY PidNumbers DEF Ppids
  <2>2. e.pid \in Pids /\ e.ppid \in Ppids
    BY DEF OwnershipTypeOK, ProcEntry
  <2> QED BY <2>1, <2>2 DEF Ascending, RootInv
<1>2. CASE \A g \in entries : g.pid # e.ppid
  <2>1. Line[e.pid] = {e}
    BY <1>2, LineIs
  <2>2. Founders(e) = IF e.hinted THEN {e.pid} ELSE {}
    BY <2>1 DEF Founders
  <2>3. e.ppid \notin DOMAIN owner
    BY <1>2 DEF OwnershipTypeOK
  <2>4. IF e.hinted THEN e.pid \in DOMAIN owner /\ stubs[owner[e.pid]].root_pid = e.pid
        ELSE e.pid \notin DOMAIN owner
    BY <1>1, <2>3 DEF RootInv
  <2> QED BY <1>1, <2>2, <2>4 DEF Follows, HasTopmost
<1>3. ASSUME NEW f \in entries, f.pid = e.ppid PROVE Follows(e)
  <2>1. Line[e.pid] = {e} \union Line[f.pid]
    BY <1>3, LineIs
  <2>2. Founders(e) = Founders(f) \union (IF e.hinted THEN {e.pid} ELSE {})
    BY <2>1 DEF Founders
  <2>3. Follows(f)
    BY <1>1, <1>3
  <2>4. \A p \in Founders(f) : p \in Nat /\ p <= f.pid /\ p <= e.pid
    BY <1>1, <1>3, <2>3 DEF Follows
  <2>5. CASE Founders(f) = {}
    <3>1. e.ppid \notin DOMAIN owner
      BY <1>3, <2>3, <2>5 DEF Follows, HasTopmost
    <3>2. IF e.hinted THEN e.pid \in DOMAIN owner /\ stubs[owner[e.pid]].root_pid = e.pid
          ELSE e.pid \notin DOMAIN owner
      BY <1>1, <3>1 DEF RootInv
    <3> QED BY <1>1, <2>2, <2>5, <3>2 DEF Follows, HasTopmost
  <2>6. CASE Founders(f) # {}
    <3> DEFINE root == stubs[owner[f.pid]].root_pid
    <3>1. f.pid \in DOMAIN owner /\ root \in Founders(f) /\ \A p \in Founders(f) : root <= p
      BY <2>3, <2>6 DEF Follows, HasTopmost
    <3>2. e.pid \in DOMAIN owner /\ owner[e.pid] = owner[f.pid]
      BY <1>1, <1>3, <3>1 DEF FamilyInv, FamilyTogether, RootInv
    <3>3. stubs[owner[e.pid]].root_pid = root
      BY <3>2
    <3> HIDE DEF root
    <3>4. root \in Nat /\ root <= e.pid
      BY <2>4, <3>1
    <3> QED BY <1>1, <2>2, <2>4, <3>1, <3>2, <3>3, <3>4 DEF Follows, HasTopmost
  <2> QED BY <2>5, <2>6
<1> QED BY <1>2, <1>3

LEMMA TopmostEnds == OwnershipTypeOK /\ FamilyInv /\ RootInv => TopmostFounds
<1> SUFFICES ASSUME OwnershipTypeOK, FamilyInv, RootInv, pc = "done", Ascending
             PROVE  \A e \in entries : HasTopmost(e)
  BY DEF TopmostFounds, HasTopmost, Founders
<1> DEFINE P == {k \in Nat : \A e \in entries : e.pid < k => Follows(e)}
<1>1. \A e \in entries : e.pid \in Nat
  BY PidNumbers DEF OwnershipTypeOK, ProcEntry
<1>2. 0 \in P
  BY <1>1
<1>3. ASSUME NEW k \in Nat, k \in P PROVE k + 1 \in P
  <2> SUFFICES ASSUME NEW e \in entries, e.pid < k + 1 PROVE Follows(e)
    OBVIOUS
  <2>1. \A f \in entries : f.pid < e.pid => f.pid < k
    BY <1>1
  <2> QED BY <1>3, <2>1, TopmostUp
<1>4. Nat \subseteq P
  <2> HIDE DEF P
  <2> QED BY <1>2, <1>3, EveryNat
<1> SUFFICES ASSUME NEW e \in entries PROVE Follows(e)
  BY DEF Follows
<1>5. e.pid + 1 \in P
  <2> HIDE DEF P
  <2> QED BY <1>1, <1>4
<1> QED BY <1>1, <1>5

\* For every machine whose numbers did not wrap around: when bootstrap is done, a process
\* is in the workload that its topmost ancestor with a hint founded, and in none if it has
\* no such ancestor.
THEOREM FoundersAreTopmost == Spec => []TopmostFounds
<1>1. Init => FamilyInv /\ RootInv
  BY DEF Init, FamilyInv, Sorted, FamilyTogether, RootInv
<1> QED BY <1>1, FamilyStep, RootStep, TopmostEnds, OwnershipTypeCorrect, PTL DEF Spec

-----------------------------------------------------------------------------
\* The trees of running processes.  A parent is there or is the manager of the session, and
\* the processes descend from each other in a finite number of generations.
Generations(rank, m) ==
  /\ rank \in [DOMAIN proc -> 0..m]
  /\ \A p \in DOMAIN proc :
       proc[p].parent \in DOMAIN proc => rank[proc[p].parent] < rank[p]

TreesInv ==
  /\ DOMAIN proc \subseteq Procs \union {2}
  /\ \A p \in DOMAIN proc : /\ "parent" \in DOMAIN proc[p]
                            /\ proc[p].parent \in DOMAIN proc \union {1}
  /\ \E m \in Nat : \E rank : Generations(rank, m)

LEMMA LeastOf ==
  ASSUME NEW S, NEW x \in S, \A y \in S : y \in Nat /\ x <= y
  PROVE  Min(S) = x
<1>1. \A y \in S : (\A z \in S : y <= z) => y = x
  <2> SUFFICES ASSUME NEW y \in S, \A z \in S : y <= z PROVE y = x
    OBVIOUS
  <2>1. y <= x /\ x <= y /\ x \in Nat /\ y \in Nat
    OBVIOUS
  <2> QED BY <2>1
<1>2. \A z \in S : x <= z
  OBVIOUS
<1> QED BY <1>1, <1>2 DEF Min

\* The least of the numbers that are free is one of them.
LEMMA FreshIsFree ==
  ASSUME Fresh # {}
  PROVE  Min(Fresh) \in Procs /\ Min(Fresh) \notin DOMAIN proc /\ Min(Fresh) # 1
<1>1. Fresh \subseteq Nat
  BY ProcNumbers DEF Fresh
<1>2. PICK x \in Fresh : \A y \in Fresh : ~(<<y, x>> \in OpToRel(<, Nat))
  BY <1>1, NatLessThanWellFounded, WFMin, Zenon
<1>3. \A y \in Fresh : ~(y < x)
  BY <1>1, <1>2 DEF OpToRel
<1>4. \A y \in Fresh : y \in Nat /\ x <= y
  BY <1>1, <1>3
<1>5. Min(Fresh) = x
  BY <1>4, LeastOf
<1> QED BY <1>2, <1>5, ProcNumbers DEF Fresh

LEMMA ForkTrees ==
  ASSUME TreesInv, NEW q, NEW i, ForkExec(q, i)
  PROVE  TreesInv'
<1> DEFINE n == Min(Fresh)
<1>1. n \in Procs /\ n \notin DOMAIN proc /\ n # 1 /\ q \in DOMAIN proc
  BY FreshIsFree DEF ForkExec
<1>2. /\ DOMAIN proc' = DOMAIN proc \union {n}
      /\ proc'[n] = [proc[q] EXCEPT !.parent = q, !.image = i]
      /\ \A p \in DOMAIN proc : proc'[p] = proc[p]
  BY <1>1 DEF ForkExec
<1> HIDE DEF n
<1>3. "parent" \in DOMAIN proc'[n] /\ proc'[n].parent = q
  BY <1>1, <1>2 DEF TreesInv
<1>4. \E m \in Nat : \E rank : Generations(rank, m)'
  <2>0. PICK m \in Nat : \E rank : Generations(rank, m)
    BY DEF TreesInv
  <2>1. PICK rank : Generations(rank, m)
    BY <2>0
  <2> DEFINE next == [p \in DOMAIN proc' |-> IF p = n THEN m + 1 ELSE rank[p]]
  <2>2. /\ rank \in [DOMAIN proc -> 0..m]
        /\ \A p \in DOMAIN proc : proc[p].parent \in DOMAIN proc => rank[proc[p].parent] < rank[p]
    BY <2>1 DEF Generations
  <2>3. next \in [DOMAIN proc' -> 0..(m + 1)]
    BY <1>1, <1>2, <2>2
  <2>4. ASSUME NEW p \in DOMAIN proc', proc'[p].parent \in DOMAIN proc'
        PROVE  next[proc'[p].parent] < next[p]
    <3>1. CASE p = n
      <4>1. rank[q] \in 0..m /\ q # n
        BY <1>1, <2>2
      <4>2. next[p] = m + 1 /\ next[proc'[p].parent] = rank[q]
        BY <1>1, <1>2, <1>3, <3>1, <4>1
      <4> HIDE DEF next
      <4> QED BY <4>1, <4>2
    <3>2. CASE p # n
      <4>1. p \in DOMAIN proc /\ proc'[p] = proc[p] /\ proc[p].parent \in DOMAIN proc
        BY <1>1, <1>2, <2>4, <3>2 DEF TreesInv
      <4>2. proc[p].parent # n
        BY <1>1, <4>1
      <4> QED BY <1>2, <2>2, <2>4, <3>2, <4>1, <4>2
    <3> QED BY <3>1, <3>2
  <2> HIDE DEF next
  <2> QED BY <2>3, <2>4 DEF Generations
<1>5. DOMAIN proc' \subseteq Procs \union {2}
  BY <1>1, <1>2 DEF TreesInv
<1>6. \A p \in DOMAIN proc' : /\ "parent" \in DOMAIN proc'[p]
                              /\ proc'[p].parent \in DOMAIN proc' \union {1}
  BY <1>1, <1>2, <1>3 DEF TreesInv
<1> QED BY <1>4, <1>5, <1>6 DEF TreesInv

\* Processes that keep their parents, or lose them.
LEMMA FewerTrees ==
  ASSUME TreesInv, DOMAIN proc' \subseteq DOMAIN proc,
         \A p \in DOMAIN proc' : /\ "parent" \in DOMAIN proc'[p]
                                 /\ proc'[p].parent \in {proc[p].parent, 1}
                                 /\ proc'[p].parent \in DOMAIN proc' \union {1}
  PROVE  TreesInv'
<1>0. PICK m \in Nat : \E rank : Generations(rank, m)
  BY DEF TreesInv
<1>1. PICK rank : Generations(rank, m)
  BY <1>0
<1> DEFINE next == [p \in DOMAIN proc' |-> rank[p]]
<1>2. 1 \notin DOMAIN proc
  BY ProcNumbers DEF TreesInv
<1>3. /\ next \in [DOMAIN proc' -> 0..m]
      /\ \A p \in DOMAIN proc' :
           proc'[p].parent \in DOMAIN proc' => next[proc'[p].parent] < next[p]
  BY <1>1, <1>2 DEF Generations
<1> HIDE DEF next
<1>4. DOMAIN proc' \subseteq Procs \union {2}
  BY DEF TreesInv
<1>5. \E r : Generations(r, m)'
  BY <1>3 DEF Generations
<1> QED BY <1>4, <1>5 DEF TreesInv

LEMMA TreesStep == TreesInv /\ [TreesNext]_treeVars => TreesInv'
<1> SUFFICES ASSUME TreesInv, [TreesNext]_treeVars PROVE TreesInv'
  OBVIOUS
<1>1. CASE UNCHANGED treeVars
  BY <1>1 DEF treeVars, TreesInv, Generations
<1>2. ASSUME NEW p \in DOMAIN proc, Setsid(p) \/ Scoped(p) \/ Fades(p) \/ \E t : Chdir(p, t)
      PROVE  TreesInv'
  <2>1. PICK node : Alters(p, node) /\ DOMAIN node = DOMAIN proc[p] /\ node.parent = proc[p].parent
    <3>1. CASE Setsid(p)
      <4> DEFINE node == [proc[p] EXCEPT !.sid = p]
      <4>1. Alters(p, node) /\ DOMAIN node = DOMAIN proc[p] /\ node.parent = proc[p].parent
        BY <3>1 DEF Setsid
      <4> QED BY <4>1
    <3>2. CASE Scoped(p)
      <4> DEFINE node == [proc[p] EXCEPT !.scope = "app.scope"]
      <4>1. Alters(p, node) /\ DOMAIN node = DOMAIN proc[p] /\ node.parent = proc[p].parent
        BY <3>2 DEF Scoped
      <4> QED BY <4>1
    <3>3. CASE Fades(p)
      <4> DEFINE node == [proc[p] EXCEPT !.gone = TRUE]
      <4>1. Alters(p, node) /\ DOMAIN node = DOMAIN proc[p] /\ node.parent = proc[p].parent
        BY <3>3 DEF Fades
      <4> QED BY <4>1
    <3>4. ASSUME NEW t, Chdir(p, t)
          PROVE  \E node : Alters(p, node) /\ DOMAIN node = DOMAIN proc[p] /\ node.parent = proc[p].parent
      <4> DEFINE node == [proc[p] EXCEPT !.cwd = t]
      <4>1. Alters(p, node) /\ DOMAIN node = DOMAIN proc[p] /\ node.parent = proc[p].parent
        BY <3>4 DEF Chdir
      <4> QED BY <4>1
    <3> QED BY <1>2, <3>1, <3>2, <3>3, <3>4
  <2>2. proc' = [proc EXCEPT ![p] = node]
    BY <2>1 DEF Alters
  <2>3. DOMAIN proc' = DOMAIN proc /\ \A r \in DOMAIN proc : proc'[r] = IF r = p THEN node ELSE proc[r]
    BY <2>2
  <2>4. \A r \in DOMAIN proc : /\ "parent" \in DOMAIN proc'[r]
                               /\ proc'[r].parent = proc[r].parent
                               /\ proc[r].parent \in DOMAIN proc \union {1}
    BY <2>1, <2>3 DEF TreesInv
  <2> QED BY <2>3, <2>4, FewerTrees
<1>3. ASSUME NEW p \in DOMAIN proc, Reaped(p) PROVE TreesInv'
  <2>1. /\ DOMAIN proc' = DOMAIN proc \ {p}
        /\ \A r \in DOMAIN proc' :
             proc'[r] = IF proc[r].parent = p THEN [proc[r] EXCEPT !.parent = 1] ELSE proc[r]
    BY <1>3 DEF Reaped
  <2>2. ASSUME NEW r \in DOMAIN proc'
        PROVE  /\ "parent" \in DOMAIN proc'[r]
               /\ proc'[r].parent = IF proc[r].parent = p THEN 1 ELSE proc[r].parent
               /\ proc[r].parent \in DOMAIN proc \union {1}
    BY <2>1 DEF TreesInv
  <2> QED BY <2>1, <2>2, FewerTrees
<1> QED BY <1>1, <1>2, <1>3, ForkTrees DEF TreesNext

LEMMA TreesStart == TreesInit => TreesInv
<1> SUFFICES ASSUME TreesInit PROVE TreesInv
  OBVIOUS
<1>1. DOMAIN proc = {2} /\ proc[2].parent = 1 /\ "parent" \in DOMAIN proc[2]
  BY DEF TreesInit, Session
<1> DEFINE rank == [p \in {2} |-> 0]
<1>2. Generations(rank, 0)
  BY <1>1 DEF Generations
<1> QED BY <1>1, <1>2 DEF TreesInv

-----------------------------------------------------------------------------
\* The line above a process is a recursion over the generations.
LineageStep(f, q) ==
  <<q>> \o (IF proc[q].parent \in DOMAIN proc THEN f[proc[q].parent] ELSE <<>>)

LEMMA LineageExists ==
  ASSUME TreesInv
  PROVE  \E f : f = [q \in DOMAIN proc |-> LineageStep(f, q)]
<1>0. PICK m \in Nat : \E rank : Generations(rank, m)
  BY DEF TreesInv
<1>1. PICK rank : Generations(rank, m)
  BY <1>0
<1> DEFINE Old(k) == {q \in DOMAIN proc : rank[q] < k}
           Has(k) == \E f : f = [q \in Old(k) |-> LineageStep(f, q)]
           P == {k \in Nat : Has(k)}
<1>2. \A q \in DOMAIN proc : rank[q] \in Nat /\ rank[q] <= m
  BY <1>1 DEF Generations
<1>3. 0 \in P
  <2>1. Old(0) = {}
    BY <1>2
  <2> DEFINE f == [q \in {} |-> <<>>]
  <2>2. f = [q \in Old(0) |-> LineageStep(f, q)]
    BY <2>1
  <2> QED BY <2>2
<1>4. ASSUME NEW k \in Nat, k \in P PROVE k + 1 \in P
  <2>1. PICK f : f = [q \in Old(k) |-> LineageStep(f, q)]
    BY <1>4
  <2> DEFINE g == [q \in Old(k + 1) |-> IF q \in Old(k) THEN f[q] ELSE LineageStep(f, q)]
  <2>2. \A q \in Old(k + 1) : g[q] = LineageStep(f, q)
    BY <2>1
  <2>3. \A q \in Old(k) : q \in Old(k + 1) /\ g[q] = f[q]
    BY <1>2
  <2>4. \A q \in Old(k + 1) : proc[q].parent \in DOMAIN proc => proc[q].parent \in Old(k)
    BY <1>1, <1>2 DEF Generations
  <2>5. g = [q \in Old(k + 1) |-> g[q]]
    OBVIOUS
  <2> HIDE DEF g, Old
  <2>6. \A q \in Old(k + 1) : LineageStep(f, q) = LineageStep(g, q)
    BY <2>3, <2>4 DEF LineageStep
  <2>7. g = [q \in Old(k + 1) |-> LineageStep(g, q)]
    BY <2>2, <2>5, <2>6
  <2>8. Has(k + 1)
    BY <2>7
  <2> HIDE DEF Has
  <2> QED BY <2>8
<1>5. m + 1 \in P
  <2> HIDE DEF P
  <2> QED BY <1>1, <1>3, <1>4, EveryNat
<1>6. Old(m + 1) = DOMAIN proc
  BY <1>1, <1>2
<1> HIDE DEF Old
<1> QED BY <1>5, <1>6

LEMMA LineageIs ==
  ASSUME TreesInv, NEW p \in DOMAIN proc
  PROVE  Lineage(p) =
           <<p>> \o (IF proc[p].parent \in DOMAIN proc THEN Lineage(proc[p].parent) ELSE <<>>)
<1> DEFINE f == CHOOSE f : f = [q \in DOMAIN proc |-> LineageStep(f, q)]
<1>1. f = [q \in DOMAIN proc |-> LineageStep(f, q)]
  BY LineageExists
<1>2. \A q : Lineage(q) = f[q]
  BY DEF Lineage, LineageStep
<1> HIDE DEF f
<1>3. f[p] = LineageStep(f, p)
  BY <1>1
<1> QED BY <1>2, <1>3 DEF LineageStep

\* What holds of every process whose parent it holds of, or that has none, holds of all.
LEMMA DownTheTrees ==
  ASSUME TreesInv, NEW G,
         \A p \in DOMAIN proc : (proc[p].parent \in DOMAIN proc => proc[p].parent \in G) => p \in G
  PROVE  DOMAIN proc \subseteq G
<1>0. PICK m \in Nat : \E rank : Generations(rank, m)
  BY DEF TreesInv
<1>1. PICK rank : Generations(rank, m)
  BY <1>0
<1>2. \A q \in DOMAIN proc : rank[q] \in Nat
  BY <1>1 DEF Generations
<1> DEFINE P == {k \in Nat : \A q \in DOMAIN proc : rank[q] < k => q \in G}
<1>3. 0 \in P
  BY <1>2
<1>4. ASSUME NEW k \in Nat, k \in P PROVE k + 1 \in P
  <2> SUFFICES ASSUME NEW q \in DOMAIN proc, rank[q] < k + 1 PROVE q \in G
    OBVIOUS
  <2>1. ASSUME proc[q].parent \in DOMAIN proc PROVE proc[q].parent \in G
    <3>1. rank[proc[q].parent] < k
      BY <1>1, <1>2, <2>1 DEF Generations
    <3> QED BY <1>4, <2>1, <3>1
  <2> QED BY <2>1
<1>5. Nat \subseteq P
  <2> HIDE DEF P
  <2> QED BY <1>3, <1>4, EveryNat
<1> SUFFICES ASSUME NEW q \in DOMAIN proc PROVE q \in G
  OBVIOUS
<1>6. rank[q] + 1 \in P /\ rank[q] < rank[q] + 1
  BY <1>2, <1>5
<1> QED BY <1>6

IsLine(s) == s \in Seq(DOMAIN proc) /\ Len(s) \in Nat \ {0}

LEMMA LinesAreLines ==
  ASSUME TreesInv
  PROVE  \A p \in DOMAIN proc : IsLine(Lineage(p))
<1> DEFINE G == {p \in DOMAIN proc : IsLine(Lineage(p))}
<1>1. ASSUME NEW p \in DOMAIN proc, proc[p].parent \in DOMAIN proc => proc[p].parent \in G
      PROVE  p \in G
  <2> DEFINE above == IF proc[p].parent \in DOMAIN proc THEN Lineage(proc[p].parent) ELSE <<>>
  <2>1. above \in Seq(DOMAIN proc) /\ Len(above) \in Nat
    <3>1. CASE proc[p].parent \in DOMAIN proc
      <4>1. IsLine(Lineage(proc[p].parent))
        BY <1>1, <3>1
      <4> QED BY <3>1, <4>1 DEF IsLine
    <3>2. CASE proc[p].parent \notin DOMAIN proc
      <4>1. above = <<>>
        BY <3>2
      <4> HIDE DEF above
      <4>2. <<>> \in Seq(DOMAIN proc) /\ Len(<<>>) = 0
        OBVIOUS
      <4> QED BY <4>1, <4>2
    <3> QED BY <3>1, <3>2
  <2>2. Lineage(p) = <<p>> \o above
    BY LineageIs
  <2> HIDE DEF above
  <2>3. IsLine(Lineage(p))
    BY <2>1, <2>2 DEF IsLine
  <2> QED BY <2>3
<1>2. DOMAIN proc \subseteq G
  <2> HIDE DEF G
  <2> QED BY <1>1, DownTheTrees
<1> QED BY <1>2

\* The line of a process is itself and the line of its parent.
LEMMA LineOfParent ==
  ASSUME TreesInv, NEW p \in DOMAIN proc, proc[p].parent \in DOMAIN proc
  PROVE  LET b == proc[p].parent
         IN /\ Lineage(p)[1] = p /\ Len(Lineage(p)) = Len(Lineage(b)) + 1
            /\ \A i \in 1..Len(Lineage(b)) : Lineage(p)[i + 1] = Lineage(b)[i]
<1> DEFINE s == Lineage(proc[p].parent)
<1>1. Lineage(p) = <<p>> \o s /\ IsLine(s)
  BY LineageIs, LinesAreLines
<1> HIDE DEF s
<1>2. /\ Lineage(p)[1] = p /\ Len(Lineage(p)) = Len(s) + 1
      /\ \A i \in 1..Len(s) : Lineage(p)[i + 1] = s[i]
  BY <1>1 DEF IsLine
<1> QED BY <1>2 DEF s

LEMMA LineOfOrphan ==
  ASSUME TreesInv, NEW p \in DOMAIN proc, proc[p].parent \notin DOMAIN proc
  PROVE  Lineage(p)[1] = p /\ Len(Lineage(p)) = 1
<1>1. Lineage(p) = <<p>> \o <<>>
  BY LineageIs
<1>2. (<<p>> \o <<>>)[1] = p /\ Len(<<p>> \o <<>>) = 1
  OBVIOUS
<1> QED BY <1>1, <1>2

LEMMA LineStarts ==
  ASSUME TreesInv, NEW p \in DOMAIN proc
  PROVE  Lineage(p)[1] = p
BY LineOfParent, LineOfOrphan

-----------------------------------------------------------------------------
\* Above every application of the user there is one that is the root of its own tree.

LEMMA RootOfItself ==
  ASSUME TreesInv, NEW p \in DOMAIN proc,
         proc[p].parent \in DOMAIN proc => ~UserApp(proc[p].parent)
  PROVE  TreeRoot(p) = p
<1> DEFINE line == Lineage(p)
           stops == {i \in 2..Len(line) : ~Joins(p, line[i])}
<1>1. TreeRoot(p) = line[Min(stops \union {Len(line) + 1, Steps(p) + 2}) - 1]
  BY DEF TreeRoot
<1>2. IsLine(line) /\ line[1] = p
  BY LinesAreLines, LineStarts
<1>3. 2 \in stops \union {Len(line) + 1, Steps(p) + 2}
  <2>1. CASE proc[p].parent \in DOMAIN proc
    <3> DEFINE above == Lineage(proc[p].parent)
    <3>1. /\ Len(line) = Len(above) + 1
          /\ \A i \in 1..Len(above) : line[i + 1] = above[i]
      BY <2>1, LineOfParent
    <3>2. IsLine(above) /\ above[1] = proc[p].parent
      BY <2>1, LinesAreLines, LineStarts
    <3> HIDE DEF line, above
    <3>3. 1 \in 1..Len(above) /\ 2 \in 2..Len(line)
      BY <3>1, <3>2 DEF IsLine
    <3>4. line[2] = proc[p].parent
      BY <3>1, <3>2, <3>3
    <3>5. ~Joins(p, line[2])
      BY <2>1, <3>4 DEF Joins
    <3> QED BY <3>3, <3>5
  <2>2. CASE proc[p].parent \notin DOMAIN proc
    BY <2>2, LineOfOrphan
  <2> QED BY <2>1, <2>2
<1>4. \A y \in stops \union {Len(line) + 1, Steps(p) + 2} : y \in Nat /\ 2 <= y
  <2>1. Steps(p) \in {64, 128}
    BY DEF Steps
  <2> HIDE DEF line
  <2> QED BY <1>2, <2>1 DEF IsLine
<1>5. Min(stops \union {Len(line) + 1, Steps(p) + 2}) = 2
  <2> HIDE DEF stops, line
  <2> QED BY <1>3, <1>4, LeastOf
<1> QED BY <1>1, <1>2, <1>5

Topped(p) ==
  \E i \in DOMAIN Lineage(p) : UserApp(Lineage(p)[i]) /\ TreeRoot(Lineage(p)[i]) = Lineage(p)[i]

LEMMA AppsAreTopped ==
  ASSUME TreesInv
  PROVE  \A p \in DOMAIN proc : UserApp(p) => Topped(p)
<1> DEFINE G == {p \in DOMAIN proc : UserApp(p) => Topped(p)}
<1>1. ASSUME NEW p \in DOMAIN proc, proc[p].parent \in DOMAIN proc => proc[p].parent \in G
      PROVE  p \in G
  <2> SUFFICES ASSUME UserApp(p) PROVE Topped(p)
    OBVIOUS
  <2>1. IsLine(Lineage(p)) /\ Lineage(p)[1] = p
    BY LinesAreLines, LineStarts
  <2>2. CASE proc[p].parent \in DOMAIN proc => ~UserApp(proc[p].parent)
    <3>1. TreeRoot(p) = p
      BY <2>2, RootOfItself
    <3>2. 1 \in DOMAIN Lineage(p)
      BY <2>1 DEF IsLine
    <3> QED BY <2>1, <3>1, <3>2 DEF Topped
  <2>3. CASE proc[p].parent \in DOMAIN proc /\ UserApp(proc[p].parent)
    <3> DEFINE b == proc[p].parent
    <3>1. PICK i \in DOMAIN Lineage(b) :
            UserApp(Lineage(b)[i]) /\ TreeRoot(Lineage(b)[i]) = Lineage(b)[i]
      BY <1>1, <2>3 DEF Topped
    <3>2. /\ Len(Lineage(p)) = Len(Lineage(b)) + 1
          /\ \A j \in 1..Len(Lineage(b)) : Lineage(p)[j + 1] = Lineage(b)[j]
      BY <2>3, LineOfParent
    <3>3. IsLine(Lineage(b))
      BY <2>3, LinesAreLines
    <3> HIDE DEF b
    <3>4. i \in 1..Len(Lineage(b)) /\ i + 1 \in DOMAIN Lineage(p)
      BY <2>1, <3>2, <3>3 DEF IsLine
    <3>5. Lineage(p)[i + 1] = Lineage(b)[i]
      BY <3>2, <3>4
    <3> QED BY <3>1, <3>4, <3>5 DEF Topped
  <2> QED BY <2>2, <2>3
<1>2. DOMAIN proc \subseteq G
  <2> HIDE DEF G
  <2> QED BY <1>1, DownTheTrees
<1> QED BY <1>2

-----------------------------------------------------------------------------
\* Who is up to three generations above a process hears it.

LEMMA SecondInLine ==
  ASSUME TreesInv, NEW q \in DOMAIN proc, NEW i \in Nat, i >= 1, i + 1 \in DOMAIN Lineage(q)
  PROVE  /\ proc[q].parent \in DOMAIN proc /\ q \in Kids(proc[q].parent)
         /\ i \in DOMAIN Lineage(proc[q].parent)
         /\ Lineage(proc[q].parent)[i] = Lineage(q)[i + 1]
<1> DEFINE n == Len(Lineage(q))
<1>1. IsLine(Lineage(q)) /\ DOMAIN Lineage(q) = 1..n
  BY LinesAreLines DEF IsLine
<1>2. n # 1
  <2>1. n \in Nat /\ i + 1 \in 1..n
    BY <1>1 DEF IsLine
  <2> HIDE DEF n
  <2> QED BY <2>1
<1>3. proc[q].parent \in DOMAIN proc
  BY <1>2, LineOfOrphan
<1> DEFINE above == Lineage(proc[q].parent)
<1>4. IsLine(above) /\ n = Len(above) + 1 /\ \A j \in 1..Len(above) : Lineage(q)[j + 1] = above[j]
  BY <1>3, LinesAreLines, LineOfParent
<1>5. i \in 1..Len(above) /\ DOMAIN above = 1..Len(above)
  <2>1. i + 1 \in 1..n /\ n = Len(above) + 1 /\ Len(above) \in Nat
    BY <1>1, <1>4 DEF IsLine
  <2>2. DOMAIN above = 1..Len(above)
    BY <1>4 DEF IsLine
  <2> HIDE DEF n, above
  <2> QED BY <2>1, <2>2
<1> HIDE DEF n
<1> QED BY <1>3, <1>4, <1>5 DEF Kids

LEMMA NextInLine ==
  ASSUME TreesInv, NEW q \in DOMAIN proc, NEW a, NEW i \in 1..3,
         i + 1 \in DOMAIN Lineage(q), Lineage(q)[i + 1] = a
  PROVE  \E b \in DOMAIN proc : q \in Kids(b) /\ i \in DOMAIN Lineage(b) /\ Lineage(b)[i] = a
<1>1. i \in Nat /\ i >= 1
  OBVIOUS
<1> QED BY <1>1, SecondInLine

InLine(q, i, a) == q \in DOMAIN proc /\ i \in DOMAIN Lineage(q) /\ Lineage(q)[i] = a

LEMMA InLines ==
  ASSUME TreesInv, NEW a, NEW q
  PROVE  /\ InLine(q, 4, a) => \E b : q \in Kids(b) /\ InLine(b, 3, a)
         /\ InLine(q, 3, a) => \E b : q \in Kids(b) /\ InLine(b, 2, a)
         /\ InLine(q, 2, a) => q \in Kids(a)
<1>1. ASSUME InLine(q, 4, a) PROVE \E b : q \in Kids(b) /\ InLine(b, 3, a)
  <2>0. 3 + 1 = 4 /\ 3 \in 1..3
    OBVIOUS
  <2>1. 3 + 1 \in DOMAIN Lineage(q) /\ Lineage(q)[3 + 1] = a /\ q \in DOMAIN proc /\ 3 \in 1..3
    BY <1>1, <2>0, Zenon DEF InLine
  <2>2. \E b \in DOMAIN proc : q \in Kids(b) /\ 3 \in DOMAIN Lineage(b) /\ Lineage(b)[3] = a
    BY <2>1, NextInLine, Zenon
  <2> QED BY <2>2 DEF InLine
<1>2. ASSUME InLine(q, 3, a) PROVE \E b : q \in Kids(b) /\ InLine(b, 2, a)
  <2>0. 2 + 1 = 3 /\ 2 \in 1..3
    OBVIOUS
  <2>1. 2 + 1 \in DOMAIN Lineage(q) /\ Lineage(q)[2 + 1] = a /\ q \in DOMAIN proc /\ 2 \in 1..3
    BY <1>2, <2>0, Zenon DEF InLine
  <2>2. \E b \in DOMAIN proc : q \in Kids(b) /\ 2 \in DOMAIN Lineage(b) /\ Lineage(b)[2] = a
    BY <2>1, NextInLine, Zenon
  <2> QED BY <2>2 DEF InLine
<1>3. ASSUME InLine(q, 2, a) PROVE q \in Kids(a)
  <2>0. 1 + 1 = 2 /\ 1 \in 1..3
    OBVIOUS
  <2>1. 1 + 1 \in DOMAIN Lineage(q) /\ Lineage(q)[1 + 1] = a /\ q \in DOMAIN proc /\ 1 \in 1..3
    BY <1>3, <2>0, Zenon DEF InLine
  <2>2. PICK b \in DOMAIN proc : q \in Kids(b) /\ 1 \in DOMAIN Lineage(b) /\ Lineage(b)[1] = a
    BY <2>1, NextInLine, Zenon
  <2>3. b = a
    BY <2>2, LineStarts
  <2> QED BY <2>2, <2>3
<1> QED BY <1>1, <1>2, <1>3

LEMMA BelowIsHeard ==
  ASSUME TreesInv, NEW a, NEW q, NEW i \in {2, 3, 4}, InLine(q, i, a), Cmd(q) # "", Exe(q) # "/tmp"
  PROVE  q \in Heard(a)
<1> DEFINE second == UNION {Kids(b) : b \in Kids(a)}
           third  == UNION {Kids(b) : b \in second}
<1>1. \A x : InLine(x, 2, a) => x \in Kids(a)
  BY InLines
<1>2. \A x : InLine(x, 3, a) => x \in second
  BY <1>1, InLines
<1>3. \A x : InLine(x, 4, a) => x \in third
  <2>1. \A x : InLine(x, 4, a) => \E b : x \in Kids(b) /\ InLine(b, 3, a)
    BY InLines
  <2>2. \A x : InLine(x, 4, a) => \E b \in second : x \in Kids(b)
    BY <1>2, <2>1
  <2> HIDE DEF second
  <2> QED BY <2>2
<1> HIDE DEF second, third
<1>4. q \in Kids(a) \union second \union third
  BY <1>1, <1>2, <1>3
<1> QED BY <1>4 DEF Heard, second, third

-----------------------------------------------------------------------------
\* A sum of votes is no less than each of them.

Vote(q, t) == FileVote(q, t) + NameVote(q, t)

SumStep(f, t, S) == IF S = {} THEN 0 ELSE LET q == CHOOSE q \in S : TRUE
                                          IN  Vote(q, t) + f[S \ {q}]

LEMMA VotesAreNumbers ==
  ASSUME NEW q, NEW t
  PROVE  FileVote(q, t) \in Nat /\ NameVote(q, t) \in Nat /\ Vote(q, t) \in Nat
<1>1. FileVote(q, t) \in Nat
  BY DEF FileVote
<1>2. NameVote(q, t) \in Nat
  BY DEF NameVote
<1> QED BY <1>1, <1>2 DEF Vote

LEMMA OneLess ==
  ASSUME NEW S, IsFiniteSet(S), NEW s \in SUBSET S, s # {}, NEW k \in Nat, Cardinality(s) < k + 1
  PROVE  LET r == s \ {CHOOSE q \in s : TRUE} IN r \in SUBSET S /\ Cardinality(r) < k
<1>1. IsFiniteSet(s) /\ (CHOOSE q \in s : TRUE) \in s
  BY FS_Subset
<1>2. Cardinality(s) \in Nat /\ Cardinality(s \ {CHOOSE q \in s : TRUE}) = Cardinality(s) - 1
  BY <1>1, FS_CardinalityType, FS_RemoveElement
<1> QED BY <1>2

LEMMA SumExists ==
  ASSUME NEW S, IsFiniteSet(S), NEW t
  PROVE  \E f : f = [s \in SUBSET S |-> SumStep(f, t, s)]
<1> DEFINE Small(k) == {s \in SUBSET S : Cardinality(s) < k}
           Has(k) == \E f : f = [s \in Small(k) |-> SumStep(f, t, s)]
           P == {k \in Nat : Has(k)}
<1>1. \A s \in SUBSET S : /\ Cardinality(s) \in Nat /\ Cardinality(S) \in Nat
                           /\ Cardinality(s) <= Cardinality(S)
  BY FS_Subset, FS_CardinalityType
<1>2. 0 \in P
  <2>1. Small(0) = {}
    BY <1>1
  <2> DEFINE f == [s \in {} |-> 0]
  <2>2. f = [s \in Small(0) |-> SumStep(f, t, s)]
    BY <2>1
  <2> QED BY <2>2
<1>3. ASSUME NEW k \in Nat, k \in P PROVE k + 1 \in P
  <2>1. PICK f : f = [s \in Small(k) |-> SumStep(f, t, s)]
    BY <1>3
  <2> DEFINE g == [s \in Small(k + 1) |-> IF s \in Small(k) THEN f[s] ELSE SumStep(f, t, s)]
  <2>2. \A s \in Small(k + 1) : g[s] = SumStep(f, t, s)
    BY <2>1
  <2>3. \A s \in Small(k) : s \in Small(k + 1) /\ g[s] = f[s]
    BY <1>1
  <2>4. \A s \in Small(k + 1) : s # {} => s \ {CHOOSE q \in s : TRUE} \in Small(k)
    BY OneLess
  <2>5. g = [s \in Small(k + 1) |-> g[s]]
    OBVIOUS
  <2> HIDE DEF g, Small
  <2>6. \A s \in Small(k + 1) : SumStep(f, t, s) = SumStep(g, t, s)
    BY <2>3, <2>4 DEF SumStep
  <2>7. g = [s \in Small(k + 1) |-> SumStep(g, t, s)]
    BY <2>2, <2>5, <2>6
  <2>8. Has(k + 1)
    BY <2>7
  <2> HIDE DEF Has
  <2> QED BY <2>8
<1>4. Cardinality(S) + 1 \in P
  <2>1. Nat \subseteq P
    <3> HIDE DEF P
    <3> QED BY <1>2, <1>3, EveryNat
  <2> HIDE DEF P
  <2> QED BY <1>1, <2>1
<1>5. Small(Cardinality(S) + 1) = SUBSET S
  BY <1>1
<1> HIDE DEF Small
<1> QED BY <1>4, <1>5

SumOf(t, S) == MapThenSumSet(LAMBDA q : FileVote(q, t) + NameVote(q, t), S)

LEMMA SumBounds ==
  ASSUME NEW S, IsFiniteSet(S), NEW t
  PROVE  SumOf(t, S) \in Nat /\ \A q \in S : Vote(q, t) <= SumOf(t, S)
<1> DEFINE f == CHOOSE f : f = [s \in SUBSET S |-> SumStep(f, t, s)]
<1>1. f = [s \in SUBSET S |-> SumStep(f, t, s)]
  BY SumExists
<1>2. SumOf(t, S) = f[S]
  BY DEF SumOf, MapThenSumSet, MapThenFoldSet, SumStep, Vote
<1> HIDE DEF f
<1> DEFINE Good(s) == f[s] \in Nat /\ \A q \in s : Vote(q, t) <= f[s]
           P == {k \in Nat : \A s \in SUBSET S : Cardinality(s) < k => Good(s)}
<1>3. \A s \in SUBSET S : Cardinality(s) \in Nat
  BY FS_Subset, FS_CardinalityType
<1>4. 0 \in P
  BY <1>3
<1>5. ASSUME NEW k \in Nat, k \in P PROVE k + 1 \in P
  <2> SUFFICES ASSUME NEW s \in SUBSET S, Cardinality(s) < k + 1 PROVE Good(s)
    OBVIOUS
  <2>1. f[s] = SumStep(f, t, s)
    BY <1>1
  <2>2. CASE s = {}
    BY <2>1, <2>2 DEF SumStep
  <2>3. CASE s # {}
    <3> DEFINE x == CHOOSE q \in s : TRUE
               r == s \ {x}
    <3>1. Good(r)
      <4>1. r \in SUBSET S /\ Cardinality(r) < k
        BY <2>3, OneLess
      <4> HIDE DEF r, Good
      <4> QED BY <1>5, <4>1
    <3>2. f[s] = Vote(x, t) + f[r]
      BY <2>1, <2>3 DEF SumStep
    <3>3. \A q \in s : q = x \/ q \in r
      OBVIOUS
    <3>4. \A q : Vote(q, t) \in Nat
      BY VotesAreNumbers
    <3> HIDE DEF r, x
    <3> QED BY <3>1, <3>2, <3>3, <3>4
  <2> QED BY <2>2, <2>3
<1>6. Cardinality(S) + 1 \in P
  <2>1. Nat \subseteq P
    <3> HIDE DEF P
    <3> QED BY <1>4, <1>5, EveryNat
  <2> HIDE DEF P
  <2> QED BY <1>3, <2>1
<1>7. Good(S)
  <2> HIDE DEF Good
  <2> QED BY <1>3, <1>6
<1> QED BY <1>2, <1>7

LEMMA HeardIsFinite ==
  ASSUME TreesInv, NEW a
  PROVE  IsFiniteSet(Heard(a))
<1>1. IsFiniteSet(Procs \union {2})
  BY ProcNumbers, FS_AddElement
<1>2. Heard(a) \subseteq DOMAIN proc
  BY DEF Heard, Kids
<1>3. Heard(a) \subseteq Procs \union {2}
  BY <1>2 DEF TreesInv
<1> QED BY <1>1, <1>3, FS_Subset

\* A tool that is heard and has a vote gives a type.
LEMMA ToolsGiveTypes ==
  ASSUME TreesInv, NEW a, NEW q \in Heard(a), NEW title,
         Cmd(q) \in DOMAIN Speaks \union Machines \union Service
  PROVE  HasType(a, title)
<1>1. PICK t \in WorkloadType : NameVote(q, t) > 0
  <2>1. CASE Cmd(q) \in Machines
    <3>1. NameVote(q, "VM") > 0
      BY <2>1 DEF NameVote, Machines, Service
    <3> QED BY <3>1 DEF WorkloadType
  <2>2. CASE Cmd(q) \in Service
    <3>1. NameVote(q, "SERVICE") > 0
      BY <2>2 DEF NameVote, Machines, Service
    <3> QED BY <3>1 DEF WorkloadType
  <2>3. CASE Cmd(q) \in DOMAIN Speaks
    <3>1. NameVote(q, Speaks[Cmd(q)]) > 0
      BY <2>3 DEF NameVote
    <3>2. Speaks[Cmd(q)] \in WorkloadType
      BY <2>3 DEF Speaks, WorkloadType
    <3> QED BY <3>1, <3>2
  <2> QED BY <2>1, <2>2, <2>3
<1> DEFINE sum == SumOf(t, Heard(a))
<1>2. sum \in Nat /\ Vote(q, t) <= sum
  BY HeardIsFinite, SumBounds
<1>3. Vote(q, t) > 0
  BY <1>1, VotesAreNumbers DEF Vote
<1>4. OwnVote(a, t) \in Nat /\ CwdVote(a, t) \in Nat /\ TitleVote(title, t) \in Nat
  BY DEF OwnVote, CwdVote, TitleVote
<1>5. Votes(a, title)[t] = OwnVote(a, t) + sum + CwdVote(a, t) + TitleVote(title, t)
  BY DEF Votes, SumOf
<1> HIDE DEF sum
<1>6. Votes(a, title)[t] > 0
  BY <1>2, <1>3, <1>4, <1>5, VotesAreNumbers
<1> QED BY <1>6 DEF HasType

LEMMA WatchedFromTrees == TreesInv => TreesAreWatched
<1> SUFFICES ASSUME TreesInv PROVE TreesAreWatched
  OBVIOUS
<1> DEFINE Below(a) == {q \in DOMAIN proc : /\ \E i \in 2..4 : i \in DOMAIN Lineage(q) /\ Lineage(q)[i] = a
                                            /\ Exe(q) # "/tmp"}
           Tools(a) == {Cmd(q) : q \in Below(a)}
<1>1. ASSUME NEW p \in DOMAIN proc, UserApp(p), ~proc[p].image.guarded
      PROVE  \E i \in DOMAIN Lineage(p) :
               LET a == Lineage(p)[i]
               IN Founds(a) \/ (proc[a].image.guarded /\ UserApp(a) /\ TreeRoot(a) = a)
  <2>1. PICK i \in DOMAIN Lineage(p) : 
          UserApp(Lineage(p)[i]) /\ TreeRoot(Lineage(p)[i]) = Lineage(p)[i]
    BY <1>1, AppsAreTopped DEF Topped
  <2> QED BY <2>1 DEF Founds
<1>2. \A a : \A c \in Tools(a) : c # "" => \E q \in Heard(a) : Cmd(q) = c
  <2>1. \A i \in 2..4 : i \in {2, 3, 4}
    OBVIOUS
  <2> QED BY <2>1, BelowIsHeard DEF InLine
<1>3. "" \notin DOMAIN Speaks \union Machines \union Service \union Build \union Lsp
  BY DEF Speaks, Machines, Service, Build, Lsp
<1>4. ASSUME NEW a, Tools(a) \intersect (DOMAIN Speaks \union Machines \union Service) # {}, NEW title
      PROVE  HasType(a, title)
  <2>1. PICK q \in Heard(a) : Cmd(q) \in DOMAIN Speaks \union Machines \union Service
    BY <1>2, <1>3, <1>4
  <2> QED BY <2>1, ToolsGiveTypes
<1>5. ASSUME NEW a, NEW r \in Classify(a, NoTitle)
      PROVE  /\ Tools(a) \intersect Build # {} => r.building
             /\ Tools(a) \intersect Lsp # {} => r.lsp
  <2> DEFINE heard == {Cmd(q) : q \in Heard(a)}
  <2>1. PICK t : r = [type |-> t, building |-> heard \intersect Build # {},
                      lsp |-> heard \intersect Lsp # {}, ai |-> heard \intersect Ai # {},
                      browser |-> Cmd(a) \in Browser,
                      latency |-> Cmd(a) \in Browser \/ heard \intersect Latency # {}]
    BY Zenon DEF Classify
  <2>2. \A c \in Tools(a) : c # "" => c \in heard
    BY <1>2
  <2>3. r.building = (heard \intersect Build # {}) /\ r.lsp = (heard \intersect Lsp # {})
    BY <2>1
  <2> HIDE DEF heard, Tools
  <2> QED BY <1>3, <2>2, <2>3
<1> HIDE DEF Tools
<1>6. ASSUME NEW a \in DOMAIN proc
      PROVE  /\ Tools(a) \intersect (DOMAIN Speaks \union Machines \union Service) # {} =>
                  \A title \in Titles \union {NoTitle} : HasType(a, title)
             /\ \A r \in Classify(a, NoTitle) :
                  /\ Tools(a) \intersect Build # {} => r.building
                  /\ Tools(a) \intersect Lsp # {} => r.lsp
  BY <1>4, <1>5
<1> QED BY <1>1, <1>6 DEF TreesAreWatched, Tools

\* For every number of processes and changes, every image and every title: above each
\* application of the user a process founds a workload or is protected where the climb ends,
\* and a tool that has a vote is heard three generations up.
THEOREM AppsAreWatched == TreesSpec => []TreesAreWatched
BY TreesStart, TreesStep, WatchedFromTrees, PTL DEF TreesSpec
=============================================================================
