----------------------------- MODULE Ownership -----------------------------
(***************************************************************************)
(* OwnershipGraph::bootstrap(): how the processes alive at the start of the  *)
(* daemon are grouped into workloads.                                       *)
(*                                                                          *)
(* bootstrap() reads /proc entry by entry while processes start and exit,    *)
(* sorts what it read by the parent's number, and gives each process the     *)
(* workload of its parent, or one of its own when its directory or name      *)
(* tells a type, or none.  Daemon's Start takes any grouping, this module     *)
(* says which ones there are.                                               *)
(***************************************************************************)
EXTENDS Naturals, FiniteSets

CONSTANT Pids   \* process numbers, without 0 and 1

ASSUME PidNumbers == Pids \subseteq Nat \ {0, 1} /\ IsFiniteSet(Pids)

VARIABLES
  parent,   \* the process table: the parent of each process that exists
  hinted,   \* the processes whose directory or name tells a workload type
  pc,       \* "scan", "assign" or "done"
  entries,  \* what was read of /proc
  todo,     \* the entries still to be assigned
  owner,    \* pid_to_wl_, a function on the assigned pids
  stubs,    \* the workloads made so far, a function on their ids
  next_id

kernelVars == <<parent, hinted>>
vars == <<kernelVars, pc, entries, todo, owner, stubs, next_id>>

Alive == DOMAIN parent
Ppids == Pids \union {0, 1}

\* ProcEntry.  hinted stands for cwd and comm: whether infer_from_cwd or
\* infer_type_from_comm finds a type.
ProcEntry == [pid : Pids, ppid : Ppids, hinted : BOOLEAN]

OwnershipTypeOK ==
  /\ Alive \subseteq Pids /\ \A p \in Alive : parent[p] \in Pids \union {1}
  /\ hinted \subseteq Alive
  /\ pc \in {"scan", "assign", "done"}
  /\ entries \subseteq ProcEntry /\ todo \subseteq entries
  /\ \A e, f \in entries : e.pid = f.pid => e = f
  /\ next_id \in Nat \ {0}
  /\ stubs \in [1..(next_id - 1) -> [root_pid : Pids, pids : SUBSET Pids]]
  /\ DOMAIN owner \subseteq {e.pid : e \in entries \ todo}
  /\ pc = "scan" => DOMAIN owner = {} /\ todo = {}
  /\ \A p \in DOMAIN owner : owner[p] \in DOMAIN stubs
  /\ \A i \in DOMAIN stubs : /\ stubs[i].pids = {p \in DOMAIN owner : owner[p] = i}
                             /\ stubs[i].root_pid \in stubs[i].pids

Init ==
  /\ parent = <<>> /\ hinted = {}
  /\ pc = "scan" /\ entries = {} /\ todo = {}
  /\ owner = <<>> /\ stubs = <<>> /\ next_id = 1

-----------------------------------------------------------------------------
\* The machine.

\* A number is free as soon as its process is gone, so a child may have a
\* smaller one than its parent.
Spawn(p, q, hint) ==
  /\ p \in Pids \ Alive /\ q \in Alive \union {1}
  /\ parent' = [r \in Alive \union {p} |-> IF r = p THEN q ELSE parent[r]]
  /\ hinted' = IF hint THEN hinted \union {p} ELSE hinted
  /\ UNCHANGED <<pc, entries, todo, owner, stubs, next_id>>

\* The children of a process that exits get parent 1.
Gone(p) ==
  /\ parent' = [r \in Alive \ {p} |-> IF parent[r] = p THEN 1 ELSE parent[r]]
  /\ hinted' = hinted \ {p}

Exit(p) == Gone(p) /\ UNCHANGED <<pc, entries, todo, owner, stubs, next_id>>

-----------------------------------------------------------------------------
\* Step 1: the entries of /proc, which come in the order of their numbers.

Unread == {p \in Alive : \A e \in entries : e.pid < p}

Reads(p) == p \in Unread /\ \A q \in Unread : p <= q

Collect(p) ==
  /\ pc = "scan" /\ Reads(p)
  /\ entries' = entries \union {[pid |-> p, ppid |-> parent[p], hinted |-> p \in hinted]}
  /\ UNCHANGED <<kernelVars, pc, todo, owner, stubs, next_id>>

\* The process exits after the directory was found: read_ppid answers 0, comm
\* and cwd are empty.
CollectGone(p) ==
  /\ pc = "scan" /\ Reads(p)
  /\ entries' = entries \union {[pid |-> p, ppid |-> 0, hinted |-> FALSE]}
  /\ Gone(p)
  /\ UNCHANGED <<pc, todo, owner, stubs, next_id>>

ScanEnds ==
  /\ pc = "scan" /\ Unread = {}
  /\ pc' = "assign" /\ todo' = entries
  /\ UNCHANGED <<kernelVars, entries, owner, stubs, next_id>>

-----------------------------------------------------------------------------
\* Step 2: one iteration of the loop over the sorted entries.

\* Variant: the entries are not sorted.
FirstUnsorted(e) == e \in todo

\* std::sort by ppid, which leaves the order of siblings open.
First(e) == e \in todo /\ \A f \in todo : e.ppid <= f.ppid

\* Variant: a hint of its own counts more than the parent.
InheritsUnlessHinted(e) == e.ppid \in DOMAIN owner /\ ~e.hinted

Inherits(e) == e.ppid \in DOMAIN owner

\* Variant: the workload made last.
HeirToLast(e) == next_id - 1

Heir(e) == owner[e.ppid]

Assigned(p, id) == [r \in DOMAIN owner \union {p} |-> IF r = p THEN id ELSE owner[r]]

Inherit(e) ==
  /\ pc = "assign" /\ First(e) /\ Inherits(e)
  /\ owner' = Assigned(e.pid, Heir(e))
  /\ stubs' = [stubs EXCEPT ![Heir(e)].pids = @ \union {e.pid}]
  /\ todo' = todo \ {e}
  /\ UNCHANGED <<kernelVars, pc, entries, next_id>>

\* Variant: the id is not used up.
FoundAgain(e) ==
  /\ pc = "assign" /\ First(e) /\ ~Inherits(e) /\ e.hinted
  /\ owner' = Assigned(e.pid, next_id)
  /\ stubs' = [i \in DOMAIN stubs \union {next_id} |->
                 IF i = next_id THEN [root_pid |-> e.pid, pids |-> {e.pid}] ELSE stubs[i]]
  /\ todo' = todo \ {e}
  /\ UNCHANGED <<kernelVars, pc, entries, next_id>>

Found(e) ==
  /\ pc = "assign" /\ First(e) /\ ~Inherits(e) /\ e.hinted
  /\ owner' = Assigned(e.pid, next_id)
  /\ stubs' = [i \in DOMAIN stubs \union {next_id} |->
                 IF i = next_id THEN [root_pid |-> e.pid, pids |-> {e.pid}] ELSE stubs[i]]
  /\ next_id' = next_id + 1
  /\ todo' = todo \ {e}
  /\ UNCHANGED <<kernelVars, pc, entries>>

Leave(e) ==
  /\ pc = "assign" /\ First(e) /\ ~Inherits(e) /\ ~e.hinted
  /\ todo' = todo \ {e}
  /\ UNCHANGED <<kernelVars, pc, entries, owner, stubs, next_id>>

Finish ==
  /\ pc = "assign" /\ todo = {}
  /\ pc' = "done"
  /\ UNCHANGED <<kernelVars, entries, todo, owner, stubs, next_id>>

-----------------------------------------------------------------------------
Machine ==
  \/ \E p \in Pids, q \in Alive \union {1}, hint \in BOOLEAN : Spawn(p, q, hint)
  \/ \E p \in Alive : Exit(p)

Scan == \/ \E p \in Alive : Collect(p) \/ CollectGone(p)
        \/ ScanEnds

Assign == \/ \E e \in todo : Inherit(e) \/ Found(e) \/ Leave(e)
          \/ Finish

Next == Machine \/ Scan \/ Assign

Spec == Init /\ [][Next]_vars

-----------------------------------------------------------------------------
\* Every group is one family: a member that did not found it has its parent, as
\* it was read, in the group.  It holds for whatever mixture of moments the
\* scan saw, also when numbers wrapped around.
GroupsConnected ==
  \A e \in entries : e.pid \in DOMAIN owner
    => \/ e.pid = stubs[owner[e.pid]].root_pid
       \/ e.ppid \in stubs[owner[e.pid]].pids

\* Parents have smaller numbers than their children in what was read.
Ascending == \A e \in entries : e.ppid < e.pid

\* Then sorting by ppid puts parents first, as its comment says: no process is
\* decided while its parent is not, so families stay together.
FamilyTogether ==
  Ascending => \A e \in entries \ todo, f \in entries :
    (e.ppid = f.pid /\ f.pid \in DOMAIN owner)
      => e.pid \in DOMAIN owner /\ owner[e.pid] = owner[f.pid]

\* e and those of its ancestors that were read, for ascending numbers.
Line ==
  LET line[p \in {e.pid : e \in entries}] ==
        LET e == CHOOSE f \in entries : f.pid = p
        IN  {e} \union (IF \E f \in entries : f.pid = e.ppid THEN line[e.ppid] ELSE {})
  IN  line

\* The reference: a process belongs to the workload of its topmost ancestor that
\* tells a type, and to none if there is no such ancestor.
TopmostFounds ==
  pc = "done" /\ Ascending => \A e \in entries :
    LET founders == {f.pid : f \in {g \in Line[e.pid] : g.hinted}}
    IN  IF founders = {} THEN e.pid \notin DOMAIN owner
        ELSE /\ e.pid \in DOMAIN owner
             /\ LET root == stubs[owner[e.pid]].root_pid
                IN  root \in founders /\ \A p \in founders : root <= p
=============================================================================
