----------------------------- MODULE MCLiveness -----------------------------
(***************************************************************************)
(* Two machines for the liveness of the daemon: one process alone, with all  *)
(* that can happen to it, and two processes that share the freezer, there from *)
(* before the daemon's start, with the machine acting between two ticks.      *)
(***************************************************************************)
EXTENDS MCDaemon

VARIABLE sharing

livenessVars == <<vars, sharing>>

\* Nothing but the name of a workload hangs on it.
Home == CHOOSE f \in [Pids -> Ids] : \A p, q \in Pids : p # q => f[p] # f[q]
Lone == CHOOSE p \in Pids : TRUE

AloneNext ==
  /\ Next
  /\ \A p \in Pids \ {Lone} : run'[p] = "absent"

\* Under the highest pressure, after a start that finds no group, and with every process
\* classified.
SharedNext ==
  \/ \E p \in Pids : pc = "down" /\ Spawn(p, "plain", FALSE)
  \/ (\A p \in Pids : run[p] = "running") /\ Start /\ workloads' = <<>>
  \/ /\ DaemonStep
     /\ pc = "sleep" => snap'.pressure = 3
     /\ \A i \in DOMAIN workloads' : ~workloads'[i].observed
  \/ /\ pc = "sleep"
     /\ \/ \E p \in Pids : Toggle(p)
        \/ \E w \in Workspaces : Switch(w)
        \/ \E i \in Registered : Elapse(i)

LivenessSpec ==
  /\ Init /\ sharing \in BOOLEAN
  /\ [][/\ IF sharing THEN SharedNext ELSE AloneNext
        /\ \A p \in Pids : owner'[p] \in {None, Home[p]}
        /\ UNCHANGED sharing]_livenessVars
  /\ WF_vars(DaemonStep)
=============================================================================
