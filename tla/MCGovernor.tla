----------------------------- MODULE MCGovernor -----------------------------
(***************************************************************************)
(* Small machines for TLC: a build, a browser and an observed workload, and   *)
(* readings on both sides of the thresholds.                                 *)
(***************************************************************************)
EXTENDS Governor

Build   == [observed |-> FALSE, is_building |-> TRUE, latency_sensitive |-> FALSE]
Browser == [observed |-> FALSE, is_building |-> FALSE, latency_sensitive |-> TRUE]
Unknown == [observed |-> TRUE, is_building |-> FALSE, latency_sensitive |-> FALSE]

AllDemands == {Build, Browser, Unknown}

Calm(free)        == [free |-> free, psi |-> TRUE, some |-> 0, full |-> 0]
Stalled(some, full) == [free |-> 60, psi |-> TRUE, some |-> some, full |-> full]
Blind(free)       == [free |-> free, psi |-> FALSE, some |-> 0, full |-> 0]

Sample == {Calm(60), Stalled(20, 0), Blind(49), Blind(14)}
=============================================================================
