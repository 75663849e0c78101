------------------------------ MODULE Custody ------------------------------
(***************************************************************************)
(* What the daemon promises the processes of the session, whatever its      *)
(* policy: it holds a process only as a member of the one group it keeps    *)
(* it in, it holds and releases a group as a whole, it lets go of nobody it *)
(* holds but by releasing them, and it kills one group at a time, after two *)
(* announcements.  Daemon implements this when it does not crash.           *)
(***************************************************************************)
EXTENDS Integers

CONSTANTS Pids, Ids, None

VARIABLES
  serving,    \* the daemon is up
  alive,      \* the processes there are
  held,       \* those among them that are held
  keeper,     \* the group each process is kept in
  condemned,  \* the group about to be killed
  final       \* it has been told twice

custodyVars == <<serving, alive, held, keeper, condemned, final>>

Members(i) == {p \in Pids : keeper[p] = i}

Init ==
  /\ serving = FALSE /\ alive = {} /\ held = {}
  /\ keeper = [p \in Pids |-> None] /\ condemned = None /\ final = FALSE

\* A process number is taken while nobody keeps it.
Appear(p) ==
  /\ p \notin alive /\ keeper[p] = None
  /\ alive' = alive \union {p}
  /\ UNCHANGED <<serving, held, keeper, condemned, final>>

Depart(p) ==
  /\ p \in alive
  /\ alive' = alive \ {p} /\ held' = held \ {p}
  /\ UNCHANGED <<serving, keeper, condemned, final>>

\* The start takes the groups it finds.
Open ==
  /\ ~serving /\ serving' = TRUE
  /\ keeper' \in [Pids -> Ids \union {None}]
  /\ UNCHANGED <<alive, held, condemned, final>>

\* From then on every group is founded by one process, and no group grows.
Adopt(p, i) ==
  /\ serving /\ condemned = None
  /\ keeper[p] = None /\ Members(i) = {}
  /\ keeper' = [keeper EXCEPT ![p] = i]
  /\ UNCHANGED <<serving, alive, held, condemned, final>>

\* Only the dead are dismissed.
Dismiss ==
  /\ serving /\ condemned = None
  /\ \E gone \in SUBSET (Pids \ alive) :
       keeper' = [p \in Pids |-> IF p \in gone THEN None ELSE keeper[p]]
  /\ UNCHANGED <<serving, alive, held, condemned, final>>

Hold(i) ==
  /\ serving /\ condemned = None
  /\ held' = held \union (Members(i) \intersect alive)
  /\ UNCHANGED <<serving, alive, keeper, condemned, final>>

Release(i) ==
  /\ serving /\ condemned = None
  /\ held' = held \ Members(i)
  /\ UNCHANGED <<serving, alive, keeper, condemned, final>>

Announce(i) ==
  /\ serving /\ condemned = None
  /\ condemned' = i
  /\ UNCHANGED <<serving, alive, held, keeper, final>>

AnnounceAgain ==
  /\ condemned # None /\ ~final
  /\ final' = TRUE
  /\ UNCHANGED <<serving, alive, held, keeper, condemned>>

Pardon ==
  /\ condemned # None /\ ~final
  /\ condemned' = None
  /\ UNCHANGED <<serving, alive, held, keeper, final>>

Execute ==
  /\ final
  /\ alive' = alive \ Members(condemned) /\ held' = held \ Members(condemned)
  /\ condemned' = None /\ final' = FALSE
  /\ UNCHANGED <<serving, keeper>>

\* Nobody stays held when the daemon goes.
Close ==
  /\ serving /\ condemned = None
  /\ serving' = FALSE /\ held' = {}
  /\ keeper' = [p \in Pids |-> None]
  /\ UNCHANGED <<alive, condemned, final>>

Next ==
  \/ \E p \in Pids : Appear(p) \/ Depart(p) \/ \E i \in Ids : Adopt(p, i)
  \/ Open \/ Dismiss \/ Close
  \/ \E i \in Ids : Hold(i) \/ Release(i) \/ Announce(i)
  \/ AnnounceAgain \/ Pardon \/ Execute

Spec == Init /\ [][Next]_custodyVars

-----------------------------------------------------------------------------
\* Whoever is held is alive, and is in a group that can still be released.
HeldIsKept == \A p \in held : p \in alive /\ keeper[p] # None
=============================================================================
