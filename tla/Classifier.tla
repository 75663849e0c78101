---------------------------- MODULE Classifier ----------------------------
(***************************************************************************)
(* What the daemon makes of a snapshot of the process table: the root that   *)
(* resolve_tree_root finds for a process, the type FusionClassifier votes    *)
(* for, and with them which unowned processes found a workload.  Daemon      *)
(* takes the verdict of the classifier as an input.                         *)
(*                                                                          *)
(* The machine forks, executes, starts sessions, enters scopes and exits,    *)
(* and a process may be on its way out while build_proc_graph reads it:      *)
(* then its parent and uid were read, its session, scope and files were not.  *)
(***************************************************************************)
EXTENDS Naturals, Sequences, FiniteSetsExt

CONSTANTS
  Procs,        \* numbers of processes, 2 is the user's first one
  Images,       \* what a process may execute: [comm, exe, user, guarded]
  Titles,       \* what titles of windows speak for: [type, specific]
  MaxChanges    \* bounds the changes of a process after it was started

ASSUME ProcNumbers == Procs \subseteq Nat \ {0, 1} /\ IsFiniteSet(Procs)

VARIABLES proc,      \* /proc, a function on the numbers in use
          changes

treeVars == <<proc, changes>>

\* The parts of argv[0], the comm and the file that the code tells apart.  user is uid >= 1000,
\* guarded is registry.is_protected.
Managers == {"systemd", "Hyprland", "dbus-broker"}
Infra    == Managers \union {"waybar", "pipewire", "qs"}
Service  == {"dockerd", "podman"}
Machines == {"qemu-kvm"}
Latency  == {"obs", "ffmpeg"}
Ai       == {"ollama"}
Speaks   == [clangd |-> "SYSTEM_DEV", tsserver |-> "WEB_DEV", jdtls |-> "ANDROID_DEV",
             gradle |-> "ANDROID_DEV", java |-> "ANDROID_DEV", make |-> "SYSTEM_DEV", node |-> "WEB_DEV"]
Lsp      == {"clangd", "tsserver", "jdtls", "pyright"}
Build    == {"gradle", "java", "make", "node", "aapt2", "bazel"}
Browser  == {"firefox", "titan-browser"}

WorkloadType == {"ANDROID_DEV", "WEB_DEV", "SYSTEM_DEV", "VM", "SERVICE"}

Session == [parent |-> 1, image |-> [comm |-> "kitty", exe |-> "", user |-> TRUE, guarded |-> FALSE],
            scope |-> "", sid |-> 2, cwd |-> "", gone |-> FALSE]

TreesInit == proc = [p \in {2} |-> Session] /\ changes = 0

-----------------------------------------------------------------------------
\* Who descends from whom.  Process 1 manages the session, no climb enters it.

Kids(p) == {q \in DOMAIN proc : proc[q].parent = p}

\* p, its parent and so on, as long as they are there.
Lineage(p) ==
  LET line[q \in DOMAIN proc] ==
        <<q>> \o (IF proc[q].parent \in DOMAIN proc THEN line[proc[q].parent] ELSE <<>>)
  IN line[p]

Scope(p) == IF proc[p].gone THEN "" ELSE proc[p].scope
Sid(p)   == IF proc[p].gone THEN 0 ELSE proc[p].sid

UserApp(p) == proc[p].image.user /\ proc[p].image.comm \notin Managers \union Infra

\* The climb that starts at p goes on to a: within p's scope or session when it has one.
Joins(p, a) ==
  /\ UserApp(a)
  /\ Scope(p) # "" \/ Sid(p) > 0 =>
       \/ Scope(p) # "" /\ Scope(a) = Scope(p)
       \/ Sid(p) > 0 /\ Sid(a) = Sid(p)

TreeRootTooHigh(p) ==
  LET line == Lineage(p)
      stops == {i \in 2..Len(line) : ~Joins(p, line[i])}
  IN line[Min(stops \union {Len(line)})]

\* No climb is longer than this.
Steps(p) == IF Scope(p) # "" \/ Sid(p) > 0 THEN 128 ELSE 64

\* resolve_tree_root: the last process the climb goes on to.
TreeRoot(p) ==
  LET line == Lineage(p)
      stops == {i \in 2..Len(line) : ~Joins(p, line[i])}
  IN line[Min(stops \union {Len(line) + 1, Steps(p) + 2}) - 1]

-----------------------------------------------------------------------------
\* The votes, in twentieths.

Cmd(p) == IF proc[p].gone THEN "" ELSE proc[p].image.comm
Exe(p) == IF proc[p].gone THEN "" ELSE proc[p].image.exe

\* walk_subtree to the third generation.  ISSUE-11: a file under /tmp says nothing.
Heard(p) ==
  LET second == UNION {Kids(q) : q \in Kids(p)}
      third  == UNION {Kids(q) : q \in second}
  IN {q \in Kids(p) \union second \union third : Cmd(q) # "" /\ Exe(q) # "/tmp"}

OwnVote(p, t) ==
  CASE Exe(p) = "android-studio" /\ t = "ANDROID_DEV" -> 8
    [] Exe(p) = "jbr" /\ t = "ANDROID_DEV"            -> 6
    [] Exe(p) = "code" /\ t = "SYSTEM_DEV"            -> 6
    [] OTHER -> 0

FileVote(q, t) ==
  CASE Exe(q) \in {"android-studio", "jbr"} /\ t = "ANDROID_DEV" -> 5
    [] Exe(q) = "node" /\ t = "WEB_DEV"                          -> 4
    [] Exe(q) = "clangd" /\ t = "SYSTEM_DEV"                     -> 5
    [] OTHER -> 0

\* An LSP server or a build tool that is in no list of a type has no vote.
NameVote(q, t) ==
  CASE Cmd(q) \in Machines /\ t = "VM"                        -> 18
    [] Cmd(q) \in Service /\ t = "SERVICE"                    -> 18
    [] Cmd(q) \in DOMAIN Speaks /\ t = Speaks[Cmd(q)]         -> 12
    [] OTHER -> 0

\* from_cwd.  cwd stands for the marks of a project in the directory, none under /tmp.
CwdVote(p, t) == IF ~proc[p].gone /\ proc[p].cwd = t THEN 4 ELSE 0

\* from_title.  A suffix that only one type has counts more.
TitleVote(title, t) == IF title.type # t THEN 0 ELSE IF title.specific THEN 10 ELSE 6

Votes(p, title) ==
  LET heard == Heard(p)
  IN [t \in WorkloadType |->
        OwnVote(p, t) + MapThenSumSet(LAMBDA q : FileVote(q, t) + NameVote(q, t), heard)
          + CwdVote(p, t) + TitleVote(title, t)]

\* FusionClassifier::classify.  Types with as many votes: an unordered_map decides.
Classify(p, title) ==
  LET votes == Votes(p, title)
      most  == Max({votes[t] : t \in WorkloadType})
      heard == {Cmd(q) : q \in Heard(p)}
      roots == Cmd(p) \in Browser
  IN {[type |-> t, building |-> heard \intersect Build # {}, lsp |-> heard \intersect Lsp # {},
       ai |-> heard \intersect Ai # {}, browser |-> roots,
       latency |-> roots \/ heard \intersect Latency # {}] :
        t \in IF most = 0 THEN {"NEUTRAL"} ELSE {u \in WorkloadType : votes[u] = most}}

NoTitle == [type |-> "NEUTRAL", specific |-> FALSE]

HasType(p, title) == LET votes == Votes(p, title) IN \E t \in WorkloadType : votes[t] > 0

\* The loop over proc_graph for a process without a workload, which has no title as long as
\* it is not in the foreground.
Founds(p) ==
  /\ ~proc[p].image.guarded
  /\ (UserApp(p) /\ TreeRoot(p) = p) \/ HasType(p, NoTitle)

-----------------------------------------------------------------------------
\* The machine.

Fresh == Procs \ DOMAIN proc

ForkExec(q, i) ==
  /\ q \in DOMAIN proc /\ ~proc[q].gone /\ Fresh # {}
  /\ proc' = [p \in DOMAIN proc \union {Min(Fresh)} |->
                IF p = Min(Fresh) THEN [proc[q] EXCEPT !.parent = q, !.image = i] ELSE proc[p]]
  /\ UNCHANGED changes

Alters(p, node) ==
  /\ changes < MaxChanges /\ changes' = changes + 1
  /\ proc[p] # node /\ proc' = [proc EXCEPT ![p] = node]

Setsid(p)   == proc[p].sid # p /\ Alters(p, [proc[p] EXCEPT !.sid = p])
Scoped(p)   == Alters(p, [proc[p] EXCEPT !.scope = "app.scope"])
Chdir(p, t) == Alters(p, [proc[p] EXCEPT !.cwd = t])
Fades(p)    == Alters(p, [proc[p] EXCEPT !.gone = TRUE])

\* Its children belong to the session's manager from then on.
Reaped(p) ==
  /\ changes < MaxChanges /\ changes' = changes + 1
  /\ proc' = [q \in DOMAIN proc \ {p} |->
                IF proc[q].parent = p THEN [proc[q] EXCEPT !.parent = 1] ELSE proc[q]]

TreesNext ==
  \/ \E q \in Procs, i \in Images : ForkExec(q, i)
  \/ \E p \in DOMAIN proc : \/ Setsid(p) \/ Scoped(p) \/ Fades(p) \/ Reaped(p)
                            \/ \E t \in {"ANDROID_DEV", "WEB_DEV"} : Chdir(p, t)

TreesSpec == TreesInit /\ [][TreesNext]_treeVars

-----------------------------------------------------------------------------
\* However sessions, scopes and exits cut the tree, an application of the user has a process
\* at or above it that founds a workload, or a protected one where the climb ends.  It does
\* not join that workload: the loop assigns founders only (daemon.cpp:977, 1007), although
\* the comment of daemon.cpp:983 lets "the child" inherit it "on a later tick".  And what a
\* process works on is heard three generations up, whatever the title of a window says: a
\* tool with a vote makes a type of each of them, and a build or an LSP server is reported.
TreesAreWatched ==
  LET lines == [p \in DOMAIN proc |-> Lineage(p)]
      Below(a) == {q \in DOMAIN proc : /\ \E i \in 2..4 : i \in DOMAIN lines[q] /\ lines[q][i] = a
                                       /\ Exe(q) # "/tmp"}
  IN /\ \A p \in DOMAIN proc : UserApp(p) /\ ~proc[p].image.guarded =>
          \E i \in DOMAIN lines[p] :
             LET a == lines[p][i]
             IN \/ Founds(a)
                \/ proc[a].image.guarded /\ UserApp(a) /\ TreeRoot(a) = a
     /\ \A a \in DOMAIN proc :
          LET tools == {Cmd(q) : q \in Below(a)}
          IN /\ tools \intersect (DOMAIN Speaks \union Machines \union Service) # {} =>
                  \A title \in Titles \union {NoTitle} : HasType(a, title)
             /\ \A r \in Classify(a, NoTitle) :
                  /\ tools \intersect Build # {} => r.building
                  /\ tools \intersect Lsp # {} => r.lsp
=============================================================================
