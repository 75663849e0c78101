------------------------------- MODULE Guard -------------------------------
(***************************************************************************)
(* archtitan-guard (main.c): apply_enforcement, which a service runs at boot      *)
(* and an administrator at any time, so that two runs may overlap.                  *)
(*                                                                          *)
(* Links stand for display-manager.service and the masked units: each is good,      *)
(* points elsewhere or, where only a unit file could be, is absent.  A file is        *)
(* good, bad, or partial while it is written; a checksum tells good from the          *)
(* rest, and is an operation of its own, no arithmetic.  The system may refuse any       *)
(* read, link, rename or write of a run, alone or not, and the machine may lose power   *)
(* between any two steps.  pretransaction keeps no state and is left out.               *)
(***************************************************************************)
EXTENDS Integers, Sequences

CONSTANTS
  Guards,       \* the runs of the guard that may overlap
  MaxMeddling  \* bound on what others change

VARIABLES
  links,      \* the links of systemd
  tmpNames,   \* the temporary names that exist
  files,      \* the verified files
  backups,    \* their backups: "good" or "bad"
  guard,      \* each run: [pc, todo, answer, alone, missed]; todo is what is left to see to,
              \* missed (history) what was refused without the run taking notice
  meddling    \* number of changes of others

guardVars == <<links, tmpNames, files, backups, guard, meddling>>

DM == "display-manager.service"
Mask == "a masked unit"
Hook == "a verified file"
Links == {DM, Mask}
Files == {Hook}

Resting == [pc |-> "off", todo |-> <<>>, answer |-> -1, alone |-> FALSE, missed |-> {}]

\* What apply_enforcement sees to, in its order: one masked unit stands for the nine of the
\* code and one file for the two.
Everything == <<DM, Mask, Hook>>

Running == {r \in Guards : guard[r].pc # "off"}

GuardInit ==
  /\ links \in {l \in [Links -> {"good", "other", "absent"}] : l[DM] # "absent"}
  /\ tmpNames = {}
  /\ files \in [Files -> {"good", "bad"}] /\ backups \in [Files -> {"good", "bad"}]
  /\ guard = [r \in Guards |-> Resting]
  /\ meddling = 0

Sets(r, run) == guard' = [guard EXCEPT ![r] = run]

\* main: verify, apply and enforce are the same.
BeginGuard(r) ==
  /\ guard[r].pc = "off"
  /\ guard' = [q \in Guards |->
       IF q = r THEN [pc |-> "see", todo |-> Everything, answer |-> -1, alone |-> Running = {},
                      missed |-> {}]
       ELSE [guard[q] EXCEPT !.alone = FALSE]]
  /\ UNCHANGED <<links, tmpNames, files, backups, meddling>>

\* The end of apply_enforcement with an answer: 0, 2 for the link, 3 for a file.
GuardEnds(run, answer) == [run EXCEPT !.pc = "off", !.todo = <<>>, !.answer = answer]

GoOn(run) == IF Len(run.todo) = 1 THEN GuardEnds(run, 0)
              ELSE [run EXCEPT !.pc = "see", !.todo = Tail(@)]

\* A run that goes on without what it should have put in place.
Misses(run) == GoOn([run EXCEPT !.missed = @ \cup {Head(run.todo)}])

\* is_symlink_to: a link that cannot be read counts as a wrong one.
SeesLink(r) ==
  /\ guard[r].pc = "see" /\ Head(guard[r].todo) \in Links
  /\ \/ links[Head(guard[r].todo)] = "good" /\ Sets(r, GoOn(guard[r]))
     \/ Sets(r, [guard[r] EXCEPT !.pc = "unlink"])
  /\ UNCHANGED <<links, tmpNames, files, backups, meddling>>

\* set_symlink_atomic: the old temporary name is removed, which nobody checks, and a new one
\* made beside the link, which fails where one is or where the system refuses it.
Unlinks(r) ==
  /\ guard[r].pc = "unlink"
  /\ tmpNames' \in {tmpNames, tmpNames \ {Head(guard[r].todo)}}
  /\ Sets(r, [guard[r] EXCEPT !.pc = "symlink"])
  /\ UNCHANGED <<links, files, backups, meddling>>

\* The end of set_symlink_atomic without a link: the masks go on without it.
Failed(run) == IF Head(run.todo) = DM THEN GuardEnds(run, 2) ELSE Misses(run)

Symlinks(r) ==
  LET link == Head(guard[r].todo) IN
  /\ guard[r].pc = "symlink"
  /\ \/ /\ link \notin tmpNames
        /\ tmpNames' = tmpNames \cup {link}
        /\ Sets(r, [guard[r] EXCEPT !.pc = "rename"])
     \/ Sets(r, Failed(guard[r])) /\ UNCHANGED tmpNames
  /\ UNCHANGED <<links, files, backups, meddling>>

\* The link is put in place by rename, so that it is there at every moment.
Renames(r) ==
  LET link == Head(guard[r].todo) IN
  /\ guard[r].pc = "rename"
  /\ \/ /\ link \in tmpNames /\ tmpNames' = tmpNames \ {link}
        /\ links' = [links EXCEPT ![link] = "good"]
        /\ Sets(r, GoOn(guard[r]))
     \/ /\ tmpNames' \in {tmpNames, tmpNames \ {link}}
        /\ Sets(r, Failed(guard[r])) /\ UNCHANGED links
  /\ UNCHANGED <<files, backups, meddling>>

\* Were a copy made of any backup, whatever its checksum.
VerifiesLoosely(r) ==
  LET f == Head(guard[r].todo) IN
  /\ guard[r].pc = "see" /\ f \in Files
  /\ IF files[f] = "good" THEN Sets(r, GoOn(guard[r])) /\ UNCHANGED files
     ELSE /\ Sets(r, [guard[r] EXCEPT !.pc = "copy"])
          /\ files' = [files EXCEPT ![f] = "partial"]
  /\ UNCHANGED <<links, tmpNames, backups, meddling>>

\* verify_file_checksum: a file that differs, or cannot be read, is overwritten in place by a
\* good backup, if both can be opened.
VerifiesFile(r) ==
  LET f == Head(guard[r].todo) IN
  /\ guard[r].pc = "see" /\ f \in Files
  /\ \/ files[f] = "good" /\ Sets(r, GoOn(guard[r])) /\ UNCHANGED files
     \/ /\ backups[f] = "good" /\ Sets(r, [guard[r] EXCEPT !.pc = "copy"])
        /\ files' = [files EXCEPT ![f] = "partial"]
     \/ Sets(r, GuardEnds(guard[r], 3)) /\ UNCHANGED files
  /\ UNCHANGED <<links, tmpNames, backups, meddling>>

\* A write that falls short is noticed, a read of the backup that does or a close that fails
\* is not.
Copies(r) ==
  LET f == Head(guard[r].todo) IN
  /\ guard[r].pc = "copy"
  /\ \/ files' = [files EXCEPT ![f] = backups[f]] /\ Sets(r, GoOn(guard[r]))
     \/ files' = [files EXCEPT ![f] = "partial"] /\ Sets(r, GuardEnds(guard[r], 3))
     \/ files' = [files EXCEPT ![f] = "partial"] /\ Sets(r, Misses(guard[r]))
  /\ UNCHANGED <<links, tmpNames, backups, meddling>>

\* Another program points a link elsewhere, or changes a file or a backup.
Meddle ==
  /\ meddling < MaxMeddling /\ meddling' = meddling + 1
  /\ guard' = [r \in Guards |-> [guard[r] EXCEPT !.alone = FALSE]]
  /\ \/ \E l \in Links : links' = [links EXCEPT ![l] = "other"] /\ UNCHANGED <<files, backups>>
     \/ \E f \in Files : files' = [files EXCEPT ![f] = "bad"] /\ UNCHANGED <<links, backups>>
     \/ \E f \in Files : backups' = [backups EXCEPT ![f] = "bad"] /\ UNCHANGED <<links, files>>
  /\ UNCHANGED tmpNames

PowerLost ==
  /\ Running # {}
  /\ guard' = [r \in Guards |-> Resting]
  /\ UNCHANGED <<links, tmpNames, files, backups, meddling>>

GuardNext ==
  \/ \E r \in Guards :
       BeginGuard(r) \/ SeesLink(r) \/ Unlinks(r) \/ Symlinks(r) \/ Renames(r)
       \/ VerifiesFile(r) \/ Copies(r)
  \/ Meddle \/ PowerLost

GuardSpec == GuardInit /\ [][GuardNext]_guardVars

-----------------------------------------------------------------------------
\* Properties

\* What the guard's answer is worth.  A run that answered 0, and that no other run and no
\* other program has crossed since it began, leaves the display manager's link good, and every
\* other link and file that was not refused to it unnoticed, whatever a loss of power, a
\* failure or two overlapping runs left before it; and the machine always has a display
\* manager to start (apply_enforcement, set_symlink_atomic, verify_file_checksum).  What goes
\* unnoticed is a mask that cannot be linked (main.c:336) and a copy cut short by a failing
\* read or close (main.c:293, 297): the answer 0 says nothing of them.
AnswerIsSo ==
  /\ links[DM] # "absent"
  /\ \A r \in Guards : guard[r].answer = 0 /\ guard[r].alone =>
       /\ links[DM] = "good"
       /\ \A l \in Links \ guard[r].missed : links[l] = "good"
       /\ \A f \in Files \ guard[r].missed : files[f] = "good"
=============================================================================
