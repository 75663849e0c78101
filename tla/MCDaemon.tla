------------------------------ MODULE MCDaemon ------------------------------
(***************************************************************************)
(* Small machines for TLC.                                                  *)
(***************************************************************************)
EXTENDS Daemon, TLC

\* What the classifier can say of a process.
PlainDev == [type |-> "DEV", ai_owned |-> FALSE, is_browser_root |-> FALSE]
AiDev    == [PlainDev EXCEPT !.ai_owned = TRUE]
Browser  == [PlainDev EXCEPT !.is_browser_root = TRUE]
Service  == [PlainDev EXCEPT !.type = "SERVICE"]
Vm       == [PlainDev EXCEPT !.type = "VM"]

DevOnly    == {PlainDev}
DevVm      == {PlainDev, Vm}
DevBrowser == {PlainDev, Browser}
NoVm       == {PlainDev, AiDev, Browser, Service}

Symmetric == Permutations(Pids) \union Permutations(Ids)

AllPCs   == PC
SleepPCs == {"down", "sleep", "grace", "term"}
=============================================================================
