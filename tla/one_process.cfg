SPECIFICATION Spec
CONSTANTS
  Pids = {p1}
  Ids = {w1}
  None = None
  Workspaces = {ws1}
  Headless = Headless
  Profiles <- NoVm
  Kinds = {"plain", "browser", "protected"}
  Pressures = {0, 1, 2, 3}
  HysteresisTicks = 1
  RecentAge = 1
  SoftAge = 1
  HardAge = 2
  MaxObserved = 1
  SweepReaches = {}
  Preempt <- AllPCs
  Faults = {"crash", "recycle", "exec"}
INVARIANTS
  TypeOK
PROPERTIES
  ProtectedUntouched
  ImmuneUntouched
  ExecutingUntouched
  KillJustified
