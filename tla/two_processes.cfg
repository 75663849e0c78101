SPECIFICATION Spec
CONSTANTS
  Pids = {p1, p2}
  Ids = {w1, w2}
  None = None
  Workspaces = {}
  Headless = Headless
  Profiles <- DevVm
  Kinds = {"plain"}
  Pressures = {1, 2}
  HysteresisTicks = 1
  RecentAge = 1
  SoftAge = 1
  HardAge = 1
  MaxObserved = 1
  SweepReaches = {}
  Preempt <- SleepPCs
  Faults = {}
SYMMETRY Symmetric
INVARIANTS
  OwnershipConsistent
PROPERTIES
  KeepsCustody
