SPECIFICATION FairSpec
CONSTANTS
  Pids = {p1}
  Ids = {w1}
  None = None
  Workspaces = {ws1}
  Headless = Headless
  Profiles <- DevOnly
  Kinds = {"plain"}
  Pressures = {0, 2}
  HysteresisTicks = 1
  RecentAge = 1
  SoftAge = 1
  HardAge = 1
  MaxObserved = 1
  SweepReaches = {}
  Preempt <- SleepPCs
  Faults = {}
PROPERTIES
  HysteresisExpires
