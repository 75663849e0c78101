SPECIFICATION LivenessSpec
CONSTANTS
  Pids = {p1, p2}
  Ids = {w1, w2}
  None = None
  Workspaces = {ws1}
  Headless = Headless
  Profiles <- DevBrowser
  Kinds = {"plain"}
  Pressures = {0, 2, 3}
  HysteresisTicks = 1
  RecentAge = 1
  SoftAge = 1
  HardAge = 1
  MaxObserved = 1
  SweepReaches = {}
  Preempt <- AllPCs
  Faults = {"recycle"}
PROPERTIES
  VisibleRuns
