SPECIFICATION TabsSpec
CONSTANTS
  Pages = {"a"}
  LookAlikes = {}
  MaxTabs = 3
  MaxLoads = 3
INVARIANT SelectedIsShown
CHECK_DEADLOCK FALSE
