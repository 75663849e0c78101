SPECIFICATION PartsSpec
CONSTANTS
  Ids = {w1, w2}
  Demands <- AllDemands
  Readings <- Sample
  HysteresisTicks = 1
  SoftAge = 1
  HardAge = 1
  Workspaces = {1, 2, 3}
  Monitors = {m1, m2}
  MaxEvents = 1
INVARIANTS
  PressureCaps
  OneFocus
PROPERTIES
  SettlesToPowersave
  BuildIsBoosted
  SteadyIsCopied
  OnScreenSeen
  HiddenFades
  StopReturns
