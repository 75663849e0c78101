SPECIFICATION OverlaySpec
CONSTANTS
  Overlay = {"power"}
  MaxLaunches = 2
PROPERTY DirectActionHappens
CHECK_DEADLOCK FALSE
