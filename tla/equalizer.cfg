SPECIFICATION AudioSpec
CONSTANTS
  PageProfiles = {"Flat", "Bass boost", "Vocal", "Electronic", "Acoustic", "Custom"}
  Widths = {80}
  Levels = {70}
  MaxAudio = 2
INVARIANT ProfileSurvives
CHECK_DEADLOCK FALSE
