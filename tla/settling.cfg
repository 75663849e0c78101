SPECIFICATION SettlingSpec
CONSTANTS
  Machines = {{"wifi", "bluetooth"}}
  SSIDs = {"a"}
  Scans <- NoScan
  MaxInFlight = 2
  Volumes = {50, 200}
  MaxTaps = 2
  Tracks <- Songs
  MaxMedia = 2
  Glasses = {35, 50}
  MaxTouches = 2
  Profiles = {"balanced", "performance"}
  MaxChanges = 2
  InReach = {"a"}
  MaxAsks = 2
  Clients = {"c", "d"}
  MaxTicks = 2
  PageProfiles = {"Flat", "Bass boost", "Vocal"}
  Widths = {80, 30}
  Levels = {57, 70}
  MaxAudio = 2
  CoreSets <- Cores
  SensorSets <- Boards
  Memories <- Loads
  MaxShifts = 3
  Frames = {"f", "g"}
  Desks = {1, 2}
  MaxDeskMoves = 3
INVARIANT AudioSurvives
PROPERTIES
  RadiosConverge
  SessionConverges
  PopupFades
  TrackConverges
  ThemeConverges
  SettingsTakeHold
  NetworkShown
  SnapshotsAdvance
  ServerAnswers
  HeardIsShown
  ViewsConverge
CHECK_DEADLOCK FALSE
