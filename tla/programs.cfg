SPECIFICATION ProgramsSpec
CONSTANTS
  Screens <- OneScreen
  Positions <- Edge
  RawConfigs <- Settings
  Bindings = {"top_left"}
  Windows = {"plain", "fullscreen"}
  Toasts = {"1"}
  Overlay = {"hud", "menu", "spotlight", "power", "drawer"}
  MaxLaunches = 2
  Apps = {"mail", "chat"}
  MaxNotifications = 4
  Pages = {"a", "like", "about:blank"}
  LookAlikes = {"like"}
  MaxTabs = 3
  MaxLoads = 2
  Browsers = {1, 2}
  Sites = {"a"}
  MaxEdits = 3
  Guards = {1, 2}
  MaxMeddling = 2
  Pids = {2, 3, 4}
  Builtin <- SmallMenu
  UserMenus <- OwnMenus
  Themes <- OneTheme
  Phrases <- Typed
  MaxMenuRuns = 1
  Desktops <- SmallIndex
  Actions <- SmallActions
  Queries <- Searched
  Clips <- Copied
  Procs = {2, 3, 4, 5}
  Images <- SmallImages
  Titles <- OneTitle
  MaxChanges = 1
INVARIANTS
  FrameAgrees
  AloneIsReachable
  NewestFirst
  HiddenOnlyAtHome
  ActiveIsListed
  AnswerIsSo
  GroupsConnected
  FamilyTogether
  TopmostFounds
  LaunchersAgree
  
PROPERTIES
  OncePerTouch
CHECK_DEADLOCK FALSE
