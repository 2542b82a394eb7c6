SPECIFICATION WindowsSpec
CONSTANTS
  Names <- AllNames
  Paths = {"plugins", "own"}
  plugins_path = "plugins"
  SystemPath = "system"
  Libraries <- Files
  builtin <- Builtin
  modules_in <- ModulesIn
  prerequisites_names <- Prerequisites
  main_module <- MainModule
  ViewerModules <- Viewers
  window_name = "lttvwindow"
  default_viewers = {"guievents"}
  MaxLoads = 1
  MaxLibraries = 4
  MaxRequired = 3
  MaxCount = 2
  MaxPaths = 2
  MaxViewers = 1
  MaxWindows = 2
INVARIANTS UsesCounted NothingDangles MenusFollowModules
PROPERTIES EveryCallReturns
CHECK_DEADLOCK FALSE
