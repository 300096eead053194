SPECIFICATION Spec
CONSTANTS
  c1 = c1
  c2 = c2
  c3 = c3
  Calls <- ThreeCalls
  Roots <- FourRoots
  Below <- Inner
  Exts <- TwoExts
  Folders <- AllButUsb
  Places <- FivePlaces
  ScanBudget = 2
  Typed <- Names
  Walked <- Docs
  Chosen <- Llm
  Earlier <- Before
  Scenarios <- Scenes
  Ports <- FourPorts
  Face <- Shows
SYMMETRY Sym
INVARIANTS TypeOK RootsDisjoint DefaultsCovered SettledAsSaved AutoConnectedUsable UsageFresh VersionTellsLayout
PROPERTIES SavesKeepOthers SweptOnlyIfGone
CHECK_DEADLOCK FALSE
