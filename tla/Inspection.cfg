SPECIFICATION InspectionSpec
CONSTANTS
  Files <- MCFiles
  Dirs <- MCDirs
  DirOf <- MCDirOf
  RoleOf <- MCRoleOf
  Pruned = {}
  Denied = {}
  LinkTo <- MCLinkTo
  FirstNodes <- MCFirstNodes
  DirStates <- MCDirStates
  Replacements <- MCReplacements
  Bodies = {"a", "b"}
  Sizes = {1, 3}
  MaxFileCount = 2
  MaxFileBytes = 2
  MaxTotalBytes = 2
  Live <- MCLive
  MaxEdits = 2
  Callers = {"browser", "diagnosis"}
  None = None
  Unavailable = Unavailable
  Failed = Failed
  Source <- MCSource
  SourceClass <- MCSourceClass
  Says <- MCSays
  Slug <- MCSlug
CHECK_DEADLOCK FALSE
INVARIANTS AbsentWasLookedFor LoadedIsAttributable
PROPERTIES ObservedIsStable EveryInspectionAnswers
