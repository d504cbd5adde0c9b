SPECIFICATION Spec
CONSTANTS
  Bases = {"db", "web"}
  MaxOrdinal = 3
  Images = {"pg", "pg:1", "pg:2", "nginx"}
  Alike <- MCAlike
  SameRepository <- MCSameRepository
  Networks = {"net"}
  Volumes = {"data"}
  Mentions <- MCMentions
  InitSpecs <- MCInitSpecs
  InitWorlds <- MCInitWorlds
  MaxEvents = 3
  MaxCalm = 3
PROPERTY SyncKeepsMounts
CHECK_DEADLOCK FALSE
