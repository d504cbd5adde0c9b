SPECIFICATION Spec
CONSTANTS
  Bases = {"web", "api", "odd", "node", "go", "nginx", "pg", "pgsql", "db"}
  MaxReplicas = 2
  Images = {"nginx", "node", "go", "pg"}
  KindOf <- MCKindOf
  Resolved <- MCResolved
  Contains <- MCContains
  Drafts <- MCDrafts
  AnySpecs <- MCAnySpecs
  Configs <- MCConfigs
INVARIANTS
  PlannedIsSound
  AnswersStand
  GuardIsExact
PROPERTY RunEnds
CHECK_DEADLOCK FALSE
