SPECIFICATION FairSpec
CONSTANTS
  Specs = {"one", "two"}
  None = "none"
  Failures = {"f", "g"}
  MaxIterations = 3
  SpecTolerance = 2
  FailureTolerance = 1
  MaxRounds = 1
  MaxOutside = 1
INVARIANTS
  BoundedDeploys
  ReturnedClean
  SavedAtEnd
  RolledBack
PROPERTIES
  Consent
  LoopEnds
CHECK_DEADLOCK FALSE
