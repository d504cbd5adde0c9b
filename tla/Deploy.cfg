SPECIFICATION FairSpec
CONSTANTS
  Desired = {"db", "app"}
  Stale = {"old"}
  Networks = {"net"}
  Volumes = {"vol"}
  Images = {"image"}
  Rank <- MCRank
  DependsOn <- MCDependsOn
  MaxPullAttempts = 2
  MaxFaults = 2
  MaxOutside = 1
INVARIANTS
  PreExistingUntouched
  ContainersReported
  ObjectsReported
  CleanedIsGone
  SuccessMeansUp
  DependencyOrder
PROPERTIES
  AttemptEnds
  SagaSpec
CHECK_DEADLOCK FALSE
