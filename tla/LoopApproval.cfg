SPECIFICATION Spec
CONSTANTS
  Specs = {"one", "two"}
  None = "none"
  Failures = {"f"}
  MaxIterations = 2
  SpecTolerance = 2
  FailureTolerance = 2
  MaxRounds = 1
  MaxOutside = 0
INVARIANT
  DeployedIsApproved
CHECK_DEADLOCK FALSE
