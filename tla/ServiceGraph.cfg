SPECIFICATION Spec
CONSTANT
  N = 3
INVARIANTS
  DependenciesFirst
  ThrowsIffCyclic
  CycleIsReal
  InferenceIsSafe
CHECK_DEADLOCK FALSE
