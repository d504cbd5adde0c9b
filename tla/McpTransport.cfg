SPECIFICATION FairSpec
CONSTANTS
  Callers = {c1, c2}
  Owner = gateway
  MaxSpawns = 2
  MaxCalls = 3
INVARIANTS
  AnswerMatches
  NothingLeftOpen
PROPERTIES
  EveryCallSettles
CHECK_DEADLOCK FALSE
