CONSTANTS
  None = None
  Id <- MCId
  AnyGraph <- MCAnyGraph
SPECIFICATION Spec
INVARIANTS TypeOK WalkCorrect PrecedesIsReachability
PROPERTIES WalkAdvances Termination
CHECK_DEADLOCK FALSE
