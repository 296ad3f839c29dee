CONSTANTS
  None = None
  Node = {0, 1, 2}
  Task = {1, 2}
  Seed = 1
  MaxEvents = 13
  Kinds = {"Create", "Claim", "Complete"}
  Wiring = {"manual", "auto"}
  RngSeeds = {{0}}
  MaxMessages = 9
  LastSeed = 10
SPECIFICATION ProgramSpec
INVARIANTS MatchesRecorded ConvergenceLasts EndsSettled
PROPERTIES CutOffGetsNothing ProgramEnds
CHECK_DEADLOCK FALSE
