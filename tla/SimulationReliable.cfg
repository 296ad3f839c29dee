CONSTANTS
  None = None
  Node = {0, 1, 2}
  Task = {t1, t2}
  Seed = 1
  MaxEvents = 3
  Kinds = {"Claim", "Complete"}
  Wiring = {"auto"}
SPECIFICATION ReliableSpec
INVARIANTS LockStep SettledIsComplete AutoNeverMissesParent ClaimedTaskHasOwner
PROPERTIES EventuallyEverywhere
