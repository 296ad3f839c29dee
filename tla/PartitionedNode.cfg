CONSTANTS
  None = None
  Node = {0, 1}
  Task = {t1}
  Seed = 1
  MaxEvents = 3
  Kinds = {"Claim"}
  Wiring = {"auto"}
SPECIFICATION Spec
PROPERTIES PartitionedExcluded
