CONSTANTS
  None = None
  Node = {0, 1}
  Task = {t1}
  Seed = 1
  MaxEvents = 2
  Kinds = {"Claim"}
  Wiring = {"auto"}
  RngSeeds = {{}, {64}}
  MaxMessages = 4
SPECIFICATION Spec
INVARIANTS TypeOK RngNeverZero Accounted SwapInBounds
PROPERTIES Refinement DeliveryEnds
