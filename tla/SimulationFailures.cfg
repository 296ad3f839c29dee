CONSTANTS
  None = None
  Node = {0, 1}
  Task = {t1, t2}
  Seed = 1
  MaxEvents = 3
  Kinds = {"Claim"}
  Wiring = {"manual"}
SPECIFICATION Spec
SYMMETRY TaskSymmetry
INVARIANTS TypeOK EventIdsUnique ConflictsFlagged NoConflictImagined AuthorKeepsOwn ClaimedTaskHasOwner AutoDependsOnAllKnown
PROPERTIES LostOnlyByCutOffAuthor ConflictsStay OwnerChangesForCause
