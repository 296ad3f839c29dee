CONSTANTS
  r1 = r1
  r2 = r2
  r3 = r3
  t1 = t1
  t2 = t2
  i1 = i1
  i2 = i2
  i3 = i3
  i4 = i4
  i5 = i5
  Replica <- MCReplica
  Event <- MCEvent
SPECIFICATION Spec
INVARIANT EdgeCountIsEdges
