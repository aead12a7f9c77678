SPECIFICATION Spec
CONSTANTS
  None = None
  a1 = a1
  a2 = a2
  a3 = a3
  d1 = d1
  Account = {a1, a2, a3}
  Flat = {d1, u1}
  UNASSIGNED = u1
  Slot = {s1, s2}
  ACCOUNT_HIERARCHY_MAX_DEPTH = 2
  Rows <- CrossingRows
  Patch <- Patches
  Restated = a1
SYMMETRY Interchangeable
PROPERTIES CycleNeedsStaleWalk MovedWithinDepth StructureByAdmin
