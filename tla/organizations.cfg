SPECIFICATION Spec
CHECK_DEADLOCK FALSE
CONSTANTS
  None = None
  Organization = {o1, o2}
  User = {u1, u2}
  Operator = {u2}
  DisabledUser = {}
  Slug = {g1}
  Slot = {s1, s2}
  MaxVersion = 2
SYMMETRY Interchangeable
PROPERTIES AdminLossNeedsOverlap ChangedByAdminOnEntry OrganizationVersionCounts
