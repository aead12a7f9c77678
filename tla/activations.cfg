SPECIFICATION Spec
CONSTANTS
  None = None
  BudgetVersion = {b1, b2}
  Name = {n1, n2}
  y1 = y1
  Year = {y1}
  YearOf <- SameYear
  Slot = {s1, s2}
  IdemKey = {k1, k2}
  MaxVersion = 1
SYMMETRY Interchangeable
INVARIANTS OneActivePerYear NamesUnique
PROPERTIES ActiveLossNeedsStaleCopy
