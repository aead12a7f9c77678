SPECIFICATION Spec
CONSTANTS
  None = None
  BudgetVersion = {b1}
  Name = {n1, n2}
  y1 = y1
  Year = {y1}
  YearOf <- SameYear
  Slot = {s1, s2}
  IdemKey = {k1, k2}
  MaxVersion = 3
SYMMETRY Interchangeable
PROPERTIES StrayActivationNeedsStaleCopy ReopeningNeedsStaleCopy MiscountNeedsStaleCopy
