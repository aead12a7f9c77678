SPECIFICATION Spec
CONSTANTS
  None = None
  Slot = {s1, s2, s3}
  Sequence = {q1, q2}
  MaxSaves = 4
SYMMETRY Interchangeable
PROPERTIES MixNeedsUnseenSave ArchivedReopensOnlyStale
