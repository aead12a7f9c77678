SPECIFICATION Spec
CHECK_DEADLOCK FALSE
CONSTANTS
  None = None
  Export = {e1, e2, e3}
  Slot = {s1}
  Sweep = {w1, w2}
  S3Prefix <- ExportsPrefix
SYMMETRY Interchangeable
INVARIANTS ReadyHasObject OrphansAreOfFailedPosts
