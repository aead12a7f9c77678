SPECIFICATION UploadedRequests
CONSTANTS
  None = None
  Job = {j1, j2}
  Slot = {s1, s2}
  IdemKey = {k1, k2}
  ObjectKey = {o1, o2}
  c1 = c1
  v1 = v1
  Content = {c1}
  Mapping = {m1, m2, m3}
  Version = {v1}
  ContentOf <- SameContent
  VersionOf <- Actuals
SYMMETRY Interchangeable
INVARIANTS AppliedHasEntries KeyInsertsOnce KeyRecordsApply LiveFingerprintUnique MutualWaitNeedsStaleCopy
PROPERTIES ImplementsLedger
