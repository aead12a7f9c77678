SPECIFICATION UploadedRequests
CONSTANTS
  None = None
  Job = {j1}
  Slot = {s1, s2}
  IdemKey = {k1, k2}
  ObjectKey = {o1}
  c1 = c1
  v1 = v1
  Content = {c1}
  Mapping = {m1}
  Version = {v1}
  ContentOf <- SameContent
  VersionOf <- Actuals
INVARIANT AppliesOnce
