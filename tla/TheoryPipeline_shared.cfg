SPECIFICATION Spec
CONSTANTS
  Chunks = {a, b, d, e, wide}
  a = a
  b = b
  d = d
  e = e
  wide = wide
  Theories = {T1, T2}
  T1 = T1
  T2 = T2
  None = None
  Clean = Clean
  Fresh = Fresh
  TheoryOf <- MCTheoryOf
  Size <- MCSize
  Specialized = {T1}
  Rejected = {b, e}
  Workloads <- MCShared
  MaxCalls = 3
INVARIANTS
  DeliveredInOrder
CHECK_DEADLOCK FALSE
