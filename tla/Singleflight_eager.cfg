SPECIFICATION Spec
CONSTANTS
  Requests = {r1, r2, r3, r4}
  Keys = {k1, k2}
  Outcomes = {v1, v2}
  Empty = Empty
  Closed = Closed
  None = None
  Preempt = {}
PROPERTY ImplementsSharedCall
