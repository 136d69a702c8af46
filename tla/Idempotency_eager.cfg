SPECIFICATION Spec
CONSTANTS
  Requests = {r1, r2, r3}
  Keys = {k1, k2, k3}
  Bodies = {b1, b2}
  TTL = 2
  MaxAge = 2
  MaxEntries = 2
  Preempt = {}
  Absent = Absent
  Pending = Pending
SYMMETRY Symmetry
INVARIANT OneWriter
PROPERTIES CapHolds ImplementsIdempotentCall
