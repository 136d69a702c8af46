SPECIFICATION Spec
CONSTANTS
  Requests = {r1, r2, r3}
  FailureThreshold = 1
  BaseBackoff = 1
  MaxBackoff = 2
  MaxShift = 1
  Preempt = {"idle", "called", "backoff", "timer", "half_open", "claim", "inner", "reset", "free", "zero", "judge", "trip", "count", "stamp", "clear"}
  None = None
SYMMETRY Symmetry
INVARIANT OpenIsStamped
PROPERTY OneCountPerTrip
