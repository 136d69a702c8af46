SPECIFICATION FairSpec
CONSTANTS
  Requests = {r1, r2, r3}
  FailureThreshold = 2
  BaseBackoff = 1
  MaxBackoff = 3
  MaxShift = 2
  None = None
  Preempt = {}
INVARIANTS SlotHasProbe ClosedBelowThreshold
PROPERTIES DocumentedEdges BreakerRecovers
