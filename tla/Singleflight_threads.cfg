SPECIFICATION FairSpec
CONSTANTS
  Requests = {r1, r2, r3}
  Keys = {k1, k2}
  Outcomes = {v1, v2}
  Empty = Empty
  Closed = Closed
  None = None
  Preempt = {"idle", "upstream", "sent", "follow"}
INVARIANT OneLeader
PROPERTIES FollowerEnds ClosedOnlyByDrop
