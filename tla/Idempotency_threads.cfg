SPECIFICATION FairSpec
CONSTANTS
  Requests = {r1, r2}
  Keys = {k1, k2}
  Bodies = {b1, b2}
  TTL = 1
  MaxAge = 2
  MaxEntries = 1
  Preempt = {"idle", "lookup", "room", "sweep", "collect", "evict", "insert", "reread", "inner", "cleanup"}
  Absent = Absent
  Pending = Pending
INVARIANT PlaceholderOwned
PROPERTIES PlaceholderEnds InFlightNotEvicted
