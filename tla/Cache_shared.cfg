SPECIFICATION CacheSpec
CONSTANTS
  Callers = {q1, q2}
  Hashes = {1, 2, 3}
  Bodies = {"a", "b", "c", "d"}
  HashOf <- MCHashOf
  MaxEntries = 2
  Ttl = 1
  Override = 0
  Window = 1
  NoBody = "none"
SYMMETRY Symmetry
INVARIANT QueueInv
PROPERTIES HitsMatch LiveEntriesKept
