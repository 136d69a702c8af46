SPECIFICATION Spec
CONSTANTS
  MaxWrites = 3
  Broken = {2}
  Capacity = 1
  MaxBreaks = 1
  Requests = {q1}
  Keys = {"a", "b"}
  Rpm <- MCRpm
  Budget = 1
  NoKey = "none"
INVARIANT StoresInv
PROPERTIES AdmittedAsConfigured LastWriteInForce
