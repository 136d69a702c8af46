SPECIFICATION FairSpec
CONSTANTS
  Callers = {c1}
  MaxAttempts = 2
  Vetoed = {}
  Probe = probe
  Attempts <- MCAttempts
  Rpm = 1
  MaxInFlight = 2
  MaxRetries = 1
  Unhealthy = 1
  Healthy = 2
  None = None
INVARIANTS CallInv OneEventPerCall CooldownKept
PROPERTIES CallsEnd GateReopens
