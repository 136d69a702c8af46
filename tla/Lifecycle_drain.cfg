SPECIFICATION FairSpec
CONSTANTS
  Drainables = {d1, d2}
  Conns = {c1}
  Window = 1
  Deadline = 2
  MaxSignals = 2
  Sessions = {s1}
INVARIANTS ResultInv TokenOnlyBySignal
PROPERTIES PhaseForward DrainEndsInTime SessionsEnd
CHECK_DEADLOCK FALSE
