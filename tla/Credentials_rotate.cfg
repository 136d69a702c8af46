SPECIFICATION FairSpec
CONSTANTS
  Requests = {r1, r2}
  m1 = m1
  m2 = m2
  Models = {m1, m2}
  N = 2
  MaxCooldown = 2
  Allowed <- MCAllowed
  RetryAfter = {0, 2}
  MaxAttempts = 2
  None = None
INVARIANT PoolInv
PROPERTIES EarlyOnlyByOlderTimer CredentialsRecover
