SPECIFICATION Spec
CONSTANTS
  p1 = p1
  p2 = p2
  p3 = p3
  Procs = {p1, p2}
  Nobody = Nobody
  Leases = {2}
  RenewSkew = 1
  Timeout = 1
  Faults = {"login", "request", "denied", "revoked"}
  MaxNow = 3
  MaxTokens = 2
INVARIANTS TypeOK RetryUsesANewerToken UsableTokenNeverWaits
PROPERTIES CacheLosesOnlyRejected CallsEnd
