SPECIFICATION Spec
CONSTANTS
  p1 = p1
  p2 = p2
  p3 = p3
  Procs = {p1, p2, p3}
  Nobody = Nobody
  Leases = {4, 5}
  RenewSkew = 2
  Timeout = 1
  Faults = {}
  MaxNow = 9
  MaxTokens = 5
INVARIANTS HealthyCallsSucceed
SYMMETRY ProcSymmetry
