SPECIFICATION Spec
CONSTANTS
  Settings <- MCSettings
  Clients <- MCClients
  Backends <- MCBackends
  MaxConns = 2
INVARIANT SSLRequestIsUpgraded
CHECK_DEADLOCK FALSE
