SPECIFICATION Spec
CONSTANTS
  Settings <- MCSettings
  Clients <- MCClients
  Backends <- MCBackends
  MaxConns = 2
INVARIANTS TypeOK RelayIsAuthenticated BackendLegIsTLS AcceptedSettingsStart
PROPERTY FaithfulPeersAreRelayed
CHECK_DEADLOCK FALSE
