SPECIFICATION Spec
CONSTANTS
  c1 = c1
  c2 = c2
  c3 = c3
  Conns = {c1, c2}
  NoConn = NoConn
  MaxConnections = 1
  HandshakeTimeout = TRUE
  Faults = {"start", "accept"}
INVARIANTS
  TypeOK
  CountersExact
PROPERTIES
  ImplementsAdmission
  HandshakesEnd
  PumpsEnd
  SignalEnds
