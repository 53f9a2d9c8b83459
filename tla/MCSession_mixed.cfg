SPECIFICATION Spec
CONSTANTS
  selA = selA
  selB = selB
  write = write
  odd = odd
  refused = refused
  s1 = s1
  Unnamed = Unnamed
  NoQuery = NoQuery
  StmtNames = {Unnamed}
  PortalNames = {Unnamed}
  Queries = {selA, write}
  Unparsable = {}
  Rejected = {}
  RowQueries = {selA}
  Traffic = {"Parse", "Bind", "Execute", "Sync", "Query"}
  SimpleTexts <- OneText
  MaxMsgs = 5
  Disciplined = TRUE
  QueryInBatch = TRUE
INVARIANTS RowsReachTheirPortal
CHECK_DEADLOCK FALSE
