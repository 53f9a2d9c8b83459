SPECIFICATION Spec
CONSTANTS
  selA = selA
  selB = selB
  write = write
  odd = odd
  refused = refused
  s1 = s1
  Unnamed = Unnamed
  NoQuery = NoQuery
  StmtNames = {Unnamed}
  PortalNames = {Unnamed}
  Queries = {selA, write, refused}
  Unparsable = {}
  Rejected = {refused}
  RowQueries = {selA}
  Traffic = {"Parse", "Bind", "DescribeS", "DescribeP", "Execute", "Sync", "Query", "CloseP", "Gone"}
  SimpleTexts <- TwoTexts
  MaxMsgs = 5
  Disciplined = FALSE
  QueryInBatch = FALSE
INVARIANTS TypeOK RowsReachTheirPortal DescribesReachTheirStatement DrainedWhenIdle RefusedSQLStaysHere
CHECK_DEADLOCK FALSE
