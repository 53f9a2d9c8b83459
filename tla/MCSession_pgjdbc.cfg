SPECIFICATION Spec
CONSTANTS
  selA = selA
  selB = selB
  write = write
  odd = odd
  refused = refused
  s1 = s1
  Unnamed = Unnamed
  NoQuery = NoQuery
  StmtNames = {Unnamed, s1}
  PortalNames = {Unnamed}
  Queries = {selA, selB, odd}
  Unparsable = {odd}
  Rejected = {}
  RowQueries = {selA, selB, odd}
  Traffic = {"Parse", "Bind", "DescribeS", "Execute", "Sync", "Query", "CloseS"}
  SimpleTexts <- SelectTexts
  MaxMsgs = 5
  Disciplined = TRUE
  QueryInBatch = FALSE
SYMMETRY SelectSymmetry
INVARIANTS RowsUseTheirOwnPlan DescribedRowsHaveAPlan BindsUseTheBackendsStatement
CHECK_DEADLOCK FALSE
