SPECIFICATION Spec
CONSTANTS
  ana = ana
  Ana = Ana
  bob = bob
  Texts <- MCTexts
  Lower <- MCLower
  r1 = r1
  r2 = r2
  p1 = p1
  p2 = p2
  Cols = {"EMAIL", "SECRET", "VALUE"}
  Rows = {r1}
  Replicas = {p1}
  Inputs <- Awkward
  Legacy <- OldTexts
  DEKSetFile = {p1}
  BlindIndexed = TRUE
  Versions = {1}
  Online = FALSE
  Faults = {"crash", "short", "leak"}
  MaxKeys = 3
  MaxKEK = 1
  MaxMishaps = 1
INVARIANTS
  TypeOK
  ReadsReturnWhatWasWritten
  NeverDoubleEncrypted
  SearchMatchesExactly
  EncryptRowsIsComplete
PROPERTIES
  BackfillSkipsEncrypted
  FixedColumnsGetEncrypted
CHECK_DEADLOCK FALSE
