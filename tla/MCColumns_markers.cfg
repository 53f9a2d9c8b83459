SPECIFICATION Spec
CONSTANTS
  ana = ana
  Ana = Ana
  bob = bob
  Texts <- MCTexts
  Lower <- MCLower
  r1 = r1
  r2 = r2
  p1 = p1
  p2 = p2
  Cols = {"EMAIL"}
  Rows = {r1}
  Replicas = {p1}
  Inputs <- Awkward
  Legacy <- OldTexts
  DEKSetFile = {p1}
  BlindIndexed = TRUE
  Versions = {1, 2}
  Online = FALSE
  Faults = {}
  MaxKeys = 6
  MaxKEK = 1
  MaxMishaps = 2
PROPERTY
  RewritesOldMarkers
CHECK_DEADLOCK FALSE
