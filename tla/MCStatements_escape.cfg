SPECIFICATION Spec
CONSTANTS
  Texts <- MCTexts
  Lower <- MCLower
  Columns <- MCColumns
  MaxRows = 2
  Parameterised <- MCEscaped
  Literals <- MCLiterals
  FieldSets = {"email-only", "email-only-blind-index"}
INVARIANT LikeWithoutWildcardsMatches
CHECK_DEADLOCK FALSE
