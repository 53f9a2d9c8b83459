SPECIFICATION Spec
CONSTANTS
  Texts <- MCTexts
  Lower <- MCLower
  Columns <- MCColumns
  MaxRows = 2
  Parameterised <- MCLowered
  Literals <- MCLiterals
  FieldSets = {"email-only"}
INVARIANT LikeWithoutWildcardsMatches
CHECK_DEADLOCK FALSE
