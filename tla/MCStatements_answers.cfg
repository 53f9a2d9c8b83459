SPECIFICATION Spec
CONSTANTS
  Texts <- MCTexts
  Lower <- MCLower
  Columns <- MCColumns
  MaxRows = 2
  Parameterised <- MCParameterised
  Literals <- MCLiterals
  FieldSets = {"", "disabled", "email-only", "email-only-blind-index"}
INVARIANTS TypeOK TablesAgree SealedAtRest HashFollowsEmail RefusesOnlyLiterals
PROPERTIES AnswersMatch BlindSearchIsExact
CHECK_DEADLOCK FALSE
