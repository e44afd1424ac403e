SPECIFICATION MCSpec
CONSTANTS
  MaxNumber = 5
  Labels <- MCLabels
  Tables <- MCTables
  Keys <- MCKeys
  Values <- MCValues
  HasMatcher = TRUE
  FallThrough = TRUE
  Lines <- AllLines
  MaxLines = 5
INVARIANTS
  OwnTokens
  EntriesFollowScript
PROPERTIES
  ImplementsRuleset
  CheckEnds
CHECK_DEADLOCK FALSE
