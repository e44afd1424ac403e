SPECIFICATION VMSpec
CONSTANTS
  MaxNumber = 5
  Labels <- MCLabels
  Tables <- MCTables
  Keys <- MCKeys
  Values <- MCValues
  HasMatcher = TRUE
  FallThrough = FALSE
  Lines <- JumpLines
  MaxLines = 5
INVARIANTS
  TypeOK
  NumbersIncrease
  JumpsForward
  UnresolvedReported
  ForwardOnly
PROPERTIES
  LinkedOnce
  ImplementsRuleset
CHECK_DEADLOCK FALSE
