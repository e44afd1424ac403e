CONSTANTS
  PatternBytes <- MCPatternBytes
  NameBytes <- MCNameBytes
  MaxPattern = 5
  MaxName = 3
SPECIFICATION Spec
INVARIANTS TypeOK VerdictIsMeaning
PROPERTIES GetsOn
CHECK_DEADLOCK FALSE
