SPECIFICATION Spec
CONSTANTS
  Width = 2
  Targets = {1, 2}
  MaxOptions = 4
INVARIANTS
  TypeOK
  VerdictIsMeaning
  TargetIsLastLookup
CHECK_DEADLOCK FALSE
