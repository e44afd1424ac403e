SPECIFICATION Spec
CONSTANTS
  Width = 2
  Targets = {1}
  MaxOptions = 3
INVARIANT
  DropsChangeNoVerdict
CHECK_DEADLOCK FALSE
