CONSTANTS
  Width = 2
  Targets = {1, 2}
  Resolutions <- MCResolutions
  MaxAlternatives = 2
  MaxMatches = 3
SPECIFICATION Spec
INVARIANTS TypeOK MatchIsMeaning TargetIsLastLookup
CHECK_DEADLOCK FALSE
