CONSTANTS
  Width = 2
  Targets = {1}
  Resolutions <- MCNames
  MaxAlternatives = 3
  MaxMatches = 4
SPECIFICATION Spec
INVARIANTS MatchIsMeaning
CHECK_DEADLOCK FALSE
