CONSTANTS
  Dictionary <- ServiceDictionary
  Members <- MCMembers
  MaxHeader = 6
  MaxOptions = 2
  MaxBody = 7
SPECIFICATION Spec
INVARIANTS SameRecord
CHECK_DEADLOCK FALSE
