CONSTANTS
  Dictionary <- MCDictionary
  Members <- MCMembers
  MaxHeader = 6
  MaxOptions = 2
  MaxBody = 7
SPECIFICATION Spec
INVARIANTS TypeOK GrammarFollowsTheText HookWaits HandedOverOnce PortsAreNoOptions OneDynamicState CanonicalAccepted SameRecord
PROPERTIES Advances
CHECK_DEADLOCK FALSE
