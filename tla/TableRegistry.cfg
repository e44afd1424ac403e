CONSTANTS
  Tables = {"t", "u"}
  Interfaces = {"em0", "em1"}
  Values = {1, 2, 3}
  Addresses <- MCAddresses
  Networks <- MCNetworks
  Version <- MCVersion
  HostBits <- MCHostBits
  Holds <- MCHolds
  NoValue = 0
  MaxAdded = 3
SPECIFICATION Spec
INVARIANTS TypeOK GroupsSorted MostSpecificLastAdded InterfaceLastAdded
CHECK_DEADLOCK FALSE
