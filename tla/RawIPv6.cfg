CONSTANTS
  Uppers = {6, 17, 58, 59}
  Units = {0, 1, 2}
  Offsets = {0, 1, 32}
  Lengths = {6, 39, 40, 41, 42, 47, 48, 50, 52, 56, 58, 64, 72, 200}
  MaxHeaders = 2
  MaxSteps = 3
SPECIFICATION Spec
INVARIANTS TypeOK LayoutIsThePacket BuildersTell
PROPERTIES GoesOn
CHECK_DEADLOCK FALSE
