CONSTANTS
  MaxRows = 3
  MaxCols = 3
  MaxSize = 5
  Costs = {0, 3, 5}
  HalfLimit = 2
SPECIFICATION LapjvSpec
INVARIANT LapjvInv
PROPERTY Matches
CHECK_DEADLOCK FALSE
