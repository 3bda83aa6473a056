SPECIFICATION Spec
CONSTANTS
  CharSize = {2, 4}
  MaxLen = 5
INVARIANTS RangeSelectsToken PositionRoundsDown
CHECK_DEADLOCK FALSE
