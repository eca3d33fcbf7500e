CONSTANTS
  Size = 4
  Extra = 4
  Widths = {1, 3}
  Counts = {1, 2, 5, 9}
  Limits = {6, 11}
  NoLimit = NoLimit
  MaxBytes = 16
SPECIFICATION Spec
CHECK_DEADLOCK FALSE
INVARIANTS
  OutputInOrder
  PositionIsHonest
  PointersStayInside
PROPERTIES
  LimitKept
  ImplementsStream
