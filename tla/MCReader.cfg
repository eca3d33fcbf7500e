CONSTANTS
  Size = 4
  Extra = 2
  Before = 2
  PageSize = 2
  Totals = {0, 3, 8, 11}
  NoLimit = NoLimit
  OldBlocks <- NearbyBlocks
  Clients <- AllClients
SPECIFICATION FairSpec
CHECK_DEADLOCK FALSE
INVARIANTS
  ReadInOrder
  WindowIsTrue
  PositionIsHonest
  FillsInside
PROPERTIES
  LimitKept
  ImplementsStream
  CallsReturn
