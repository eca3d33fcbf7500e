CONSTANTS
  Size = 3
  Extra = 3
  Widths = {2}
  Counts = {1, 2, 7}
  Limits = {6}
  NoLimit = NoLimit
  MaxBytes = 9
  Positions = {0, 1, 2, 3, 4, 5}
  PatchSizes = {1, 2}
  PageSize = 3
  OldBlocks <- NearbyBlocks
SPECIFICATION PatchSpec
CHECK_DEADLOCK FALSE
INVARIANTS
  OnlyPatchesChange
