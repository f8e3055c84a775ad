SPECIFICATION Spec
CONSTANTS
  InlineCount = 2
  MaxOp = 3
  SizeMod = 8
  NoValue = none
  Addr = 1
  Length = 5
  Requests <- MCRequests
  MaxBufs = 5
  SgeLimits = {0, 2}
  MaxBuilds = 2
  Resizes = {0, 1, 3}
CHECK_DEADLOCK FALSE
INVARIANTS InBounds VerdictIsRight FreshListHoldsBuffers PostedInRegion
