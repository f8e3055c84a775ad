SPECIFICATION FairSpec
CONSTANTS
  GetOps = {g1, g2}
  Children = {c1, c2}
  Fills = {k}
  Other = other
  None = none
  MaxOther = 1
  MaxMove = 1
  MaxChan = 1
  MaxFault = 1
CHECK_DEADLOCK FALSE
INVARIANTS OneOwner HandlersAccount
PROPERTIES RequestIsTaken DestroyedOpsComplete
