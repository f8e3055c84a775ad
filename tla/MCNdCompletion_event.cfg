SPECIFICATION FairSpec
CONSTANTS
  Ops = {o1, o2}
  QPs = {q1, q2}
  Batch = 1
  MaxBatches = 2
  Size = 1
  Latched = TRUE
  MaxThrow = 1
  MaxNotifyFail = 1
CHECK_DEADLOCK FALSE
INVARIANTS ReapedInOrder
PROPERTIES PostedCompletes
