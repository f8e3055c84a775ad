SPECIFICATION FairSpec
CONSTANTS
  Ops = {o1, o2}
  QPs = {q1, q2}
  Batch = 1
  MaxBatches = 2
  Size = 1
  MaxThrow = 1
  MaxNotifyFail = 1
  MaxPollFail = 1
CHECK_DEADLOCK FALSE
INVARIANTS ReapedInOrder WaitingIsWoken
PROPERTIES PostedCompletes
