SPECIFICATION FairSpec
CONSTANTS
  Ops = {o1, o2}
  Batch = 2
  Size = 1
  MaxDepth = 2
  NestedPoll = FALSE
  MaxThrow = 1
  MaxPollFail = 1
CHECK_DEADLOCK FALSE
INVARIANTS CompletedOnce NothingStranded
PROPERTIES PostedCompletes
