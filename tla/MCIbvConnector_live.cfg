SPECIFICATION FairSpec
CONSTANTS
  Threads = {t1}
  ConnOps = {c1}
  Watchers = {w1}
  MaxExtra = 0
  MaxFault = 1
CHECK_DEADLOCK FALSE
PROPERTIES ClosedOpCompletes WatcherNotified
