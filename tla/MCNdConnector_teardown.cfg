SPECIFICATION FairSpec
CONSTANTS
  Threads = {t1, t2}
  ConnOps = {c1, c2}
  Watchers = {w1}
CHECK_DEADLOCK FALSE
INVARIANTS OneDisconnect AbortedWatcherWasCancelled
PROPERTIES ClosedOpCompletes WatcherNotified
