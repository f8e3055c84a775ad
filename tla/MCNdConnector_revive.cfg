SPECIFICATION Spec
CONSTANTS
  Threads = {t1}
  ConnOps = {c1}
  Watchers = {w1}
CHECK_DEADLOCK FALSE
PROPERTIES ClosedIsTerminal
