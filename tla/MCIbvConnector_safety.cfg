SPECIFICATION Spec
CONSTANTS
  Threads = {t1, t2}
  ConnOps = {c1, c2}
  Watchers = {w1}
  MaxExtra = 1
  MaxFault = 1
SYMMETRY Symmetry
CHECK_DEADLOCK FALSE
INVARIANTS EstablishedAccounted OneTeardown AbortedIsTerminal IndInv NoAbruptDestroy
PROPERTIES MeetsContract ClosedIsTerminal ConnectedLeftByDisconnect
