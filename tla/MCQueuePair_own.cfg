SPECIFICATION Spec
CONSTANTS
  Qps = {q1, q2}
  Conns = {c1, c2}
  Ops = {o1, o2}
  Natives = {n1, n2, n3}
  None = none
SYMMETRY Symmetry
CHECK_DEADLOCK FALSE
INVARIANTS OneOwner PendingHasItsQp
PROPERTIES HandlerGetsReadyQp
