SPECIFICATION Spec
CONSTANTS
  Impls = {i1, i2, i3, i4}
  Services = {s1, s2}
  Natives = {n1, n2, n3}
  Null = null
  CrossMove = FALSE
SYMMETRY Symmetry
CHECK_DEADLOCK FALSE
INVARIANTS ListsAreExact OneHolder StateFollowsHandle
