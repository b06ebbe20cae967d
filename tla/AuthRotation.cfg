SPECIFICATION Spec
CONSTANTS
  t1 = t1
  t2 = t2
  t3 = t3
  r1 = r1
  r2 = r2
  r3 = r3
  r4 = r4
  None = None
  Users <- MCUsers
  Tokens <- MCTokens
  Requests <- MCThree
  Ops = {"login", "refresh"}
SYMMETRY MCSymmetry3
INVARIANT RotatedOnce
CHECK_DEADLOCK FALSE
