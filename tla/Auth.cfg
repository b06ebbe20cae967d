SPECIFICATION Spec
CONSTANTS
  t1 = t1
  t2 = t2
  t3 = t3
  r1 = r1
  r2 = r2
  r3 = r3
  r4 = r4
  None = None
  Users <- MCUsers
  Tokens <- MCTokens
  Requests <- MCFour
  Ops = {"register", "login", "refresh", "logout"}
SYMMETRY MCSymmetry4
INVARIANTS RotationSafe SpentIsRefused InactiveGetsNothing SignUpUnique
CHECK_DEADLOCK FALSE
