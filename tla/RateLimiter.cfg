SPECIFICATION RateSpec
CONSTANTS
  Keys = {"query", "login"}
  Capacity <- MCCapacity
  Period <- MCPeriod
  Times = {0, 1, 2, 3, 4, 5}
  MaxAllowed = 4
INVARIANTS WindowBound RetryAfterHonest
CHECK_DEADLOCK FALSE
