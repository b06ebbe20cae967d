SPECIFICATION Spec
CONSTANTS
  Queries = {"q1", "q2"}
  MaxTokens = 2
  MaxLoads = 1
INVARIANTS Lockstep OncePerToken
PROPERTY RequestsSettle
CHECK_DEADLOCK FALSE
