SPECIFICATION Spec
CONSTANTS
  s1 = s1
  s2 = s2
  i1 = i1
  i2 = i2
  Streams <- MCStreams
  Ids <- MCIds
  IdChoices <- MCTwoChoices
  AskEnds = {"terminal", "raises", "silent"}
  MaxHeartbeats = 1
  MaxCuts = 2
INVARIANTS CleanClose Fifo FinalEvent OwnRunOnly
PROPERTY EventuallyClosed
CHECK_DEADLOCK FALSE
