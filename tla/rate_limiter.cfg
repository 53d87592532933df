CONSTANTS
  w1 = w1  w2 = w2
  Workers = {w1, w2}
  Keys = {"ann", "nobody"}
  Settings <- MCSettings
  Minute = 3
  Patience = 3
  MaxTime = 7
  MaxCalls = 3
  MaxLosses = 1
SPECIFICATION Spec
SYMMETRY WorkersAlike
INVARIANTS TypeOK AtMostTwicePerMinute RetryLandsInNewWindow
CHECK_DEADLOCK FALSE
