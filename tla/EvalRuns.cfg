CONSTANTS
  a = a
  b = b
  hand = hand
  a1 = a1
  b1 = b1
  h1 = h1
  Run = {a, b, hand}
  Batch = {a, b}
  First = a
  Container = {a1, b1, h1}
  Of <- MCOf
  MaxParallel = 1
  Flaky = {a1, h1}
  Quits = TRUE
SPECIFICATION EvalFairSpec
INVARIANTS EvalTypeOK BatchBound
PROPERTIES KeepsRunning LaunchesEnd
CHECK_DEADLOCK FALSE
