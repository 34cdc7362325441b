SPECIFICATION FairSpec
CONSTANTS
  Runs = {r1}
  Keys = {k1}
  Bodies = {b1}
  Starters = {s1}
  Cancellers = {c1}
  NumCases = 1
  Kind <- MCKindApi
  MinPassRate = 100
  None = None
CHECK_DEADLOCK FALSE
PROPERTIES
  CancelTakesEffect
