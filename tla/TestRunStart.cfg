SPECIFICATION Spec
CONSTANTS
  Runs = {r1, r2}
  Keys = {k1, k2}
  Bodies = {b1, b2}
  Starters = {s1, s2}
  Cancellers = {}
  NumCases = 1
  Kind <- MCKindOther
  MinPassRate = 100
  None = None
CHECK_DEADLOCK FALSE
INVARIANTS
  StartOnce
SYMMETRY MCSymmetry
