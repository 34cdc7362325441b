SPECIFICATION FairSpec
CONSTANTS
  Requests = {q1, q2, q3}
  Keys = {k1, k2}
  Bodies = {b1, b2}
CHECK_DEADLOCK FALSE
INVARIANTS
  DoneOnce
PROPERTIES
  AcceptedEnds
