SPECIFICATION Spec
CONSTANTS
  Requests = {q1, q2, q3}
  Keys = {k1, k2}
  Args = {a1, a2}
SYMMETRY MCSymmetry
CHECK_DEADLOCK FALSE
INVARIANTS
  OncePerKey
  LockedSerial
  RetryAnsweredLocked
  LostByRaceOnly
