SPECIFICATION FairSpec
CONSTANTS
  Runs = {r1}
  Cancellers = {c1, c2}
  NumCases = 3
  NumSteps = 2
  MaxSteps = 6
  MaxDenies = 3
  None = None
CHECK_DEADLOCK FALSE
INVARIANTS
  TrajectoryTells
PROPERTIES
  KeepsContract
  RunEnds
