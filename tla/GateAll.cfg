SPECIFICATION GateSpec
CONSTANTS
  Evaluators = {e1, e2}
  Readers = {r1}
  Policies <- MCPolicies
  Reports <- MCReports
  MaxEdits = 1
  MaxTurns = 2
  None = None
SYMMETRY MCSymmetry
CHECK_DEADLOCK FALSE
INVARIANTS
  OneEvaluation
  PassEarned
  NeverSilent
  ReaderTold
