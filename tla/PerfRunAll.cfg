SPECIFICATION Spec
CONSTANTS
  NumRuns = 3
  Scenario <- MCTwoOfThree
  HighRisk <- MCSecond
  Quota = 2
  Losses = {2}
  Sweeping = {1, 2}
CHECK_DEADLOCK FALSE
INVARIANTS
  Mutex
  QuotaExact
  LoadApproved
  DecisionKept
PROPERTIES
  KeepsContract
