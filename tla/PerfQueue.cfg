SPECIFICATION FairSpec
CONSTANTS
  NumRuns = 2
  Scenario <- MCPair
  HighRisk <- MCNone
  Quota = 1
  Losses = {}
  Sweeping = {}
CHECK_DEADLOCK FALSE
PROPERTIES
  QueueDrains
