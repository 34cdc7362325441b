SPECIFICATION Spec
CONSTANTS
  NumDeliveries = 2
  Earlier = "red"
  Losses = TRUE
  Sweeping = TRUE
CHECK_DEADLOCK FALSE
INVARIANTS
  PostedOnce
  
PROPERTIES
  EvidenceWorsens
