SPECIFICATION FairSpec
CONSTANTS
  Runs = {r1}
  Keys = {k1}
  Bodies = {b1}
  Starters = {s1}
  Cancellers = {c1, c2}
  NumCases = 3
  Kind <- MCKindMixed
  MinPassRate = 50
  None = None
CHECK_DEADLOCK FALSE
INVARIANTS
  TypeOK
  NoFalseGreen
  CancelWins
  GateOnVerdict
  NothingAbandoned
PROPERTIES
  KeepsContract
  EvidenceFrozen
  CancelActsOnWhatItRead
  EventuallyDecided
  StopConfirmed
