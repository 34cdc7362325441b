SPECIFICATION Spec
CONSTANTS
  Users = {u1, u2, u3}
  NoOne = NoOne
  Targets = {t1}
  MaxApprovals = 2
  CaseIds = {t1}
  MaxCaseEdits = 4
  MaxEdits = 2
  MaxEvents = 2
  MaxRetries = 1
SYMMETRY MCSymmetry
CHECK_DEADLOCK FALSE
INVARIANTS
  EffectsAnswered
  OneGrant
  NoPhantomRelease
PROPERTIES
  ReleaseAbsorbs
