SPECIFICATION Spec
CONSTANTS
  c1 = c1
  c2 = c2
  alien = alien
  l1 = l1
  l2 = l2
  l3 = l3
  Cases = {c1, c2}
  Alien = alien
  Tasks = {t1, t2, t3}
  Groups = {g1, g2}
  Stale = {g1}
  Locators = {l1, l2, l3}
  Replies <- MCReplies
  Current <- MCCurrent
  Heals <- MCHeals
CHECK_DEADLOCK FALSE
INVARIANTS
  Grounded
  HealKeepsPrimary
  DegradedReport
  StuckOnlyByRace
