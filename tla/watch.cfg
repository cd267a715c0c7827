SPECIFICATION FairSpec
CONSTANTS
  Orders = {o1}
  NoOrder = NoOrder
  MaxLedgers = 3
  MaxFaults = 2
  PageSize = 2
  Margin = 1
  Grace = 1
  AuditGrace = 1
  StallAfter = 1
  AlarmAfter = 2
  Deployments <- MCDeployments
INVARIANTS
  RogueNeverOurs
  NoTheftPassed
  ClosedTrue
  NoFalseDivergence
PROPERTIES
  RoguePaged
  AuditConverges
  DriftCovers
CHECK_DEADLOCK FALSE
