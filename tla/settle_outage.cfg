SPECIFICATION FairSpec
CONSTANTS
  Orders = {o1}
  NoOrder = NoOrder
  BaseSeq = 100
  MaxSeq = 105
  PoolFunds = 1
  MaxDeadRetries = 1
  MaxRevertRetries = 2
  MaxReversalRetries = 1
  MaxFaults = 1
  MaxPauses = 1
  MaxTraps = 2
  MaxDrains = 1
INVARIANTS
  NeverPayUncharged
  OutcomesTrue
PROPERTIES
  ChargedConverges
CHECK_DEADLOCK FALSE
