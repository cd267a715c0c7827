SPECIFICATION FairSpec
CONSTANTS
  Orders = {o1, o2}
  NoOrder = NoOrder
  BaseSeq = 100
  MaxSeq = 104
  PoolFunds = 2
  MaxDeadRetries = 1
  MaxRevertRetries = 1
  MaxReversalRetries = 0
  MaxFaults = 0
  MaxPauses = 0
  MaxTraps = 0
  MaxDrains = 0
PROPERTIES
  ChargedConverges
  PaymentRecorded
CHECK_DEADLOCK FALSE
