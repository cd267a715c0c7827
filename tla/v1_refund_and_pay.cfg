SPECIFICATION Spec
CONSTANTS
  Orders = {o1}
  NoOrder = NoOrder
  BaseSeq = 100
  MaxSeq = 104
  PoolFunds = 1
  MaxDeadRetries = 1
  MaxRevertRetries = 1
  MaxReversalRetries = 1
  MaxFaults = 1
  MaxPauses = 0
  MaxTraps = 0
  MaxDrains = 0
INVARIANTS
  NoRefundAndPay
CHECK_DEADLOCK FALSE
