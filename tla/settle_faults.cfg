SPECIFICATION Spec
CONSTANTS
  Orders = {o1, o2}
  NoOrder = NoOrder
  BaseSeq = 100
  MaxSeq = 105
  PoolFunds = 2
  MaxDeadRetries = 1
  MaxRevertRetries = 1
  MaxReversalRetries = 0
  MaxFaults = 1
  MaxPauses = 0
  MaxTraps = 1
  MaxDrains = 0
INVARIANTS
  NoRefundAndPayUndisturbed
  BurnedReallyBurned
  EvidenceSound
  NoBrokenFlow
PROPERTIES
  QuarantineHolds
SYMMETRY OrderSymmetry
CHECK_DEADLOCK FALSE
