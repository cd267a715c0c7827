SPECIFICATION MCSpec
CONSTANTS
  Orders = {o1, o2, o3}
  NoOrder = NoOrder
  BaseSeq = 100
  MaxSeq = 104
  MaxWriteFaults = 1
  NChannels = 2
  MaxChannelSeq = 102
INVARIANTS
  LedgersWhole
  HeldByOne
PROPERTIES
  BurnedForever
  ImplementsSpace
  OneChannel
SYMMETRY OrderSymmetry
CHECK_DEADLOCK FALSE
