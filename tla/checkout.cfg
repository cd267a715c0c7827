SPECIFICATION FairSpec
CONSTANTS
  Orders = {o1, o2}
  NoOrder = NoOrder
  MaxSlips = 1
  Shoppers <- MCShoppers
  MaxHandles = 2
  MaxReplies = 2
  PendingPolls = 1
  ConfirmPolls = 1
  MaxIntents = 2
  MaxMishaps = 1
INVARIANTS
  StorefrontIsRight
  OneTransfer
  CreditsCoverPayouts
  OneOpenTransfer
PROPERTY
  CompletedIsPlaced
CHECK_DEADLOCK FALSE
