SPECIFICATION Spec
CONSTANTS
  o1 = o1
  o2 = o2
  Orders = {o1, o2}
  Facts <- MCFacts
  Transfers = {t1}
  Seed = 1
  Rates = {1, 4}
  MaxMints = 2
  MaxCrashes = 1
  MaxLateThrows = 1
INVARIANTS
  MintedOnce
CHECK_DEADLOCK FALSE
