SPECIFICATION Spec
CONSTANTS
  Accounts = {alice, bob}
  Pool = Pool
  TxIds = {t1, t2}
  Amounts = {0, 1, 2}
  MaxFunding = 2
INVARIANTS
  PaidOnce
  RefundSignalSound
  PoolConserved
SYMMETRY AccountSymmetry
