SPECIFICATION Spec
CONSTANTS
  Setups <- MCSetups
  Stamped = {"bybit", "okx"}
  Stats <- MCStats
  Scale = 10
  BpsDenom = 100
  KurusDivisor = 100
  KurusPerTry = 10
  SellPerKurus = 3
  BankLimit = 4
  MarginBps = 1
  MaxAge = 1
  DeviationBps = 5
  MinQuorum = 2
  StatsTtl = 1
  StatsMaxStale = 2
  Patience = 1
  MaxTime = 3
INVARIANTS
  RateTrusted
  StatsBounded
  QuoteBooks
