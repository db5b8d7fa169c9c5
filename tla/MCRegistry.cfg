SPECIFICATION MCFairSpec
CONSTANTS
  a1 = a1
  a2 = a2
  a3 = a3
  f1 = f1
  f2 = f2
  Accounts <- MCAccounts
  Token <- MCOwnToken
  InitialAccounts <- MCInitial
  Requests = {r1}
  Fetchers = {f1}
  CoolRateLimited = 1
  CoolRejected = 2
  MaxQuotaCool = 3
  ResetDelays = {2}
  QuotaAware = TRUE
  NoAccount = NoAccount
  ClockLag = 0
  MaxNow = 0
PROPERTIES BusyIsReleased ImplementsRegistry FairTurns
CHECK_DEADLOCK FALSE
