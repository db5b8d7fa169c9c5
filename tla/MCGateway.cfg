SPECIFICATION FairGatewaySpec
CONSTANTS
  a1 = a1
  a2 = a2
  r1 = r1
  r2 = r2
  Accounts <- MCAccounts
  Token <- MCToken
  InitialAccounts <- MCInitial
  Requests = {r1, r2}
  Fetchers = {}
  CoolRateLimited = 1
  CoolRejected = 2
  MaxQuotaCool = 3
  Failures <- MCFailures
  ResetDelays = {}
  QuotaAware = FALSE
  ClockLag = 0
  MaxNow = 0
INVARIANTS RefusalMeansNobodyReady
PROPERTIES ChatsAreAnswered
CHECK_DEADLOCK FALSE
