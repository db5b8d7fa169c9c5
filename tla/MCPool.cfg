SPECIFICATION MCSpec
CONSTANTS
  a1 = a1
  a2 = a2
  a3 = a3
  Accounts <- MCAccounts
  Token <- MCToken
  InitialAccounts <- MCInitial
  Requests = {r1}
  Fetchers <- MCFetchers
  f1 = f1
  f2 = f2
  CoolRateLimited = 1
  CoolRejected = 2
  MaxQuotaCool = 3
  ResetDelays = {2}
  QuotaAware = TRUE
  ClockLag = 1
  MaxNow = 2
  o1 = o1
  o2 = o2
  Operators <- MCOperators
  TokenSet = {t1, t2}
  NoToken = NoToken
  SavesFail = TRUE
  MaxMade = 2
SYMMETRY MCSymmetry
INVARIANTS SlotsAligned IdentitiesMatch HeldIsCooling BusyIsFetching
  StoreFollowsUnlessOvertaken
PROPERTIES CooldownCutShort WorkingAccountsServe
CHECK_DEADLOCK FALSE
