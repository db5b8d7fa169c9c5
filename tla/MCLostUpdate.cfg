SPECIFICATION AdminSpec
CONSTANTS
  Operators = {o1, o2}
  TokenSet = {t1, t2}
  NoToken = NoToken
  SavesFail = FALSE
  MaxMade = 2
INVARIANT StoreFollowsPool
CHECK_DEADLOCK FALSE
