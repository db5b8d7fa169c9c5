SPECIFICATION MCFairSpec
CONSTANTS
  Streams = {s1}
  Unary = {u1}
  Routes <- MCRoutes
  MaxConcurrent = 1
  MaxStreamAttempts = 1
  MaxAttemptsWithRoutes = 3
  Budgets = {1, 2}
  CoolEgress = 1
  MaxNow = 0
  s1 = s1
  u1 = u1
  Schemes = {"socks5", "http", "https", "direct"}
  NameSizes = {0, 2}
  MaxData = 3
  Sizes = {0, 1, 2}
  MaxFrames = 3
  MaxSize = 1
  Radix = 16
  MaxDigits = 2
  LastRoom = 2
  Authored <- MCMessages
  Wide = 2
  Narrow = 1
  MaxNoise = 3
  Period <- MCPeriod
  Full <- MCFull
  CoolRateLimited = 1
  MaxQuotaCool = 3
  LastMoment = 7
INVARIANTS TunnelsStartClean RoutesBlamedFairly FramesHandedOn FieldsSurvive HoldsAreWorthIt
PROPERTY OutboundEnds
CHECK_DEADLOCK FALSE
