SPECIFICATION SSpec
CONSTANTS
  Streams = {s1}
  Unary = {}
  Routes <- MCRoutes
  MaxConcurrent = 1
  MaxStreamAttempts = 2
  MaxAttemptsWithRoutes = 3
  Budgets = {1, 2}
  CoolEgress = 1
  MaxNow = 1
  s1 = s1
INVARIANT SpentOnce
CHECK_DEADLOCK FALSE
