SPECIFICATION Spec
CONSTANTS
  Streams = {s1, s2}
  Unary = {u1}
  Routes <- MCRoutes
  MaxConcurrent = 2
  MaxStreamAttempts = 1
  MaxAttemptsWithRoutes = 3
  Budgets = {1, 2}
  CoolEgress = 1
  MaxNow = 1
  s1 = s1
  s2 = s2
  u1 = u1
CONSTRAINT TwoAtATime
SYMMETRY StreamSymmetry
INVARIANTS SlotsAccounted GivesUpInformed
PROPERTY RoutesJudgedFairly
CHECK_DEADLOCK FALSE
