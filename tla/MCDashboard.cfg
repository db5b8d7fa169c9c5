SPECIFICATION MCSpec
CONSTANTS
  Addrs = {a1, a2}
  Handlers = {h1, h2}
  BanAfterFailures = 2
  FirstBan = 2
  MaxBan = 3
  StaleAfter = 1
  SessionTTL = 2
  ClockLag = 1
  MaxFailedSaves = 1
  MaxNow = 3
  MaxStrikes = 3
  MaxEpoch = 1
  MaxSecrets = 2
  MaxCookies = 1
  States = {s1, s2, s3}
  Finishers = {f1, f2}
  MaxLoginFlows = 2
  LoginFlowTTL = 1
  MaxClock = 2
  MaxBoots = 1
  a1 = a1
  a2 = a2
  h1 = h1
  h2 = h2
  s1 = s1
  s2 = s2
  s3 = s3
  f1 = f1
  f2 = f2
  Operators = {o1}
  TokenSet = {t1, t2, t3}
  NoToken = NoToken
  SavesFail = TRUE
  MaxMade = 4
  near = near
  far = far
  x = x
  y = y
  NoCred = NoCred
  Mask = Mask
  Ignored = Ignored
  Unusable = Unusable
  TypedLines <- MCTypedLines
  Pages = {p1}
  MaxSpecs = 2
  WritesFail = TRUE
  Clicks = {k1, k2}
  Credentials = {c1, c2}
  ProbeInterval = 1
  FrameLimit = 1
  ProbeHorizon = 1
  Loads = {l1, l2}
  NoLoad = NoLoad
  Lenders = {b1, b2, b3}
  CatalogueTTL = 1
  FetchTimeout = 1
  CatalogueAttempts = 2
  Horizon = 3
  Posts = {q1, q2}
  NoPost = NoPost
  Capacity = 2
  PageSize = 3
  MaxAttempts = 2
  MaxLines = 1
SYMMETRY MCSymmetry
INVARIANTS
  SessionsFollowLogout ExchangedOnce
  AckedIsDurable GoneStaysGone
  FileFollowsRoutes
  LogTells
PROPERTIES
  HistoryKept PendingKept
  SignOutKeeps
  PasswordsStayHome
  TestsAreFair CatalogueShared
CHECK_DEADLOCK FALSE
