SPECIFICATION MCFairSpec
CONSTANTS
  a = a
  p = p
  q = q
  x = x
  y = y
  Bytes <- MCBytes
  Names <- MCNames
  Stops <- MCStops
  Continuations <- MCContinuations
  Frames <- MCFrames
  Prompt <- MCPrompt
  MaxFrames = 3
  Clients = {c1, c2}
  MaxLaunches = 3
  Words <- MCWords
  Pictures <- MCPictures
  Says <- MCSays
  Results <- MCResults
  Replies <- MCReplies
  MaxRounds = 3
INVARIANTS PathsAgree TextIsClean EndsAreTold TrustKept HistoryReachesBackend
PROPERTIES AnswersEnd SignalsHeeded
CHECK_DEADLOCK FALSE
