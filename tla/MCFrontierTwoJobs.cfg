CONSTANTS
  j1 = j1  j2 = j2  a = a  b = b  c = c  d = d  d1 = d1  d2 = d2
  NoUrl = NoUrl  NoLimit = NoLimit  NoFrontier = NoFrontier  Untracked = Untracked
  Jobs = {j1, j2}
  Keys = {a, b, c}
  Domains = {d1, d2}
  DomainOf <- TwoDomains
  Messages <- TwoJobMessages
  MaxSize = 0
  BatchSize = 2
  ChannelCap = 2
  FalsePositives = FALSE
  MayShutdown = TRUE
  MaxReceived = 2
  DefaultDelay = 1
  MinDelay = 1
  MaxDelay = 1
  Concurrent = 1
  BackoffAfter = 2
  PauseAfter = 2
SPECIFICATION FairSpec
INVARIANT SlotsMatchRequests
PROPERTY EveryUrlLeaves
CHECK_DEADLOCK FALSE
