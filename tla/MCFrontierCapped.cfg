CONSTANTS
  j1 = j1  j2 = j2  a = a  b = b  c = c  d = d  d1 = d1  d2 = d2
  NoUrl = NoUrl  NoLimit = NoLimit  NoFrontier = NoFrontier  Untracked = Untracked
  Jobs = {j1}
  Keys = {a, b, c, d}
  Domains = {d1, d2}
  DomainOf <- FourPages
  Messages <- CappedMessages
  MaxSize = 2
  BatchSize = 2
  ChannelCap = 1
  FalsePositives = TRUE
  MayShutdown = FALSE
  MaxReceived = 4
  DefaultDelay = 2
  MinDelay = 1
  MaxDelay = 3
  Concurrent = 1
  BackoffAfter = 1
  PauseAfter = 2
SPECIFICATION Spec
INVARIANTS NoUrlVanishes PageCapOvershootIsBounded
PROPERTIES KeepsLedger
