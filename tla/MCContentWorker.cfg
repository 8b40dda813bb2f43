SPECIFICATION Spec
CONSTANTS
  e1 = e1
  e2 = e2
  i1 = i1
  i2 = i2
  None = None
  Engines = {e1, e2}
  Indexes = {i1, i2}
  Pages <- MCPages
  BatchSize = 2
  StreamMayEnd = TRUE
  MayShutdown = TRUE
  MaxFailures = 1
  MaxCrashes = 1
INVARIANTS
  OwnIndex
  NothingForgotten
  LossIsBounded
PROPERTIES
  EveryPageHandled
CHECK_DEADLOCK FALSE
