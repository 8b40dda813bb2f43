SPECIFICATION CrawlSpec
CONSTANTS
  Domains = {d1}
  Untracked = Untracked
  DefaultDelay = 4
  MinDelay = 6
  MaxDelay = 20
  Concurrent = 2
  BackoffAfter = 3
  PauseAfter = 10
  RobotsDelays = {0, 9, 25}
  MaxOutstanding = 4
  MaxErrors = 12
  ua = ua
  ub = ub
  uc = uc
  Urls = {ua, ub, uc}
  SeedUrls = {ua, ub}
  Sitemap = {uc}
  Links <- MCLinks
  Idle = Idle
  Capacity = 1
  Concurrency = 1
  MaxBusFaults = 1
  Pages = {p1}
  Jobs = {j1, j2}
  Absent = Absent
  MaxVersion = 3
  MaxFailures = 1
  Viewers = {v1}
  NoEvent = NoEvent
  RingSize = 1
  BatchSize = 2
  MaxEvents = 2
  Machines = {f1, c1}
  Crawlers = {c1}
  IdleTime = 3
  SampleTime = 2
  MaxBacklog = 1
  Fetches = {g1, g2}
  NoRules = NoRules
  CacheTtl = 2
  RobotsTimeout = 1
  AttemptTime = 2
  MaxBackoff = 1
  MaxRetries = 1
  RenderCalls = {q1, q2}
  Tabs = 1
  MaxRenderFaults = 2
  NoRender = NoRender
INVARIANTS
  NeverOvercounts
  CrawlIsAccountedFor
  SkippedPagesAreIndexed
  ViewersMissNothing
  IdleWindow
  RulesAreFresh
  TabsAreBounded
PROPERTIES
  PipelineDrains
  EventsArrive
CHECK_DEADLOCK FALSE
