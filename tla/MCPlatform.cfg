SPECIFICATION PlatformSpec
CONSTANTS
  Configs = {c1, c2}
  Servers = {s1, s2}
  Editors = {d1}
  Nil = Nil
  Keep = Keep
  Periods = {1, 2}
  CronBatch = 1
  MaxTime = 1
  MaxEdits = 2
  MaxFaults = 1
  Emails = {m1, m2}
  Pollers = {p1, p2}
  NoRow = NoRow
  MaxAttempts = 2
  EmailBatch = 1
  MaxEmailFaults = 1
  Callers <- MCCallers
  Sites = {"s", "t"}
  Crawls = {j1}
  CrawlCaller <- MCCrawlCaller
  CrawlSite <- MCCrawlSite
  Statuses = {304}
  PageCounts = {2}
  RowBatch = 2
  KpiDomains = 1
  DayHours = 2
  MaxRows = 2
  MaxHours = 2
  MaxLosses = 1
  Wanted <- MCWanted
  SendBatch = 2
  MaxHeld = 2
  MaxClients = 1
INVARIANTS
  SlotRunsAreBounded
  ReportsAgree
  EndsClean
PROPERTIES
  DueConfigRuns
  EmailsAreHandled
  UsageIsWritten
  AskedProcessEnds
CHECK_DEADLOCK FALSE
