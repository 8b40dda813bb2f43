SPECIFICATION MCSpec
CONSTANTS
  Jobs = {j1, j2}
  j1 = j1
  j2 = j2
  Absent = Absent
  MaxConcurrent = 2
  MaxJobs = 1
  EvictShare = 1
  MaxEvents = 2
  MaxRestarts = 2
  MaxRejoins = 1
INVARIANTS
  BillsMatchRuns
  NoPageInvented
PROPERTY RunningJobEnds
CHECK_DEADLOCK FALSE
