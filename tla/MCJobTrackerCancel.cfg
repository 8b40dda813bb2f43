SPECIFICATION Spec
CONSTANTS
  Jobs = {j1}
  Absent = Absent
  MaxConcurrent = 1
  MaxJobs = 1
  EvictShare = 1
  MaxEvents = 1
  MaxRestarts = 0
  MaxRejoins = 0
PROPERTY CancelledIsFinal
CHECK_DEADLOCK FALSE
