SPECIFICATION Spec
CONSTANTS
  p1 = p1
  w1 = w1
  r1 = r1
  Payments = {p1}
  Timelines <- AllTimelines
  Workers = {w1}
  Requests = {}
  BatchSize = 2
  LeaseTime = 1
  RetryInterval = 1
  MaxAttempts = 2
  ClockMode = "manual"
  Horizon = 3
  MaxCrashes = 1
  MaxReplays = 0
INVARIANTS
  CrashRepeatsOnce

  
CHECK_DEADLOCK FALSE
