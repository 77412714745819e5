SPECIFICATION FairSpec
CONSTANTS
  p1 = p1
  w1 = w1
  r1 = r1
  Payments = {p1}
  Timelines <- AllTimelines
  Workers = {w1}
  Requests = {r1}
  BatchSize = 2
  LeaseTime = 1
  RetryInterval = 1
  MaxAttempts = 2
  ClockMode = "real"
  Horizon = 3
  MaxCrashes = 0
  MaxReplays = 0
INVARIANTS
  TypeOK
  TimelineOrder
  TransitionsLegal
PROPERTIES
  AllJobsComplete
CHECK_DEADLOCK FALSE
