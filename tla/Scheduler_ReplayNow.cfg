SPECIFICATION FairSpec
CONSTANTS
  p1 = p1
  w1 = w1
  r1 = r1
  Payments = {p1}
  Timelines <- ImmediateTimeline
  Workers = {w1}
  Requests = {}
  BatchSize = 2
  LeaseTime = 1
  RetryInterval = 1
  MaxAttempts = 2
  ClockMode = "real"
  Horizon = 2
  MaxCrashes = 0
  MaxReplays = 1
PROPERTIES
  AllReplaysAttempted
CHECK_DEADLOCK FALSE
