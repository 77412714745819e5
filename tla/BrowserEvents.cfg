SPECIFICATION Spec
CONSTANTS
  Window = 1
  Interval = 1
  MaxSessions = 2
  MaxEvents = 2
  MaxTime = 2
INVARIANTS
  TypeOK
  CursorIsPosition
  StreamComplete
  SteadyStreamActive
CHECK_DEADLOCK FALSE
