CONSTANTS
  Owners = {o1, o2}
  Durations = {0, 1}
  Pollers = {p1, p2}
  MaxTimers = 2
  MaxTime = 2
  MaxFailures = 2
SPECIFICATION FairTimerSpec
INVARIANTS
  TimerTypeOK
  FiredWasHandled
  HandledOnce
PROPERTIES
  CancelledStaysQuiet
  DueIsFired
CHECK_DEADLOCK FALSE
