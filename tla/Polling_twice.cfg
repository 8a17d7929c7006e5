CONSTANTS
  Matches = {m1}
  Games = {g1}
  None = None
  MaxJobs = 1
  MaxAttempts = 2
  Slots = {s1}
  MaxTimers = 1
  CountTo = 2
SPECIFICATION Spec
CHECK_DEADLOCK FALSE
INVARIANT CompletedOnce
