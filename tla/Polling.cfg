\* Two jobs of one match, for one game or two; one timer poll at a time.
CONSTANTS
  Matches = {m1}
  Games = {g1, g2}
  None = None
  MaxJobs = 2
  MaxAttempts = 2
  Slots = {s1}
  MaxTimers = 1
  CountTo = 1
SPECIFICATION FairSpec
CHECK_DEADLOCK FALSE
INVARIANTS JobsAccountedFor
PROPERTIES StopIsFinal FinishedGamesLeave
