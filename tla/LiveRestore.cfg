\* Three entries: one only live, one only in the backup, one in both.
SPECIFICATION FairSpec
CONSTANTS
  Ids = {e1, e2, e3}
  MaxBackups = 1
  MaxRestores = 2
  MaxCrashes = 1
INVARIANTS Quiesced QueueSurvives
PROPERTIES WaitersRun
CHECK_DEADLOCK FALSE
