SPECIFICATION Spec
CONSTANTS
  None = None
  ReserveBuffer = 1
  TIMEOUT_LEDGERS = 1
  Tournaments = {0}
  PlayerCounts = {8}
  Fees = {1}
  Reserve = 1
  MaxLedger = 2
INVARIANTS
  SeedsMeetInFinal
CHECK_DEADLOCK FALSE
