\* Outbox: two matches, two outcomes, a transaction each, two rejections or
\* crashes.  Queue: two submissions, one retry each, one cycle at a time; a
\* circuit that opens at the first failure.
\* Deadlock: all transactions prepared or all entries written, nothing moves.
SPECIFICATION SettlementSpec
CONSTANTS
  None = None
  Matches = {m1, m2}
  Followed = {m1}
  Results = {r1, r2}
  MaxRejections = 2
  MaxTx = 2
  FailureThreshold = 1
  SuccessThreshold = 1
  MaxAttemptCount = 0
  Cycles = {c1}
  MaxEntries = 2
  MayAge = {1}
  MaxRetries = 1
  MaxAttempts = 2
  MaxFailures = 2
  MaxCrashes = 1
INVARIANTS StoreMatchesChain OneTransactionPerMatch 
PROPERTIES OnlySettledLeaves ResultsGetSettled
CHECK_DEADLOCK FALSE
