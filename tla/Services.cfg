\* One part per behaviour; each part has the fewest actors whose order matters.
SPECIFICATION Spec
CONSTANTS
  None = None
  FailureThreshold = 2
  SuccessThreshold = 2
  MaxAttemptCount = 2
  CooldownMs = 1
  BackoffMultiplier = 2
  MaxCooldownMs = 3
  MaxTime = 5
  MaxSaves = 2
  Requests = {r1, r2, r3}
  Alice = alice
  Bob = bob
  Sponsored = {alice, bob}
  MaxFee = 2
  DailyBudget = 2
  DailyPlayerLimit = 1
  LastDay = 1
  Capacity = 2
  RefillInterval = 2
  RefillAmount = 1
  StaleThreshold = 4
  Instances = {i1, i2}
  RateTime = 5
  M1 = m1
  M2 = m2
  M3 = m3
  WatchedMatches = {m1, m2, m3}
  WindowSize = 2
  MaxAge = 1
  MinDecided = 2
  MinDisagreements = 2
  RateNumerator = 1
  RateDenominator = 2
  MaxAttempts = 2
  OutcomeTime = 1
  AgingMatches = {m1, m2}
  TrackLimits = {1, 2}
  MAX_CLOSED_IDS = 1
  CompletedWindow = 1
  MinSamples = 1
  AgeTime = 2
  Operators = {op1, op2}
  Verifiers = {v1}
  MaxDecisions = 5
  HttpRequests = {h1, h2}
  Polls = {p1, p2}
  Workers = {retry, eviction}
  Stores = {queue, circuit}
  Creations = {k1, k2, k3}
  IntakeChecks = {v1}
  Lichess = lichess
  ChessDotCom = chessdotcom
  LastId = 3
  MaxRestarts = 1
  LinkNames = {n1}
  Confirmations = {c1, c2}
  LINK_NONCE_TTL_MS = 2
  MAX_PENDING_LINKS = 1
  MaxNonces = 2
  LinkTime = 2
  Torn = torn
  RetentionDays = 1
  MaxCommits = 2
  LastBackupDay = 2
INVARIANTS SpendWithinPolicy LimitHolds OneRetryPerReview StoresCloseLast RecordsHold LinksAreProven 
PROPERTIES CircuitMovesForCause SignalsAreWarranted AlertsAreTrue VerdictsHold
CHECK_DEADLOCK FALSE
