\* Five small parts, each explored alone.
\* Deadlock: a part stops when its bounds are reached.
SPECIFICATION Spec
CONSTANTS
  None = None
  Addresses = {a1, a2, a3, zero}
  ZeroAddress = zero
  Results = {r1}
  MaxMatchId = 3
  MAX_LIST_LIMIT = 2
  PageLimit = 2
  MAX_LIMIT = 2
  MaxU64 = 9
  PageLimits = {1, 2}
  MaxMatches = 5
  Players = {1, 2, 3}
  SourceSet = {s1}
  FirstSource = s1
  Payouts = {0, 1}
  MaxU32 = 2
  Admin = adm
  Stranger = str
  Symbols = {1, 2, 3, 4}
  ContractAddresses = {c1, c2}
  MaxEvents = 1
  MAX_PAGE_SIZE = 2
  Tournaments = {0, 1}
  PlayerCounts = {2, 4}
  Fees = {1, 2}
  Reserve = 1
  ReserveBuffer = 1
  TIMEOUT_LEDGERS = 1
  MaxLedger = 3
INVARIANTS ReadersMissNothing BoardIsRight FeesAccountedFor ChampionEarnedIt
PROPERTIES FeesNeverStuck
CHECK_DEADLOCK FALSE
