\* Whether self-exclusion stops the flow of the form as it is built.
SPECIFICATION FrontSpec
CONSTANTS
  None = None
  Addresses = {a1}
  Periods = {1, 3}
  Delay = 2
  Limits = {1, 2}
  LastTime = 5
  ReviewIsBuilt = FALSE
  Amounts = {"bare"}
  Games = {"g1", "g2"}
  MaxCalls = 1
  KnownGameIds = {}
  Keys = {"alice", "bob"}
  Figures = {"1", "2"}
  MaxSwitches = 1
  Targets = {1, 2}
  Stake <- Stakes
  Window = 1
  MaxMoves = 1
  Accounts = {"alice", "bob"}
  Networks = {"testnet", "mainnet", "unknown"}
  Expected = "testnet"
  Unknown = "unknown"
  MaxRuns = 2
  MaxChanges = 2
  MaxClicks = 1
  Parts = {"create"}
PROPERTY ExclusionStopsTheFlow
CHECK_DEADLOCK FALSE
