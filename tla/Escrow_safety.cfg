\* Two matches over two games; one ledger of window and of timeout.
CONSTANTS
  p1 = p1  p2 = p2  zero = zero
  adm = adm  orc = orc
  g1 = g1  g2 = g2  None = None
  Players <- MCPlayers
  Officials <- MCOfficials
  ZeroAddress = zero
  EscrowAddress = escrow
  SafeAddress = safe
  GameIds = {g1, g2}
  Stakes = {1}
  Windows = {1}
  Timeouts = {1}
  Reserve = 1
  MaxU32 = 100
  InitialBalance = 2
  EscrowFloat = 1
  MaxMatches = 2
  MaxLedger = 3
SPECIFICATION Spec
SYMMETRY Symmetry
CHECK_DEADLOCK FALSE
INVARIANTS PaidByVerdict Solvency GameIdIndex PlayersCanExit
PROPERTIES SettlesLikePots
