\* One match; zero, ordinary and overflowing deadlines; no symmetry, for the
\* leads-to property.
CONSTANTS
  p1 = p1  p2 = p2  zero = zero
  adm = adm  orc = orc
  g1 = g1  g2 = g2  None = None
  Players <- MCPlayers
  Officials <- MCOfficials
  ZeroAddress = zero
  EscrowAddress = escrow
  SafeAddress = safe
  GameIds = {g1}
  Stakes = {1, 2}
  Windows = {0, 1, 5}
  Timeouts = {0, 1, 5}
  Reserve = 1
  MaxU32 = 5
  InitialBalance = 2
  EscrowFloat = 1
  MaxMatches = 1
  MaxLedger = 5
SPECIFICATION FairSpec
CHECK_DEADLOCK FALSE
PROPERTIES FundedMatchesSettle VerdictsAreFinal
