----------------------------- MODULE MCContracts -----------------------------
(***************************************************************************)
(* The contracts beside the escrow, and the escrow's reading loops, for    *)
(* TLC.  They share no state, so each behaviour is one of a single part:   *)
(* the state spaces add up instead of multiplying.                         *)
(***************************************************************************)
EXTENDS Integers

CONSTANTS
  None,
  Addresses, ZeroAddress, Results, MaxMatchId, MAX_LIST_LIMIT, PageLimit,
  MAX_LIMIT, MaxU64, PageLimits, MaxMatches,
  Players, SourceSet, FirstSource, Payouts, MaxU32,
  Admin, Stranger, Symbols, ContractAddresses, MaxEvents,
  MAX_PAGE_SIZE,
  Tournaments, PlayerCounts, Fees, Reserve, ReserveBuffer, TIMEOUT_LEDGERS, MaxLedger

VARIABLES
  part,
  admin, pendingAdmin, resultCount, result, reader,
  matchCount, offsetReader, cursorReader,
  stats, roster, sources, recordingPaused, boardCount, recorded,
  paused, registration, registrationCount, names, events,
  tournament, node, balance, ledger, received, returned

Oracle == INSTANCE OracleContract
Pages == INSTANCE MatchPages WITH Nothing <- None
Board == INSTANCE Leaderboard WITH paused <- recordingPaused, resultCount <- boardCount
Registry == INSTANCE ContractRegistry
Bracket == INSTANCE TournamentBracket

ASSUME ContractsAssumption ==
  /\ Oracle!OracleAssumption /\ Pages!PagesAssumption
  /\ Board!LeaderboardAssumption /\ Registry!RegistryAssumption
  /\ Bracket!BracketAssumption

oracleVars == <<admin, pendingAdmin, resultCount, result, reader>>
pagesVars == <<matchCount, offsetReader, cursorReader>>
boardVars == <<stats, roster, sources, recordingPaused, boardCount, recorded>>
registryVars == <<paused, registration, registrationCount, names, events>>
bracketVars == <<tournament, node, balance, ledger, received, returned>>
vars == <<part, oracleVars, pagesVars, boardVars, registryVars, bracketVars>>

Init ==
  /\ part \in {"oracle", "pages", "board", "registry", "bracket"}
  /\ Oracle!Init /\ Pages!Init /\ Board!Init /\ Registry!Init /\ Bracket!Init

Next ==
  /\ UNCHANGED part
  /\ \/ /\ part = "oracle" /\ Oracle!Next
        /\ UNCHANGED <<pagesVars, boardVars, registryVars, bracketVars>>
     \/ /\ part = "pages" /\ Pages!Next
        /\ UNCHANGED <<oracleVars, boardVars, registryVars, bracketVars>>
     \/ /\ part = "board" /\ Board!Next
        /\ UNCHANGED <<oracleVars, pagesVars, registryVars, bracketVars>>
     \/ /\ part = "registry" /\ Registry!Next
        /\ UNCHANGED <<oracleVars, pagesVars, boardVars, bracketVars>>
     \/ /\ part = "bracket" /\ Bracket!Next
        /\ UNCHANGED <<oracleVars, pagesVars, boardVars, registryVars>>

\* Ledgers close, and somebody who wants the fees of a tournament back claims
\* the timeout.
Fairness ==
  /\ WF_bracketVars(part = "bracket" /\ Bracket!CloseLedger)
  /\ \A id \in Tournaments : WF_bracketVars(part = "bracket" /\ Bracket!claim_timeout(id))

Spec == Init /\ [][Next]_vars /\ Fairness

\* A reconciliation sees every result recorded before it began, a loop over
\* list_matches or list_matches_after every match, and one over list_names
\* every registered name in order.
ReadersMissNothing ==
  Oracle!ReconcilerMissesNothing /\ Pages!PagesMissNothing /\ Registry!NamesAreRegistrations
\* Wins match losses, played matches match recorded results, and the pages of
\* get_leaderboard are the ranking of those records.
BoardIsRight == Board!BooksBalance /\ Board!PagesAreTheRanking
\* The tournaments' balance holds the fees of the running ones, and all the
\* fees of a finished one went out, each once.
FeesAccountedFor == Bracket!Solvent /\ Bracket!EveryFeeLeaves
\* The champion won a funded match in every round.
ChampionEarnedIt == Bracket!ChampionEarnedIt
\* A tournament nobody reports on gives its fees back in the end.
FeesNeverStuck == Bracket!FeesNeverStuck
=============================================================================
