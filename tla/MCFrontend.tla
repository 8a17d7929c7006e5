------------------------------ MODULE MCFrontend ------------------------------
(***************************************************************************)
(* The web application's forms and sessions, for TLC.  Each behaviour is   *)
(* one of a single part: the responsible-play settings alone, the form     *)
(* that creates a match, the deposit page with another tab's limits and    *)
(* with the clock running, the claim form, the details page, and the       *)
(* wallet session.                                                         *)
(***************************************************************************)
EXTENDS ResponsiblePlay, FiniteSets, Sequences

CONSTANTS
  ReviewIsBuilt, Amounts, Games, KnownGameIds, MaxCalls,  \* of CreateMatchForm
  Keys, Figures, MaxSwitches,                             \* of ClaimBurn
  Targets, Stake, Window, MaxMoves,                       \* of DepositStake
  Accounts, Networks, Expected, Unknown, MaxRuns, MaxChanges, MaxClicks,
                                                          \* of WalletSession
  Parts  \* the parts a run explores

\* What a player types: a plain amount, one with decimals, one the contract
\* refuses, one as precise as it gets, and one with no digit before its point.
PlainAmount == [whole |-> 1, point |-> FALSE, frac |-> << >>]
TenthAmount == [whole |-> 0, point |-> TRUE, frac |-> <<5>>]
FineAmount == [whole |-> 0, point |-> TRUE, frac |-> <<0, 5>>]
HugeAmount == [whole |-> 9, point |-> FALSE, frac |-> << >>]
BareAmount == [whole |-> None, point |-> TRUE, frac |-> <<5>>]
Typed == [plain |-> PlainAmount, tenth |-> TenthAmount, huge |-> HugeAmount,
          fine |-> FineAmount, bare |-> BareAmount]

Stakes == <<1, 2>>

\* What the platforms answer: every kind of end of a Lichess game, and every
\* combination of the two players' ends of a Chess.com one; and what the
\* fetchers make of it.
Results == INSTANCE GameResults
LichessGames ==
  [status : {"started", "mate", "draw", "outoftime", "cheat", "aborted"},
   winner : {"white", "black", "none"}, named : BOOLEAN, dated : BOOLEAN, same : BOOLEAN]
LichessAnswers ==
  [http : {200}, game : LichessGames]
    \cup {[http |-> h, game |-> None] : h \in {404, 429, 500}}
ChessDotComGames ==
  [white : {"win", "resigned", "agreed", "in_progress"},
   black : {"win", "resigned", "agreed", "in_progress"}, named : BOOLEAN, dated : {TRUE}]
Archives ==
  [http : {200}, wellFormed : BOOLEAN,
   games : {<< >>} \cup {<<g>> : g \in ChessDotComGames}
             \cup {<<g, g>> : g \in ChessDotComGames}]
    \cup {[http |-> h, wellFormed |-> TRUE, games |-> << >>] : h \in {404, 429, 500}}
Fetches ==
  [lichess |-> {Results!LichessAnswer(a) : a \in LichessAnswers},
   chesscom |-> {Results!ArchiveAnswer(a) : a \in Archives}]

Refusal == [http |-> 429, game |-> None]
Empty == [http |-> 404, wellFormed |-> TRUE, games |-> << >>]

\* A refusal or an empty month before an answer changes nothing; four refusals
\* are the end, and so is a year without the game.
ASSUME FirstAnswerCounts ==
  /\ \A a \in LichessAnswers, n \in 0 .. 4 :
       Results!FetchLichessResult([i \in 1 .. 4 |-> IF i <= n THEN Refusal ELSE a])
         = IF n = 4 THEN "rate_limited" ELSE Results!LichessAnswer(a)
  /\ \A a \in Archives, n \in 0 .. 12 :
       Results!FetchChessDotComResult([i \in 1 .. 12 |-> IF i <= n THEN Empty ELSE a])
         = IF n = 12 THEN "not_found" ELSE Results!ArchiveAnswer(a)

\* The polling worker hears of a result only from a game of two named players
\* whose end is dated, the one asked for (ChessPlatformPoller.poll).
ASSUME ResultsAreComplete ==
  /\ \A g \in LichessGames :
       Results!Poll("lichess", FALSE, Results!LichessAnswer([http |-> 200, game |-> g]))
         = "completed" => g.named /\ g.dated /\ g.same
  /\ \A a \in Archives :
       Results!Poll("chesscom", TRUE, Results!ArchiveAnswer(a)) = "completed" =>
         a.wellFormed /\ Len(a.games) = 1 /\ a.games[1].named

VARIABLES
  part,
  form, token, errors, createStatus, validating, review, reviewError, submitting,
  signing, createdId, account, vouched,
  pageSettings, pageNow, pageConfirming, pageAsked,
  hasChecker, target, player, matchDetails, depositStatus, allowanceStatus, elapsedSecs,
  fetches, checks, approvals, deposits, chain, approved, moves,
  mode, inputAmount, confirmAmount, claimStatus, estimatedFee, publicKey,
  walletState, simulations, transactions, switches,
  matchId, matchData, fetchStatus, interval, requests, escrow, misled,
  wallet, events, status, address, network, balance, runs, balanceFetches,
  changes, clicks

createVars == <<form, token, errors, createStatus, validating, review, reviewError,
                submitting, signing, createdId, account, vouched>>
depositVars == <<pageSettings, pageNow, pageConfirming, pageAsked, hasChecker, target,
                 player, matchDetails, depositStatus, allowanceStatus, elapsedSecs, fetches,
                 checks, approvals, deposits, chain, approved, moves>>
claimVars == <<mode, inputAmount, confirmAmount, claimStatus, estimatedFee, publicKey,
               walletState, simulations, transactions, switches>>
statusVars == <<matchId, matchData, fetchStatus, interval, requests, escrow, misled>>
walletVars == <<wallet, events, status, address, network, balance, runs, balanceFetches,
                changes, clicks>>
vars == <<part, playVars, createVars, depositVars, claimVars, statusVars, walletVars>>

Create == INSTANCE CreateMatchForm WITH
  Periods <- {1}, Limits <- {}, LastTime <- 0, Amounts <- {Typed[a] : a \in Amounts},
  MAX_DECIMAL_PLACES <- 2, MAX_STAKE <- 500, Fetched <- Fetches,
  Networks <- {Expected}, status <- createStatus, matchId <- createdId
Deposit == INSTANCE DepositStake WITH
  Addresses <- Accounts, Periods <- {}, Limits <- {1}, LastTime <- 1,
  settings <- pageSettings, now <- pageNow, confirming <- pageConfirming,
  asked <- pageAsked, status <- depositStatus
Claim == INSTANCE ClaimBurn WITH status <- claimStatus
Status == INSTANCE MatchStatus WITH Ids <- {1, 2}, MaxRequests <- 2
Wallet == INSTANCE WalletSession WITH fetches <- balanceFetches

ASSUME FrontAssumption == Claim!ClaimAssumption

FrontInit ==
  /\ part \in Parts
  /\ Create!Init /\ Deposit!Init /\ Claim!Init /\ Status!Init /\ Wallet!Init
  \* the parts that are not explored stand still in one state
  /\ part # "create" => account = [address |-> None, network |-> Expected]
  /\ part \notin {"deposit", "countdown"} =>
       hasChecker /\ target = (CHOOSE t \in Targets : TRUE) /\ player = None /\ approved = {}
  /\ part # "claim" => publicKey = None
  /\ part # "status" => matchId = 1 /\ escrow = <<None, None>>
  /\ part # "wallet" => wallet = [account |-> None, network |-> Unknown]

FrontNext ==
  /\ UNCHANGED part
  /\ \/ part = "play" /\ Next /\ UNCHANGED createVars
     \/ part = "create" /\ Create!Next
     \/ part \notin {"play", "create"} /\ UNCHANGED <<playVars, createVars>>
  /\ \/ part = "deposit" /\ Deposit!Next /\ pageNow' = pageNow
     \/ part = "countdown" /\ Deposit!Next /\ pageSettings' = pageSettings
     \/ part \notin {"deposit", "countdown"} /\ UNCHANGED depositVars
  /\ IF part = "claim" THEN Claim!Next ELSE UNCHANGED claimVars
  /\ IF part = "status" THEN Status!Next ELSE UNCHANGED statusVars
  /\ IF part = "wallet" THEN Wallet!Next ELSE UNCHANGED walletVars

Fairness ==
  /\ WF_statusVars(part = "status" /\ Status!Poll)
  /\ \A i \in 1 .. 2 :
       /\ WF_statusVars(part = "status" /\ Status!ReaderReads(i))
       /\ SF_statusVars(part = "status" /\ Status!Answer(i))

FrontSpec == FrontInit /\ [][FrontNext]_vars /\ Fairness

\* The wallet signs what the review showed.
SignedAsReviewed == Create!SignedAsReviewed
\* An excluded player's submission stops before anything is validated.
ExclusionStopsTheFlow == Create!ExclusionStopsTheFlow
\* One deposit is in flight, and one more with each change of match or account.
OneDepositInFlight == Deposit!OneDepositInFlight
\* What is claimed or burnt is what was priced.
SentAsPriced == Claim!SentAsPriced
\* A page that stays on a match shows that it is over.
ShowsTheEnd == Status!ShowsTheEnd
\* A wallet at rest is the one shown, with its own balance.
ShowsTheWallet == Wallet!ShowsTheWallet
=============================================================================
