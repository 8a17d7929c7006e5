---------------------------- MODULE DepositStake ----------------------------
(***************************************************************************)
(* The deposit page of a match (apps/frontend/src/components/              *)
(* DepositStake.tsx) over the escrow contract: match details and allowance *)
(* are fetched, approvals and deposits signed, and any of the answers may  *)
(* come after the wallet, the network or the match has changed.            *)
(*                                                                         *)
(* A target is a match id on a network.  Durations are in ticks of the     *)
(* wall clock, which the ledgers follow.                                   *)
(***************************************************************************)
EXTENDS Integers, FiniteSets

CONSTANTS
  None, Addresses, Periods, Delay, Limits, LastTime,  \* of ResponsiblePlay
  Targets, Stake,  \* matches a page may show, and their stakes
  Window,          \* ticks to the deposit timeout
  MaxMoves         \* bound: changes of the target or the account

VARIABLES
  settings, now, confirming, asked,  \* of ResponsiblePlay
  hasChecker,        \* prop: checkAllowance is given (Wager.tsx gives none)
  target, player,    \* props: what the page shows, and the wallet's address or None
  matchDetails,      \* what the page last loaded, or None
  status, allowanceStatus, elapsedSecs,
  fetches,           \* match fetches in flight: [target, got]
  checks,            \* allowance checks in flight: [player, approving]
  approvals,         \* approvals in flight, by the player who signed
  deposits,          \* deposits in flight: [target, player]
  chain,             \* the escrow: [open, deposited] of each target
  approved,          \* players whose allowance suffices
  moves              \* changes of the target or the account so far

Play == INSTANCE ResponsiblePlay
playVars == <<settings, now, confirming, asked>>
propVars == <<hasChecker, target, player>>
pageVars == <<matchDetails, status, allowanceStatus, elapsedSecs>>
callVars == <<fetches, checks, approvals, deposits>>
worldVars == <<chain, approved>>
depositVars == <<playVars, propVars, pageVars, callVars, worldVars, moves>>

Init ==
  /\ Play!Init
  /\ hasChecker \in BOOLEAN
  /\ target \in Targets /\ player \in Addresses \cup {None}
  /\ matchDetails = None /\ status = "loading" /\ elapsedSecs = 0
  /\ allowanceStatus = IF player = None THEN "unknown"
                       ELSE IF hasChecker THEN "checking" ELSE "sufficient"
  /\ fetches = {[target |-> target, got |-> None]}
  /\ checks = IF player # None /\ hasChecker
                THEN {[player |-> player, approving |-> FALSE]} ELSE {}
  /\ approvals = {} /\ deposits = {}
  /\ chain = [t \in Targets |-> [open |-> TRUE, deposited |-> {}]]
  /\ approved \in {{}, Addresses}
  /\ moves = 0

-----------------------------------------------------------------------------
(* What the page shows.                                                    *)
Loaded == matchDetails # None
HasDeposited == Loaded /\ player \in matchDetails.deposited
IsExpired == Loaded /\ matchDetails.left <= elapsedSecs
DepositDisabled_Clickable ==
  \/ ~ Loaded \/ ~ matchDetails.open
  \/ status = "loading"
  \/ HasDeposited \/ allowanceStatus \in {"checking", "insufficient"} \/ IsExpired
DepositDisabled ==
  \/ ~ Loaded \/ ~ matchDetails.open
  \/ status \in {"loading", "pending"}
  \/ HasDeposited \/ allowanceStatus \in {"checking", "insufficient"} \/ IsExpired
ApproveEnabled ==
  /\ Loaded /\ matchDetails.open /\ allowanceStatus = "insufficient"
  /\ ~ HasDeposited /\ status \notin {"approving", "loading"}

-----------------------------------------------------------------------------
(* Match details: get_match is simulated, then the latest ledger is read.  *)
FetchMatchDetails(t) ==
  /\ status' = "loading"
  /\ fetches' = fetches \cup {[target |-> t, got |-> None]}

Retry ==
  /\ status = "error" /\ ~ Loaded
  /\ FetchMatchDetails(target)
  /\ UNCHANGED <<playVars, propVars, matchDetails, allowanceStatus, elapsedSecs,
                 checks, approvals, deposits, worldVars, moves>>

ServerReads(f) ==
  /\ f \in fetches /\ f.got = None
  /\ fetches' = (fetches \ {f}) \cup
       {[f EXCEPT !.got = [target |-> f.target, open |-> chain[f.target].open,
                           deposited |-> chain[f.target].deposited,
                           left |-> Window - now]]}
  /\ UNCHANGED <<playVars, propVars, pageVars, checks, approvals, deposits,
                 worldVars, moves>>

\* An answer is shown whatever the page shows by now.
FetchAnswers(f) ==
  /\ f \in fetches /\ f.got # None
  /\ fetches' = fetches \ {f}
  /\ matchDetails' = f.got /\ elapsedSecs' = 0 /\ status' = "idle"
  /\ UNCHANGED <<playVars, propVars, allowanceStatus, checks, approvals,
                 deposits, worldVars, moves>>

FetchFails(f) ==
  /\ f \in fetches
  /\ fetches' = fetches \ {f}
  /\ status' = "error"
  /\ UNCHANGED <<playVars, propVars, matchDetails, allowanceStatus, elapsedSecs,
                 checks, approvals, deposits, worldVars, moves>>

-----------------------------------------------------------------------------
(* verifyAllowance and handleApprove                                       *)
VerifyAllowance(p, approving) ==
  IF hasChecker
    THEN /\ allowanceStatus' = "checking"
         /\ checks' = checks \cup {[player |-> p, approving |-> approving]}
    ELSE allowanceStatus' = "sufficient" /\ UNCHANGED checks

\* A check that fails counts as sufficient.
CheckAnswers(c, fails) ==
  /\ c \in checks
  /\ checks' = checks \ {c}
  /\ allowanceStatus' = IF fails \/ c.player \in approved
                         THEN "sufficient" ELSE "insufficient"
  /\ status' = IF c.approving THEN "idle" ELSE status
  /\ UNCHANGED <<playVars, propVars, matchDetails, elapsedSecs, fetches,
                 approvals, deposits, worldVars, moves>>

HandleApprove ==
  /\ ApproveEnabled /\ player # None
  /\ status' = "approving"
  /\ approvals' = approvals \cup {player}
  /\ UNCHANGED <<playVars, propVars, matchDetails, allowanceStatus, elapsedSecs,
                 fetches, checks, deposits, worldVars, moves>>

ApprovalDone(p) ==
  /\ p \in approvals
  /\ approvals' = approvals \ {p}
  /\ approved' = approved \cup {p}
  /\ VerifyAllowance(p, TRUE)
  /\ UNCHANGED <<playVars, propVars, matchDetails, status, elapsedSecs, fetches,
                 deposits, chain, moves>>

ApprovalFails(p) ==
  /\ p \in approvals
  /\ approvals' = approvals \ {p}
  /\ status' = "error"
  /\ UNCHANGED <<playVars, propVars, matchDetails, allowanceStatus, elapsedSecs,
                 fetches, checks, deposits, worldVars, moves>>

-----------------------------------------------------------------------------
(* handleDeposit                                                           *)
WagerRefused == player # None /\ ~ Play!CheckWagerAllowed(player, Stake[matchDetails.target])

\* Without a wallet the transaction is refused before it is built.
HandleDeposit ==
  /\ ~ DepositDisabled
  /\ IF player = None \/ WagerRefused
       THEN status' = "error" /\ UNCHANGED deposits
       ELSE /\ status' = "pending"
            /\ deposits' = deposits \cup {[target |-> target, player |-> player,
                                          click |-> Cardinality(deposits)]}
  /\ UNCHANGED <<playVars, propVars, matchDetails, allowanceStatus, elapsedSecs,
                 fetches, checks, approvals, worldVars, moves>>

\* The contract takes a stake of an open match once.
Staked(d) ==
  [chain EXCEPT ![d.target].deposited = @ \cup {d.player},
                ![d.target].open = Addresses # chain[d.target].deposited \cup {d.player}]
Takes(d) == chain[d.target].open /\ d.player \notin chain[d.target].deposited

DepositDone(d) ==
  /\ d \in deposits /\ Takes(d)
  /\ deposits' = deposits \ {d}
  /\ chain' = Staked(d)
  /\ status' = "success"
  /\ UNCHANGED <<playVars, propVars, matchDetails, allowanceStatus, elapsedSecs,
                 fetches, checks, approvals, approved, moves>>

\* Polling for the result may give up on a transaction that is confirmed.
DepositFails(d, confirmed) ==
  /\ d \in deposits
  /\ deposits' = deposits \ {d}
  /\ chain' = IF confirmed /\ Takes(d) THEN Staked(d) ELSE chain
  /\ status' = "error"
  /\ UNCHANGED <<playVars, propVars, matchDetails, allowanceStatus, elapsedSecs,
                 fetches, checks, approvals, approved, moves>>

-----------------------------------------------------------------------------
(* The world around the page.                                              *)
\* A new match id, network or contract: the effect fetches again.
TargetChanges ==
  /\ moves < MaxMoves
  /\ \E t \in Targets \ {target} : target' = t /\ FetchMatchDetails(t)
  /\ moves' = moves + 1
  /\ UNCHANGED <<playVars, hasChecker, player, matchDetails, allowanceStatus, elapsedSecs, checks,
                 approvals, deposits, worldVars>>

\* Another account: the effect checks its allowance.
PlayerChanges ==
  /\ moves < MaxMoves
  /\ moves' = moves + 1
  /\ player' \in (Addresses \cup {None}) \ {player}
  /\ IF player' = None THEN UNCHANGED <<allowanceStatus, checks>>
                       ELSE VerifyAllowance(player', FALSE)
  /\ UNCHANGED <<playVars, hasChecker, target, matchDetails, status, elapsedSecs, fetches,
                 approvals, deposits, worldVars>>

MatchCloses(t) ==
  /\ chain[t].open
  /\ chain' = [chain EXCEPT ![t].open = FALSE]
  /\ UNCHANGED <<playVars, propVars, pageVars, callVars, approved, moves>>

\* The countdown advances every second.
Tick ==
  /\ Play!Tick
  /\ elapsedSecs' = IF Loaded THEN elapsedSecs + 1 ELSE elapsedSecs
  /\ UNCHANGED <<propVars, matchDetails, status, allowanceStatus, callVars,
                 worldVars, moves>>

Panel ==
  /\ Play!Panel
  /\ UNCHANGED <<propVars, pageVars, callVars, worldVars, moves>>

Next ==
  \/ Retry
  \/ \E f \in fetches : ServerReads(f) \/ FetchAnswers(f) \/ FetchFails(f)
  \/ \E c \in checks, fails \in BOOLEAN : CheckAnswers(c, fails)
  \/ HandleApprove \/ \E p \in approvals : ApprovalDone(p) \/ ApprovalFails(p)
  \/ HandleDeposit \/ \E d \in deposits :
       DepositDone(d) \/ \E confirmed \in BOOLEAN : DepositFails(d, confirmed)
  \/ TargetChanges \/ PlayerChanges \/ \E t \in Targets : MatchCloses(t)
  \/ Tick \/ Panel

Spec == Init /\ [][Next]_depositVars

-----------------------------------------------------------------------------
\* "The isPending guard is the critical one -- without it the user can click
\* twice and submit duplicate transactions" (DepositStake.tsx): whatever is
\* answered, approved or switched meanwhile, a second deposit is only in flight
\* once the page has been given another match, network or account, and each of
\* these lets through one more at most.
OneDepositInFlight == Cardinality(deposits) <= 1 + moves
=============================================================================
