------------------------------- MODULE Escrow -------------------------------
(***************************************************************************)
(* The escrow contract (contracts/escrow/src/lib.rs): two players stake    *)
(* the same amount on one chess game, the oracle reports the result, the   *)
(* admin may correct it during a dispute window, and the pot is paid out.  *)
(*                                                                         *)
(* A contract call is one transaction: it either commits every write it    *)
(* makes or, on any Err or panic, none.  So each call is one action whose  *)
(* conjuncts are the call's checks, and a call that fails is a stutter.    *)
(*                                                                         *)
(* Only the token given to initialize is ever allowlisted in this source   *)
(* (nothing writes TokenAllowlisted afterwards), so one token is modelled. *)
(***************************************************************************)
EXTENDS Integers, FiniteSets, FiniteSetsExt

CONSTANTS
  Players,         \* addresses that create matches and stake
  Officials,       \* addresses the oracle and admin roles rotate over
  ZeroAddress,     \* the all-zeros account, rejected by is_zero_address
  EscrowAddress,   \* the contract's own address
  SafeAddress,     \* fixed by initialize, the only destination of a drain
  None,            \* Option::None
  GameIds,         \* well-formed platform game identifiers
  Stakes,          \* stakes within MIN_STAKE..MAX_STAKE
  Windows,         \* dispute windows initialize may be given, in ledgers
  Timeouts,        \* match timeouts initialize may be given, in ledgers
  Reserve,         \* ESCROW_RESERVE_BUFFER_STROOPS
  MaxU32,          \* ledger arithmetic past this panics (overflow-checks)
  InitialBalance,  \* what each player holds at first
  EscrowFloat,     \* what the operator put in the contract's account
  MaxMatches,      \* bound: number of matches created
  MaxLedger        \* bound: last ledger sequence number

ASSUME EscrowAssumption ==
  /\ EscrowAddress \notin Players
  /\ SafeAddress \notin Players \cup {EscrowAddress}
  /\ None \notin Nat \cup Players \cup Officials \cup GameIds
  /\ Stakes \subseteq Nat \ {0}
  /\ Windows \subseteq Nat
  /\ Timeouts \subseteq Nat
  /\ Reserve \in Nat
  /\ MaxU32 \in Nat
  /\ InitialBalance \in Nat
  /\ EscrowFloat \in Nat
  /\ MaxMatches \in Nat
  /\ MaxLedger \in Nat

VARIABLES
  oracle,          \* DataKey::Oracle; None until initialize
  admin,           \* DataKey::Admin
  paused,          \* DataKey::Paused
  disputeWindow,   \* DataKey::DisputeWindowLedgers
  timeoutLedgers,  \* DataKey::TimeoutLedgers
  matchCount,      \* DataKey::MatchCount
  match,           \* DataKey::Match(id), None when absent
  gameOwner,       \* DataKey::GameId(g): the match that took g, or None
  balance,         \* token balances (external token contract)
  ledger,          \* current ledger sequence number
  paid,            \* history: what a match has paid to each player so far
  drained          \* history: a drain has moved funds to the safe address

roleVars   == <<oracle, admin, paused, disputeWindow, timeoutLedgers>>
recordVars == <<matchCount, match, gameOwner>>
moneyVars  == <<balance, paid, drained>>
vars       == <<roleVars, recordVars, moneyVars, ledger>>

MatchIds == 0 .. (MaxMatches - 1)
Accounts == Players \cup {EscrowAddress, SafeAddress}
Winners  == {"Player1", "Player2", "Draw"}
States   == {"Pending", "Active", "PendingResult", "Completed", "Cancelled"}
Terminal == {"Completed", "Cancelled"}

\* The record written by create_match; platform and the created, cancelled
\* and completed ledgers are only ever written, so they are left out.
Match ==
  [player1 : Players, player2 : Players, stake : Stakes, gameId : GameIds,
   state : States, player1Deposited : BOOLEAN, player2Deposited : BOOLEAN,
   activatedLedger : Nat \cup {None}, pendingResultLedger : Nat \cup {None},
   pendingWinner : Winners \cup {None}]

ASSUME NoneIsNoMatch  == None \notin Match
ASSUME NoneIsNoWinner == None \notin Winners

Exists(id) == match[id] # None
MatchPlayers(id) == {match[id].player1, match[id].player2}
BothDeposited(id) == match[id].player1Deposited /\ match[id].player2Deposited

\* Player p's deposit in m.
HasDeposited(m, p) ==
  \/ p = m.player1 /\ m.player1Deposited
  \/ p = m.player2 /\ m.player2Deposited
Refund(m)      == [p \in Players |-> IF HasDeposited(m, p) THEN m.stake ELSE 0]
RefundTotal_Both(m) == m.stake + m.stake
RefundTotal(m) == (IF m.player1Deposited THEN m.stake ELSE 0)
                + (IF m.player2Deposited THEN m.stake ELSE 0)

\* get_escrow_balance: the deposits of a live match, else 0.
EscrowBalance(id) ==
  IF ~ Exists(id) \/ match[id].state \in Terminal THEN 0
  ELSE RefundTotal(match[id])

\* Ledger deadlines are u32 sums: past MaxU32 the addition panics and the
\* call reverts, so neither comparison below is then true.
WindowOpen_ShortByOne(m) == ledger < m.pendingResultLedger + disputeWindow
WindowElapsed_Early(m) == ledger >= m.pendingResultLedger + disputeWindow
TimedOut_UnlessPaused(m) ==
  ~ paused /\ ledger > m.activatedLedger + timeoutLedgers

WindowOpen(m) ==
  /\ m.pendingResultLedger + disputeWindow <= MaxU32
  /\ ledger <= m.pendingResultLedger + disputeWindow
WindowElapsed(m) ==
  /\ m.pendingResultLedger + disputeWindow <= MaxU32
  /\ ledger > m.pendingResultLedger + disputeWindow
TimedOut(m) ==
  /\ m.activatedLedger + timeoutLedgers <= MaxU32
  /\ ledger > m.activatedLedger + timeoutLedgers

-----------------------------------------------------------------------------
Init ==
  /\ oracle = None
  /\ admin = None
  /\ paused = FALSE
  /\ disputeWindow = 0
  /\ timeoutLedgers = 0
  /\ matchCount = 0
  /\ match = [id \in MatchIds |-> None]
  /\ gameOwner = [g \in GameIds |-> None]
  /\ balance = [a \in Accounts |-> IF a \in Players THEN InitialBalance
                                   ELSE IF a = EscrowAddress THEN EscrowFloat
                                   ELSE 0]
  /\ ledger = 0
  /\ paid = [id \in MatchIds |-> [p \in Players |-> 0]]
  /\ drained = FALSE

Initialized == oracle # None

Initialize(newOracle, newAdmin, window, timeout) ==
  /\ ~ Initialized
  /\ oracle' = newOracle
  /\ admin' = newAdmin
  /\ paused' = FALSE
  /\ disputeWindow' = window
  /\ timeoutLedgers' = timeout
  /\ matchCount' = 0
  /\ UNCHANGED <<match, gameOwner, moneyVars, ledger>>

UpdateOracle(newOracle) ==
  /\ Initialized
  /\ oracle' = newOracle
  /\ UNCHANGED <<admin, paused, disputeWindow, timeoutLedgers,
                 recordVars, moneyVars, ledger>>

TransferAdmin(caller, newAdmin) ==
  /\ Initialized
  /\ caller = admin
  /\ newAdmin \notin {ZeroAddress, admin}
  /\ admin' = newAdmin
  /\ UNCHANGED <<oracle, paused, disputeWindow, timeoutLedgers,
                 recordVars, moneyVars, ledger>>

\* pause and unpause; setting the flag to the value it has changes nothing.
SetPaused(flag) ==
  /\ Initialized
  /\ paused' = flag
  /\ UNCHANGED <<oracle, admin, disputeWindow, timeoutLedgers,
                 recordVars, moneyVars, ledger>>

IsPaused == paused

\* The GameId entry is written once and never removed.
GameIdFree_AfterCancel(g) ==
  IF gameOwner[g] = None THEN TRUE ELSE match[gameOwner[g]].state = "Cancelled"
GameIdFree(g) == gameOwner[g] = None

CreateMatch(p1, p2, stake, gameId) ==
  /\ Initialized
  /\ ~ IsPaused
  /\ p1 # p2
  /\ ZeroAddress \notin {p1, p2}
  /\ GameIdFree(gameId)
  /\ matchCount < MaxMatches
  /\ ~ Exists(matchCount)
  /\ match' = [match EXCEPT ![matchCount] =
       [player1 |-> p1, player2 |-> p2, stake |-> stake, gameId |-> gameId,
        state |-> "Pending",
        player1Deposited |-> FALSE, player2Deposited |-> FALSE,
        activatedLedger |-> None, pendingResultLedger |-> None,
        pendingWinner |-> None]]
  /\ gameOwner' = [gameOwner EXCEPT ![gameId] = matchCount]
  /\ matchCount' = matchCount + 1
  /\ UNCHANGED <<roleVars, moneyVars, ledger>>

\* The allowance is what the token contract reports for the caller: an
\* input.  A balance short of the stake makes try_transfer fail.
Deposit(id, p, allowance) ==
  /\ ~ IsPaused
  /\ Exists(id)
  /\ match[id].state = "Pending"
  /\ p \in MatchPlayers(id)
  /\ IF p = match[id].player1 THEN ~ match[id].player1Deposited
                              ELSE ~ match[id].player2Deposited
  /\ allowance >= match[id].stake
  /\ balance[p] >= match[id].stake
  /\ balance' = [balance EXCEPT ![p] = @ - match[id].stake,
                                ![EscrowAddress] = @ + match[id].stake]
  /\ LET first  == match[id].player1Deposited \/ p = match[id].player1
         second == match[id].player2Deposited \/ p # match[id].player1
     IN  match' = [match EXCEPT
           ![id].player1Deposited = first,
           ![id].player2Deposited = second,
           ![id].state = IF first /\ second THEN "Active" ELSE @,
           ![id].activatedLedger = IF first /\ second THEN ledger ELSE @]
  /\ UNCHANGED <<roleVars, matchCount, gameOwner, paid, drained, ledger>>

SubmitResult(id, gameId, winner, caller) ==
  /\ ~ IsPaused
  /\ Initialized
  /\ caller = oracle
  /\ Exists(id)
  /\ match[id].gameId = gameId
  /\ match[id].state = "Active"
  /\ BothDeposited(id)
  /\ match' = [match EXCEPT ![id].state = "PendingResult",
                            ![id].pendingResultLedger = ledger,
                            ![id].pendingWinner = winner]
  /\ UNCHANGED <<roleVars, matchCount, gameOwner, moneyVars, ledger>>

\* The checks of a call that can end a match stand apart from what it writes,
\* so that who may leave, and when, can be reasoned about by itself.
MayOverride(id, winner, caller) ==
  /\ Initialized
  /\ caller = admin
  /\ Exists(id)
  /\ match[id].state = "PendingResult"
  /\ WindowOpen(match[id])
  /\ winner # match[id].pendingWinner

OverrideResult(id, winner, caller) ==
  /\ MayOverride(id, winner, caller)
  /\ match' = [match EXCEPT ![id].pendingWinner = winner]
  /\ UNCHANGED <<roleVars, matchCount, gameOwner, moneyVars, ledger>>

-----------------------------------------------------------------------------
\* ensure_reserve_for_payout
ReserveCovers(total) == balance[EscrowAddress] >= total + Reserve

\* The transfers out of the contract: `amount[p]` to each player p.
PayOut(id, amount, total) ==
  /\ balance' = [a \in Accounts |->
                   IF a = EscrowAddress THEN balance[a] - total
                   ELSE IF a \in Players THEN balance[a] + amount[a]
                   ELSE balance[a]]
  /\ paid' = [paid EXCEPT ![id] = [p \in Players |-> @[p] + amount[p]]]
  /\ UNCHANGED drained

\* Winner takes the pot; a draw returns each stake.
Payout_StakeOnly(m) ==
  [p \in Players |->
     IF \/ m.pendingWinner \in {"Player1", "Draw"} /\ p = m.player1
        \/ m.pendingWinner \in {"Player2", "Draw"} /\ p = m.player2
     THEN m.stake ELSE 0]
Payout_DrawPaysPot(m) ==
  [p \in Players |->
     IF \/ m.pendingWinner \in {"Player1", "Draw"} /\ p = m.player1
        \/ m.pendingWinner \in {"Player2", "Draw"} /\ p = m.player2
     THEN 2 * m.stake ELSE 0]
Payout(m) ==
  [p \in Players |->
     CASE m.pendingWinner = "Player1" -> IF p = m.player1 THEN 2 * m.stake ELSE 0
       [] m.pendingWinner = "Player2" -> IF p = m.player2 THEN 2 * m.stake ELSE 0
       [] OTHER -> IF p \in {m.player1, m.player2} THEN m.stake ELSE 0]

MayFinalize(id, caller) ==
  /\ Exists(id)
  /\ caller \in MatchPlayers(id) \cup {oracle, admin}
  /\ match[id].state = "PendingResult"
  /\ WindowElapsed(match[id])
  /\ match[id].pendingWinner # None
  /\ ReserveCovers(2 * match[id].stake)

FinalizeResult(id, caller) ==
  /\ MayFinalize(id, caller)
  /\ PayOut(id, Payout(match[id]), 2 * match[id].stake)
  /\ match' = [match EXCEPT ![id].state = "Completed"]
  /\ UNCHANGED <<roleVars, matchCount, gameOwner, ledger>>

MayClaim(id, caller) ==
  /\ Exists(id)
  /\ match[id].state = "Active"
  /\ caller \in MatchPlayers(id)
  /\ TimedOut(match[id])
  /\ ReserveCovers(2 * match[id].stake)

ClaimTimeout(id, caller) ==
  /\ MayClaim(id, caller)
  /\ PayOut(id, [p \in Players |->
                   IF p \in MatchPlayers(id) THEN match[id].stake ELSE 0],
            2 * match[id].stake)
  /\ match' = [match EXCEPT ![id].state = "Cancelled"]
  /\ UNCHANGED <<roleVars, matchCount, gameOwner, ledger>>

\* `signers` are the addresses whose authorization the transaction carries.
MayCancel(id, caller, signers) ==
  /\ Exists(id)
  /\ match[id].state \in {"Pending", "Active"}
  /\ caller \in MatchPlayers(id)
  /\ IF match[id].state = "Active" \/ BothDeposited(id)
     THEN MatchPlayers(id) \subseteq signers
     ELSE caller \in signers
  /\ RefundTotal(match[id]) > 0 => ReserveCovers(RefundTotal(match[id]))

CancelMatch(id, caller, signers) ==
  /\ MayCancel(id, caller, signers)
  /\ PayOut(id, Refund(match[id]), RefundTotal(match[id]))
  /\ match' = [match EXCEPT ![id].state = "Cancelled"]
  /\ UNCHANGED <<roleVars, matchCount, gameOwner, ledger>>

EmergencyDrain(caller) ==
  /\ Initialized
  /\ caller = admin
  /\ IsPaused
  /\ \A id \in MatchIds : Exists(id) => match[id].state # "Active"
  /\ balance' = [balance EXCEPT ![SafeAddress] = @ + balance[EscrowAddress],
                                ![EscrowAddress] = 0]
  /\ drained' = (drained \/ balance[EscrowAddress] > 0)
  /\ UNCHANGED <<roleVars, recordVars, paid, ledger>>

\* The network closes a ledger (bounded by MaxLedger).
CloseLedger ==
  /\ ledger < MaxLedger
  /\ ledger' = ledger + 1
  /\ UNCHANGED <<roleVars, recordVars, moneyVars>>

AdminNext ==
  \/ \E o, a \in Officials, w \in Windows, t \in Timeouts : Initialize(o, a, w, t)
  \/ \E o \in Officials : UpdateOracle(o)
  \/ \E c, a \in Officials : TransferAdmin(c, a)
  \/ \E f \in BOOLEAN : SetPaused(f)
  \/ \E c \in Officials : EmergencyDrain(c)

MatchNext ==
  \/ \E p1, p2 \in Players, s \in Stakes, g \in GameIds : CreateMatch(p1, p2, s, g)
  \/ \E id \in MatchIds :
       \/ \E p \in Players, a \in Stakes \cup {0} : Deposit(id, p, a)
       \/ \E g \in GameIds, w \in Winners, c \in Officials : SubmitResult(id, g, w, c)
       \/ \E w \in Winners, c \in Officials : OverrideResult(id, w, c)
       \/ \E c \in Players \cup Officials : FinalizeResult(id, c)
       \/ \E c \in Players : ClaimTimeout(id, c)
       \/ \E c \in Players, s \in SUBSET Players : CancelMatch(id, c, s)

Next == AdminNext \/ MatchNext \/ CloseLedger

Spec == Init /\ [][Next]_vars

\* A ledger always closes, and somebody with a right to it claims what is
\* claimable: a settled pot is worth its stakes to at least one player.
Fairness ==
  /\ WF_vars(CloseLedger)
  /\ \A id \in MatchIds :
       /\ WF_vars(\E c \in Players : FinalizeResult(id, c))
       /\ WF_vars(\E c \in Players : ClaimTimeout(id, c))

FairSpec == Spec /\ Fairness

-----------------------------------------------------------------------------
TypeOK ==
  /\ oracle \in Officials \cup {None}
  /\ admin \in Officials \cup {None}
  /\ paused \in BOOLEAN
  /\ disputeWindow \in Nat
  /\ timeoutLedgers \in Nat
  /\ matchCount \in 0 .. MaxMatches
  /\ match \in [MatchIds -> Match \cup {None}]
  /\ gameOwner \in [GameIds -> MatchIds \cup {None}]
  /\ balance \in [Accounts -> Nat]
  /\ ledger \in Nat
  /\ paid \in [MatchIds -> [Players -> Nat]]
  /\ drained \in BOOLEAN

\* What a match has paid, over its whole life, is what its verdict says:
\* nothing while it is live, the pot to the final winner or each stake on a
\* draw once Completed, exactly the deposits made once Cancelled, and never
\* anything to anyone else.  Rules out paying twice, paying by a superseded
\* verdict, and refunding a stake that was not deposited (finalize_result,
\* claim_timeout, cancel_match, override_result).
PaidRight(m, pay) ==
  \A p \in Players :
    /\ m.state \notin Terminal => pay[p] = 0
    /\ p \notin {m.player1, m.player2} => pay[p] = 0
    /\ m.state = "Completed" =>
         /\ m.player1Deposited /\ m.player2Deposited
         /\ m.pendingWinner = "Draw" /\ p \in {m.player1, m.player2}
              => pay[p] = m.stake
         /\ m.pendingWinner = "Player1" =>
              pay[p] = IF p = m.player1 THEN m.stake + m.stake ELSE 0
         /\ m.pendingWinner = "Player2" =>
              pay[p] = IF p = m.player2 THEN m.stake + m.stake ELSE 0
    /\ m.state = "Cancelled" =>
         /\ p = m.player1 => pay[p] = IF m.player1Deposited THEN m.stake ELSE 0
         /\ p = m.player2 => pay[p] = IF m.player2Deposited THEN m.stake ELSE 0
PaidByVerdict ==
  \A id \in MatchIds :
    IF Exists(id) THEN PaidRight(match[id], paid[id])
                  ELSE \A p \in Players : paid[id][p] = 0

\* Until a drain moves funds, the contract's account holds its float plus
\* what get_escrow_balance reports over all matches, so no match is ever
\* paid from another match's stakes (deposit and the three payout calls).
Owed == MapThenSumSet(EscrowBalance, MatchIds)
Solvency == ~ drained => balance[EscrowAddress] = EscrowFloat + Owed

\* A game backs at most one match, for good: the GameId index and the match
\* records agree in both directions, cancelled matches included
\* (create_match; "each game_id can only be used in a single match").
GameIdIndex ==
  /\ \A g \in GameIds : gameOwner[g] # None =>
       /\ Exists(gameOwner[g])
       /\ match[gameOwner[g]].gameId = g
  /\ \A id \in MatchIds : Exists(id) => gameOwner[match[id].gameId] = id

\* Whatever the admin and the oracle do (rotate, pause, stay silent), a
\* player with a deposit can leave: by cancelling a half-funded match, by
\* mutual cancel or after the timeout from an Active one, and by finalizing
\* once the dispute window is over; before it is over the admin can correct
\* the verdict.  So there is no ledger at which a pending verdict can be
\* neither corrected nor paid, and none at which both are possible.  Needs
\* an undrained account with the reserve the deployment guide asks for, and,
\* for what waits on a deadline, one that fits a u32 (initialize bounds
\* neither the window nor the timeout).
ExitsOpen(Cancel(_, _, _), Claim(_, _), Finalize(_, _), Override(_, _, _)) ==
  ~ drained /\ EscrowFloat >= Reserve =>
    \A id \in MatchIds : Exists(id) =>
      LET m == match[id] IN
        /\ m.state = "Pending" =>
             \A p \in MatchPlayers(id) : Cancel(id, p, {p})
        /\ m.state = "Active" =>
             /\ Cancel(id, m.player1, MatchPlayers(id))
             /\ m.activatedLedger + timeoutLedgers <= MaxU32 =>
                  \A p \in MatchPlayers(id) :
                    ledger > m.activatedLedger + timeoutLedgers <=> Claim(id, p)
        /\ m.state = "PendingResult"
           /\ m.pendingResultLedger + disputeWindow <= MaxU32 =>
             /\ \A p \in MatchPlayers(id) :
                  ledger > m.pendingResultLedger + disputeWindow
                    <=> Finalize(id, p)
             /\ Finalize(id, m.player1)
                  <=> ~ \E w \in Winners : Override(id, w, admin)

\* The exits as TLC sees them: the call itself is enabled.
CanCancel(id, c, signers) == ENABLED CancelMatch(id, c, signers)
CanClaim(id, c)           == ENABLED ClaimTimeout(id, c)
CanFinalize(id, c)        == ENABLED FinalizeResult(id, c)
CanOverride(id, w, c)     == ENABLED OverrideResult(id, w, c)
PlayersCanExit == ExitsOpen(CanCancel, CanClaim, CanFinalize, CanOverride)

\* The same of the calls' checks, after which a call only assigns.
PlayersMayExit == ExitsOpen(MayCancel, MayClaim, MayFinalize, MayOverride)

\* A settled match is final: its record and its payments never change again.
\* A verdict cannot be corrected after its window nor paid within it
\* (override_result, finalize_result).
Final(id) ==
  LET m == match[id]
      late == ledger > m.pendingResultLedger + disputeWindow
  IN  /\ m.state \in Terminal => match'[id] = m /\ paid'[id] = paid[id]
      /\ m.state = "PendingResult" =>
           IF late THEN match'[id].pendingWinner = m.pendingWinner
                   ELSE paid'[id] = paid[id] /\ match'[id].state = m.state
VerdictsAreFinal == [][\A id \in MatchIds : Exists(id) => Final(id)]_vars

\* Every funded match is settled in the end, whatever the oracle and the
\* admin do, unless a drain emptied the account or the deadline lies past
\* the model's last ledger (MaxLedger).
BeyondHorizon(m) ==
  \/ m.state = "Active" /\ m.activatedLedger + timeoutLedgers >= MaxLedger
  \/ m.state = "PendingResult" /\ m.pendingResultLedger + disputeWindow >= MaxLedger
Funded(id) == Exists(id) /\ BothDeposited(id)
Settled(id) ==
  Exists(id) /\ (match[id].state \in Terminal \/ BeyondHorizon(match[id]))
FundedMatchesSettle ==
  \A id \in MatchIds : Funded(id) ~> (Settled(id) \/ drained)

\* The contract implements the abstract pots of Settlement: every call is
\* one stake put in, one pot given back or awarded, or no change at all.
Pots == INSTANCE Settlement WITH
          Pots   <- MatchIds,
          Nobody <- None,
          purse  <- [p \in Players |-> balance[p]],
          stake  <- [id \in MatchIds |->
                       IF Exists(id) /\ match[id].state \notin Terminal
                       THEN Refund(match[id]) ELSE [p \in Players |-> 0]],
          closed <- {id \in MatchIds : Exists(id) /\ match[id].state \in Terminal}
SettlesLikePots == Pots!Spec

-----------------------------------------------------------------------------
(* What a comment in the source says, and the code does not do.            *)

\* lib.rs:1178-1180, on emergency_drain: the admin "must wait for every
\* active match to reach a terminal state".
DrainAwaitsSettlement ==
  [][balance'[SafeAddress] > balance[SafeAddress] =>
       \A id \in MatchIds :
         Exists(id) /\ BothDeposited(id) => match[id].state \in Terminal]_vars
=============================================================================
