---------------------------- MODULE EscrowProofs ----------------------------
(***************************************************************************)
(* Theorems about Escrow, for every set of players and officials, every    *)
(* stake, window and timeout, and every number of matches: what holds of   *)
(* its records and payments, that its account is solvent, and that it      *)
(* implements the pots of Settlement.                                      *)
(***************************************************************************)
EXTENDS Escrow, SumProofs

\* What the record of a match in each state looks like: the part of the
\* inductive invariant that links states, deposits, deadlines and verdicts.
RecordShape(m) ==
  /\ m.player1 # m.player2
  /\ m.state = "Pending" => ~ (m.player1Deposited /\ m.player2Deposited)
  /\ m.state \in {"Active", "PendingResult", "Completed"}
       => m.player1Deposited /\ m.player2Deposited
  /\ m.state = "Active" => m.activatedLedger \in Nat
  /\ m.state \in {"PendingResult", "Completed"} =>
       m.pendingResultLedger \in Nat /\ m.pendingWinner \in Winners

MatchesShape ==
  /\ \A id \in MatchIds : Exists(id) => RecordShape(match[id])
  /\ \A id \in MatchIds : Exists(id) <=> id < matchCount
  /\ oracle = None => matchCount = 0

IInv == TypeOK /\ MatchesShape /\ PaidByVerdict

-----------------------------------------------------------------------------
LEMMA InitTypeOK == Init => TypeOK
<1> SUFFICES ASSUME Init PROVE TypeOK
  OBVIOUS
<1>1. balance \in [Accounts -> Nat]
  BY EscrowAssumption DEF Init
<1>2. match \in [MatchIds -> Match \cup {None}] /\ gameOwner \in [GameIds -> MatchIds \cup {None}]
  BY DEF Init
<1>3. paid \in [MatchIds -> [Players -> Nat]] /\ ledger \in Nat /\ matchCount \in 0 .. MaxMatches
  BY EscrowAssumption DEF Init
<1>4. paused \in BOOLEAN /\ drained \in BOOLEAN
  BY DEF Init
<1>5. /\ oracle \in Officials \cup {None} /\ admin \in Officials \cup {None}
      /\ disputeWindow \in Nat /\ timeoutLedgers \in Nat
  BY DEF Init
<1> QED
  BY <1>1, <1>2, <1>3, <1>4, <1>5 DEF TypeOK

\* A payment keeps balances and payment records well typed.
LEMMA PayOutType ==
  ASSUME TypeOK, NEW id \in MatchIds, NEW amount \in [Players -> Nat],
         NEW total \in Nat, PayOut(id, amount, total),
         total <= balance[EscrowAddress]
  PROVE  balance' \in [Accounts -> Nat] /\ paid' \in [MatchIds -> [Players -> Nat]]
<1>1. balance' \in [Accounts -> Nat]
  BY DEF PayOut, TypeOK, Accounts
<1>2. [p \in Players |-> paid[id][p] + amount[p]] \in [Players -> Nat]
  BY DEF TypeOK
<1>3. paid' = [paid EXCEPT ![id] = [p \in Players |-> paid[id][p] + amount[p]]]
  BY DEF PayOut, TypeOK
<1> QED
  BY <1>1, <1>2, <1>3 DEF TypeOK

LEMMA NextTypeOK == TypeOK /\ [Next]_vars => TypeOK'
<1> SUFFICES ASSUME TypeOK, [Next]_vars PROVE TypeOK'
  OBVIOUS
<1> USE EscrowAssumption DEF TypeOK
<1>1. ASSUME NEW o \in Officials, NEW a \in Officials, NEW w \in Windows,
             NEW t \in Timeouts, Initialize(o, a, w, t)
      PROVE  TypeOK'
  <2>1. /\ oracle' \in Officials \cup {None} /\ admin' \in Officials \cup {None}
        /\ disputeWindow' \in Nat /\ timeoutLedgers' \in Nat
        /\ matchCount' \in 0 .. MaxMatches
    BY <1>1 DEF Initialize
  <2>2. paused' \in BOOLEAN
    BY <1>1 DEF Initialize
  <2> QED
    BY <1>1, <2>1, <2>2 DEF Initialize, moneyVars
<1>2. ASSUME NEW o \in Officials, UpdateOracle(o) PROVE TypeOK'
  BY <1>2 DEF UpdateOracle, recordVars, moneyVars
<1>3. ASSUME NEW c \in Officials, NEW a \in Officials, TransferAdmin(c, a)
      PROVE  TypeOK'
  BY <1>3 DEF TransferAdmin, recordVars, moneyVars
<1>4. ASSUME NEW f \in BOOLEAN, SetPaused(f) PROVE TypeOK'
  BY <1>4 DEF SetPaused, recordVars, moneyVars
<1>5. ASSUME NEW c \in Officials, EmergencyDrain(c) PROVE TypeOK'
  <2>1. balance' \in [Accounts -> Nat]
    <3>1. /\ EscrowAddress \in Accounts /\ SafeAddress \in Accounts
          /\ balance[SafeAddress] + balance[EscrowAddress] \in Nat
      BY DEF Accounts
    <3>2. balance' = [balance EXCEPT
                       ![SafeAddress] = balance[SafeAddress] + balance[EscrowAddress],
                       ![EscrowAddress] = 0]
      BY <1>5 DEF EmergencyDrain
    <3> QED
      BY <3>1, <3>2
  <2>2. drained' \in BOOLEAN
    BY <1>5 DEF EmergencyDrain
  <2> QED
    BY <1>5, <2>1, <2>2 DEF EmergencyDrain, recordVars, roleVars
<1>6. ASSUME NEW p1 \in Players, NEW p2 \in Players, NEW s \in Stakes,
             NEW g \in GameIds, CreateMatch(p1, p2, s, g)
      PROVE  TypeOK'
  BY <1>6 DEF CreateMatch, roleVars, moneyVars, Match, States, MatchIds
<1>7. ASSUME NEW id \in MatchIds, NEW p \in Players, NEW a \in Stakes \cup {0},
             Deposit(id, p, a)
      PROVE  TypeOK'
  <2>1. match[id] \in Match
    BY <1>7 DEF Deposit, Exists
  <2>2. balance' \in [Accounts -> Nat]
    <3>1. /\ p \in Accounts /\ EscrowAddress \in Accounts /\ p # EscrowAddress
          /\ match[id].stake \in Nat
      BY <2>1 DEF Accounts, Match
    <3>2. /\ balance[p] - match[id].stake \in Nat
          /\ balance[EscrowAddress] + match[id].stake \in Nat
      BY <1>7, <3>1 DEF Deposit
    <3>3. balance' = [balance EXCEPT
                       ![p] = balance[p] - match[id].stake,
                       ![EscrowAddress] = balance[EscrowAddress] + match[id].stake]
      BY <1>7, <3>1 DEF Deposit
    <3> QED
      BY <3>1, <3>2, <3>3
  <2>3. PICK first \in BOOLEAN, second \in BOOLEAN :
          match' = [match EXCEPT
            ![id].player1Deposited = first,
            ![id].player2Deposited = second,
            ![id].state = IF first /\ second THEN "Active" ELSE @,
            ![id].activatedLedger = IF first /\ second THEN ledger ELSE @]
    BY <1>7, <2>1, Zenon DEF Deposit, Match
  <2>4. match'[id] \in Match
    BY <2>1, <2>3 DEF Match, States
  <2>5. match' \in [MatchIds -> Match \cup {None}]
    BY <2>3, <2>4
  <2> QED
    BY <1>7, <2>2, <2>5 DEF Deposit, roleVars
<1>8. ASSUME NEW id \in MatchIds, NEW g \in GameIds, NEW w \in Winners,
             NEW c \in Officials, SubmitResult(id, g, w, c)
      PROVE  TypeOK'
  <2>1. match[id] \in Match
    BY <1>8 DEF SubmitResult, Exists
  <2>2. match'[id] \in Match
    BY <1>8, <2>1 DEF SubmitResult, Match, States
  <2>3. match' \in [MatchIds -> Match \cup {None}]
    BY <1>8, <2>2 DEF SubmitResult
  <2> QED
    BY <1>8, <2>3 DEF SubmitResult, roleVars, moneyVars
<1>9. ASSUME NEW id \in MatchIds, NEW w \in Winners, NEW c \in Officials,
             OverrideResult(id, w, c)
      PROVE  TypeOK'
  <2>1. match[id] \in Match
    BY <1>9 DEF OverrideResult, MayOverride, Exists
  <2>2. [match[id] EXCEPT !.pendingWinner = w] \in Match
    BY <2>1 DEF Match
  <2>3. match' \in [MatchIds -> Match \cup {None}]
    BY <1>9, <2>2 DEF OverrideResult
  <2> QED
    BY <1>9, <2>3 DEF OverrideResult, roleVars, moneyVars
<1>10. ASSUME NEW id \in MatchIds, NEW c \in Players \cup Officials, FinalizeResult(id, c)
       PROVE  TypeOK'
  <2>1. match[id] \in Match
    BY <1>10 DEF FinalizeResult, MayFinalize, Exists
  <2>2. [match[id] EXCEPT !.state = "Completed"] \in Match
    BY <2>1 DEF Match, States
  <2>3. match' \in [MatchIds -> Match \cup {None}]
    BY <1>10, <2>2 DEF FinalizeResult
  <2>4. match[id].stake \in Nat
    BY <2>1 DEF Match
  <2>5. Payout(match[id]) \in [Players -> Nat]
    BY <2>4 DEF Payout
  <2>6. 2 * match[id].stake <= balance[EscrowAddress] /\ 2 * match[id].stake \in Nat
    BY <1>10, <2>4 DEF FinalizeResult, MayFinalize, ReserveCovers, Accounts
  <2>7. balance' \in [Accounts -> Nat] /\ paid' \in [MatchIds -> [Players -> Nat]]
    BY <1>10, <2>5, <2>6, PayOutType DEF FinalizeResult
  <2> QED
    BY <1>10, <2>3, <2>7 DEF FinalizeResult, PayOut, roleVars
<1>11. ASSUME NEW id \in MatchIds, NEW c \in Players, ClaimTimeout(id, c)
       PROVE  TypeOK'
  <2>1. match[id] \in Match
    BY <1>11 DEF ClaimTimeout, MayClaim, Exists
  <2>2. [match[id] EXCEPT !.state = "Cancelled"] \in Match
    BY <2>1 DEF Match, States
  <2>3. match' \in [MatchIds -> Match \cup {None}]
    BY <1>11, <2>2 DEF ClaimTimeout
  <2>4. match[id].stake \in Nat
    BY <2>1 DEF Match
  <2>5. [p \in Players |-> IF p \in MatchPlayers(id) THEN match[id].stake ELSE 0]
          \in [Players -> Nat]
    BY <2>4
  <2>6. 2 * match[id].stake <= balance[EscrowAddress] /\ 2 * match[id].stake \in Nat
    BY <1>11, <2>4 DEF ClaimTimeout, MayClaim, ReserveCovers, Accounts
  <2>7. balance' \in [Accounts -> Nat] /\ paid' \in [MatchIds -> [Players -> Nat]]
    BY <1>11, <2>5, <2>6, PayOutType DEF ClaimTimeout
  <2> QED
    BY <1>11, <2>3, <2>7 DEF ClaimTimeout, PayOut, roleVars
<1>12. ASSUME NEW id \in MatchIds, NEW c \in Players, NEW s \in SUBSET Players,
              CancelMatch(id, c, s)
       PROVE  TypeOK'
  <2>1. match[id] \in Match
    BY <1>12 DEF CancelMatch, MayCancel, Exists
  <2>2. [match[id] EXCEPT !.state = "Cancelled"] \in Match
    BY <2>1 DEF Match, States
  <2>3. match' \in [MatchIds -> Match \cup {None}]
    BY <1>12, <2>2 DEF CancelMatch
  <2>4. match[id].stake \in Nat
    BY <2>1 DEF Match
  <2>5. Refund(match[id]) \in [Players -> Nat]
    BY <2>4 DEF Refund
  <2>6. RefundTotal(match[id]) \in Nat
    BY <2>4 DEF RefundTotal
  <2>7. RefundTotal(match[id]) <= balance[EscrowAddress]
    BY <1>12, <2>6 DEF CancelMatch, MayCancel, ReserveCovers, Accounts
  <2>8. balance' \in [Accounts -> Nat] /\ paid' \in [MatchIds -> [Players -> Nat]]
    BY <1>12, <2>5, <2>6, <2>7, PayOutType DEF CancelMatch
  <2> QED
    BY <1>12, <2>3, <2>8 DEF CancelMatch, PayOut, roleVars
<1>13. CASE CloseLedger
  BY <1>13 DEF CloseLedger, roleVars, recordVars, moneyVars
<1>14. CASE UNCHANGED vars
  BY <1>14 DEF vars, roleVars, recordVars, moneyVars
<1> QED
  BY <1>1, <1>2, <1>3, <1>4, <1>5, <1>6, <1>7, <1>8, <1>9, <1>10, <1>11, <1>12,
     <1>13, <1>14 DEF Next, AdminNext, MatchNext

THEOREM TypeCorrect == Spec => []TypeOK
  BY InitTypeOK, NextTypeOK, PTL DEF Spec

-----------------------------------------------------------------------------
(* Payments follow the verdict.                                            *)

\* A call that leaves match records and payments alone keeps the invariant.
LEMMA RecordsUntouched ==
  ASSUME MatchesShape, PaidByVerdict, UNCHANGED <<match, paid, matchCount>>,
         oracle' = None => oracle = None
  PROVE  MatchesShape' /\ PaidByVerdict'
<1>1. MatchesShape'
  BY DEF MatchesShape, Exists
<1>2. PaidByVerdict'
  BY DEF PaidByVerdict, Exists
<1> QED
  BY <1>1, <1>2

\* A call that changes one existing match keeps the invariant if what it
\* makes of that match satisfies it.
LEMMA OneMatchChanged ==
  ASSUME MatchesShape, PaidByVerdict, NEW id \in MatchIds, Exists(id),
         UNCHANGED <<matchCount, oracle>>,
         \A other \in MatchIds \ {id} :
           match'[other] = match[other] /\ paid'[other] = paid[other],
         match'[id] \in Match,
         RecordShape(match'[id]), PaidRight(match'[id], paid'[id])
  PROVE  MatchesShape' /\ PaidByVerdict'
<1>1. match'[id] # None
  BY NoneIsNoMatch
<1>2. MatchesShape'
  BY <1>1 DEF MatchesShape, Exists
<1>3. PaidByVerdict'
  BY <1>1 DEF PaidByVerdict, Exists
<1> QED
  BY <1>2, <1>3

\* A live match has paid nothing, and that is all PaidRight asks of it.
LEMMA LivePaysNothing ==
  ASSUME NEW m, m.state \notin Terminal, NEW pay
  PROVE  PaidRight(m, pay) <=> \A p \in Players : pay[p] = 0
  BY DEF PaidRight, Terminal

\* What a payment leaves in the history of a match that was live.
LEMMA PaymentHistory ==
  ASSUME TypeOK, NEW id \in MatchIds, match[id].state \notin Terminal,
         PaidRight(match[id], paid[id]),
         NEW amount \in [Players -> Nat], NEW total, PayOut(id, amount, total)
  PROVE  /\ \A p \in Players : paid'[id][p] = amount[p]
         /\ \A other \in MatchIds \ {id} : paid'[other] = paid[other]
<1>1. \A p \in Players : paid[id][p] = 0
  BY LivePaysNothing
<1>2. paid' = [paid EXCEPT ![id] = [p \in Players |-> paid[id][p] + amount[p]]]
  BY DEF PayOut, TypeOK
<1> QED
  BY <1>1, <1>2 DEF TypeOK

LEMMA CreateMatchStep ==
  ASSUME IInv, TypeOK', NEW p1 \in Players, NEW p2 \in Players,
         NEW s \in Stakes, NEW g \in GameIds, CreateMatch(p1, p2, s, g)
  PROVE  MatchesShape' /\ PaidByVerdict'
<1> DEFINE new == match'[matchCount]
<1> USE EscrowAssumption
<1>1. matchCount \in MatchIds /\ ~ Exists(matchCount)
  BY DEF CreateMatch, IInv, TypeOK, MatchIds
<1>2. /\ new.player1 = p1 /\ new.player2 = p2 /\ p1 # p2 /\ new.state = "Pending"
      /\ new.player1Deposited = FALSE /\ new.player2Deposited = FALSE
  BY <1>1 DEF CreateMatch, IInv, TypeOK
<1>3. new \in Match
  BY <1>1 DEF CreateMatch, IInv, TypeOK, Match, States
<1>4. new # None
  BY <1>3, NoneIsNoMatch
<1>5. \A other \in MatchIds \ {matchCount} : match'[other] = match[other]
  BY <1>1 DEF CreateMatch, IInv, TypeOK
<1>6. RecordShape(new)
  BY <1>2 DEF RecordShape
<1>7. paid' = paid /\ matchCount' = matchCount + 1 /\ oracle # None /\ oracle' = oracle
  BY DEF CreateMatch, moneyVars, roleVars, Initialized
<1>8. MatchesShape'
  <2>1. \A id \in MatchIds : Exists(id)' => RecordShape(match[id])'
    BY <1>5, <1>6 DEF IInv, MatchesShape, Exists
  <2>2. \A id \in MatchIds : Exists(id)' <=> id < matchCount'
    BY <1>1, <1>4, <1>5, <1>7 DEF IInv, TypeOK, MatchesShape, Exists, MatchIds
  <2> QED
    BY <2>1, <2>2, <1>7 DEF MatchesShape
<1>9. PaidByVerdict'
  <2>1. \A p \in Players : paid'[matchCount][p] = 0
    BY <1>1, <1>7 DEF IInv, PaidByVerdict
  <2>2. PaidRight(new, paid'[matchCount])
    BY <1>2, <2>1, LivePaysNothing DEF Terminal
  <2> QED
    BY <1>1, <1>4, <1>5, <1>7, <2>2 DEF IInv, PaidByVerdict, Exists
<1> QED
  BY <1>8, <1>9

LEMMA DepositStep ==
  ASSUME IInv, TypeOK', NEW id \in MatchIds, NEW p \in Players,
         NEW a \in Stakes \cup {0}, Deposit(id, p, a)
  PROVE  MatchesShape' /\ PaidByVerdict'
<1> DEFINE m == match[id]
           new == match'[id]
<1>1. Exists(id) /\ m.state = "Pending" /\ UNCHANGED <<matchCount, oracle, paid>>
  BY DEF Deposit, roleVars
<1>2. m \in Match /\ RecordShape(m) /\ PaidRight(m, paid[id])
  BY <1>1 DEF IInv, TypeOK, MatchesShape, PaidByVerdict, Exists
<1>3. PICK first \in BOOLEAN, second \in BOOLEAN :
        match' = [match EXCEPT
          ![id].player1Deposited = first,
          ![id].player2Deposited = second,
          ![id].state = IF first /\ second THEN "Active" ELSE @,
          ![id].activatedLedger = IF first /\ second THEN ledger ELSE @]
  BY <1>2, Zenon DEF Deposit, Match
<1>4. /\ new.player1 = m.player1 /\ new.player2 = m.player2
      /\ new.player1Deposited = first /\ new.player2Deposited = second
      /\ new.state = (IF first /\ second THEN "Active" ELSE "Pending")
      /\ first /\ second => new.activatedLedger = ledger
      /\ \A other \in MatchIds \ {id} : match'[other] = match[other]
  BY <1>1, <1>2, <1>3 DEF IInv, TypeOK, Match
<1>5. new \in Match
  BY <1>2, <1>3 DEF IInv, TypeOK, Match, States
<1>6. RecordShape(new)
  <2>1. CASE first /\ second
    BY <2>1, <1>2, <1>4 DEF RecordShape, IInv, TypeOK
  <2>2. CASE ~ (first /\ second)
    BY <2>2, <1>2, <1>4 DEF RecordShape
  <2> QED
    BY <2>1, <2>2
<1>7. PaidRight(new, paid'[id])
  <2>1. new.state \notin Terminal
    BY <1>4 DEF Terminal
  <2>2. \A q \in Players : paid[id][q] = 0
    BY <1>1, <1>2, LivePaysNothing DEF Terminal
  <2> QED
    BY <1>1, <2>1, <2>2, LivePaysNothing
<1> QED
  BY <1>1, <1>4, <1>5, <1>6, <1>7, OneMatchChanged DEF IInv

LEMMA SubmitResultStep ==
  ASSUME IInv, TypeOK', NEW id \in MatchIds, NEW g \in GameIds,
         NEW w \in Winners, NEW c \in Officials, SubmitResult(id, g, w, c)
  PROVE  MatchesShape' /\ PaidByVerdict'
<1> DEFINE m == match[id]
           new == match'[id]
<1>1. Exists(id) /\ m.state = "Active" /\ UNCHANGED <<matchCount, oracle, paid>>
  BY DEF SubmitResult, roleVars, moneyVars
<1>2. m \in Match /\ RecordShape(m) /\ PaidRight(m, paid[id])
  BY <1>1 DEF IInv, TypeOK, MatchesShape, PaidByVerdict, Exists
<1>3. /\ new = [m EXCEPT !.state = "PendingResult", !.pendingResultLedger = ledger,
                         !.pendingWinner = w]
      /\ \A other \in MatchIds \ {id} : match'[other] = match[other]
  BY <1>2 DEF SubmitResult, IInv, TypeOK, Match
<1>4. new \in Match
  BY <1>2, <1>3 DEF IInv, TypeOK, Match, States
<1>5. RecordShape(new)
  BY <1>1, <1>2, <1>3 DEF RecordShape, Match, IInv, TypeOK
<1>6. PaidRight(new, paid'[id])
  <2>1. new.state \notin Terminal
    BY <1>2, <1>3 DEF Terminal, Match
  <2>2. \A q \in Players : paid[id][q] = 0
    BY <1>1, <1>2, LivePaysNothing DEF Terminal
  <2> QED
    BY <1>1, <2>1, <2>2, LivePaysNothing
<1> QED
  BY <1>1, <1>3, <1>4, <1>5, <1>6, OneMatchChanged DEF IInv

LEMMA OverrideResultStep ==
  ASSUME IInv, TypeOK', NEW id \in MatchIds, NEW w \in Winners,
         NEW c \in Officials, OverrideResult(id, w, c)
  PROVE  MatchesShape' /\ PaidByVerdict'
<1> DEFINE m == match[id]
           new == match'[id]
<1>1. Exists(id) /\ m.state = "PendingResult" /\ UNCHANGED <<matchCount, oracle, paid>>
  BY DEF OverrideResult, MayOverride, roleVars, moneyVars
<1>2. m \in Match /\ RecordShape(m) /\ PaidRight(m, paid[id])
  BY <1>1 DEF IInv, TypeOK, MatchesShape, PaidByVerdict, Exists
<1>3. /\ new = [m EXCEPT !.pendingWinner = w]
      /\ \A other \in MatchIds \ {id} : match'[other] = match[other]
  BY <1>2 DEF OverrideResult, IInv, TypeOK, Match
<1>4. new \in Match
  BY <1>2, <1>3 DEF Match, States
<1>5. RecordShape(new)
  BY <1>1, <1>2, <1>3 DEF RecordShape, Match
<1>6. PaidRight(new, paid'[id])
  <2>1. new.state \notin Terminal
    BY <1>1, <1>2, <1>3 DEF Terminal, Match
  <2>2. \A q \in Players : paid[id][q] = 0
    BY <1>1, <1>2, LivePaysNothing DEF Terminal
  <2> QED
    BY <1>1, <2>1, <2>2, LivePaysNothing
<1> QED
  BY <1>1, <1>3, <1>4, <1>5, <1>6, OneMatchChanged DEF IInv

LEMMA FinalizeResultStep ==
  ASSUME IInv, TypeOK', NEW id \in MatchIds, NEW c, FinalizeResult(id, c)
  PROVE  MatchesShape' /\ PaidByVerdict'
<1> DEFINE m == match[id]
           new == match'[id]
<1>1. Exists(id) /\ m.state = "PendingResult" /\ UNCHANGED <<matchCount, oracle>>
  BY DEF FinalizeResult, MayFinalize, roleVars
<1>2. m \in Match /\ RecordShape(m) /\ PaidRight(m, paid[id])
  BY <1>1 DEF IInv, TypeOK, MatchesShape, PaidByVerdict, Exists
<1>3. /\ new = [m EXCEPT !.state = "Completed"]
      /\ \A other \in MatchIds \ {id} : match'[other] = match[other]
  BY <1>2 DEF FinalizeResult, IInv, TypeOK
<1>4. new \in Match
  BY <1>2, <1>3 DEF Match, States
<1>5. RecordShape(new)
  BY <1>1, <1>2, <1>3 DEF RecordShape, Match
<1>6. m.stake \in Nat /\ Payout(m) \in [Players -> Nat]
  <2>1. m.stake \in Nat
    BY <1>2, EscrowAssumption DEF Match
  <2> QED
    BY <2>1 DEF Payout
<1>7. /\ \A p \in Players : paid'[id][p] = Payout(m)[p]
      /\ \A other \in MatchIds \ {id} : paid'[other] = paid[other]
  <2>1. PayOut(id, Payout(m), 2 * m.stake) /\ m.state \notin Terminal
    BY <1>1 DEF FinalizeResult, MayFinalize, Terminal
  <2> HIDE DEF m
  <2>2. TypeOK /\ match[id] = m
    BY DEF IInv, m
  <2> QED
    BY <1>2, <1>6, <2>1, <2>2, PaymentHistory
<1>8. PaidRight(new, paid'[id])
  <2>1. /\ new.state = "Completed" /\ new.pendingWinner = m.pendingWinner
        /\ new.player1 = m.player1 /\ new.player2 = m.player2 /\ new.stake = m.stake
        /\ new.player1Deposited /\ new.player2Deposited
        /\ m.pendingWinner \in Winners /\ m.player1 # m.player2
    BY <1>1, <1>2, <1>3 DEF RecordShape, Match
  <2>2. SUFFICES ASSUME NEW p \in Players
        PROVE  /\ p \notin {m.player1, m.player2} => paid'[id][p] = 0
               /\ m.pendingWinner = "Draw" /\ p \in {m.player1, m.player2}
                    => paid'[id][p] = m.stake
               /\ m.pendingWinner = "Player1" =>
                    paid'[id][p] = IF p = m.player1 THEN m.stake + m.stake ELSE 0
               /\ m.pendingWinner = "Player2" =>
                    paid'[id][p] = IF p = m.player2 THEN m.stake + m.stake ELSE 0
    BY <2>1 DEF PaidRight, Terminal
  <2>3. CASE m.pendingWinner = "Player1"
    BY <1>6, <1>7, <2>1, <2>3 DEF Payout
  <2>4. CASE m.pendingWinner = "Player2"
    BY <1>6, <1>7, <2>1, <2>4 DEF Payout
  <2>5. CASE m.pendingWinner = "Draw"
    BY <1>6, <1>7, <2>1, <2>5 DEF Payout
  <2> QED
    BY <2>1, <2>3, <2>4, <2>5 DEF Winners
<1> QED
  BY <1>1, <1>3, <1>4, <1>5, <1>7, <1>8, OneMatchChanged DEF IInv

LEMMA ClaimTimeoutStep ==
  ASSUME IInv, TypeOK', NEW id \in MatchIds, NEW c, ClaimTimeout(id, c)
  PROVE  MatchesShape' /\ PaidByVerdict'
<1> DEFINE m == match[id]
           new == match'[id]
           amount == [p \in Players |->
                        IF p \in {m.player1, m.player2} THEN m.stake ELSE 0]
<1>1. Exists(id) /\ m.state = "Active" /\ UNCHANGED <<matchCount, oracle>>
  BY DEF ClaimTimeout, MayClaim, roleVars
<1>2. m \in Match /\ RecordShape(m) /\ PaidRight(m, paid[id])
  BY <1>1 DEF IInv, TypeOK, MatchesShape, PaidByVerdict, Exists
<1>3. /\ new = [m EXCEPT !.state = "Cancelled"]
      /\ \A other \in MatchIds \ {id} : match'[other] = match[other]
  BY <1>2 DEF ClaimTimeout, IInv, TypeOK
<1>4. new \in Match
  BY <1>2, <1>3 DEF Match, States
<1>5. RecordShape(new)
  BY <1>1, <1>2, <1>3 DEF RecordShape, Match
<1>6. m.stake \in Nat /\ amount \in [Players -> Nat]
  <2>1. m.stake \in Nat
    BY <1>2, EscrowAssumption DEF Match
  <2> QED
    BY <2>1
<1>7. /\ \A p \in Players : paid'[id][p] = amount[p]
      /\ \A other \in MatchIds \ {id} : paid'[other] = paid[other]
  <2>1. PayOut(id, amount, 2 * m.stake) /\ m.state \notin Terminal
    BY <1>1 DEF ClaimTimeout, MayClaim, Terminal, MatchPlayers
  <2> HIDE DEF m, amount
  <2>2. TypeOK /\ match[id] = m
    BY DEF IInv, m
  <2> QED
    BY <1>2, <1>6, <2>1, <2>2, PaymentHistory
<1>8. PaidRight(new, paid'[id])
  <2>1. /\ new.state = "Cancelled" /\ new.stake = m.stake
        /\ new.player1 = m.player1 /\ new.player2 = m.player2
        /\ new.player1Deposited /\ new.player2Deposited
    BY <1>1, <1>2, <1>3 DEF RecordShape, Match
  <2> QED
    BY <1>7, <2>1 DEF PaidRight, Terminal
<1> QED
  BY <1>1, <1>3, <1>4, <1>5, <1>7, <1>8, OneMatchChanged DEF IInv

LEMMA CancelMatchStep ==
  ASSUME IInv, TypeOK', NEW id \in MatchIds, NEW c, NEW s, CancelMatch(id, c, s)
  PROVE  MatchesShape' /\ PaidByVerdict'
<1> DEFINE m == match[id]
           new == match'[id]
<1>1. /\ Exists(id) /\ m.state \in {"Pending", "Active"}
      /\ UNCHANGED <<matchCount, oracle>>
  BY DEF CancelMatch, MayCancel, roleVars
<1>2. m \in Match /\ RecordShape(m) /\ PaidRight(m, paid[id])
  BY <1>1 DEF IInv, TypeOK, MatchesShape, PaidByVerdict, Exists
<1>3. /\ new = [m EXCEPT !.state = "Cancelled"]
      /\ \A other \in MatchIds \ {id} : match'[other] = match[other]
  BY <1>2 DEF CancelMatch, IInv, TypeOK
<1>4. new \in Match
  BY <1>2, <1>3 DEF Match, States
<1>5. RecordShape(new)
  BY <1>1, <1>2, <1>3 DEF RecordShape, Match
<1>6. m.stake \in Nat /\ Refund(m) \in [Players -> Nat]
  <2>1. m.stake \in Nat
    BY <1>2, EscrowAssumption DEF Match
  <2> QED
    BY <2>1 DEF Refund
<1>7. /\ \A p \in Players : paid'[id][p] = Refund(m)[p]
      /\ \A other \in MatchIds \ {id} : paid'[other] = paid[other]
  <2>1. PayOut(id, Refund(m), RefundTotal(m)) /\ m.state \notin Terminal
    BY <1>1 DEF CancelMatch, MayCancel, Terminal
  <2> HIDE DEF m
  <2>2. TypeOK /\ match[id] = m
    BY DEF IInv, m
  <2> QED
    BY <1>2, <1>6, <2>1, <2>2, PaymentHistory
<1>8. PaidRight(new, paid'[id])
  <2>1. /\ new.state = "Cancelled" /\ new.stake = m.stake
        /\ new.player1 = m.player1 /\ new.player2 = m.player2
        /\ new.player1Deposited = m.player1Deposited
        /\ new.player2Deposited = m.player2Deposited
        /\ m.player1 # m.player2
    BY <1>2, <1>3 DEF RecordShape, Match
  <2>2. \A p \in Players : paid'[id][p] = IF HasDeposited(m, p) THEN m.stake ELSE 0
    BY <1>7 DEF Refund
  <2> QED
    BY <2>1, <2>2 DEF PaidRight, Terminal, HasDeposited
<1> QED
  BY <1>1, <1>3, <1>4, <1>5, <1>7, <1>8, OneMatchChanged DEF IInv

LEMMA InitIInv == Init => IInv
<1> SUFFICES ASSUME Init PROVE IInv
  OBVIOUS
<1>1. \A id \in MatchIds : ~ Exists(id) /\ ~ (id < matchCount)
  BY EscrowAssumption DEF Init, Exists, MatchIds
<1>2. \A id \in MatchIds : \A p \in Players : paid[id][p] = 0
  BY DEF Init
<1>3. MatchesShape
  BY <1>1 DEF MatchesShape, Init
<1>4. PaidByVerdict
  BY <1>1, <1>2 DEF PaidByVerdict
<1> QED
  BY <1>3, <1>4, InitTypeOK DEF IInv

LEMMA NextIInv == IInv /\ [Next]_vars => IInv'
<1> SUFFICES ASSUME IInv, [Next]_vars PROVE IInv'
  OBVIOUS
<1>1. TypeOK'
  BY NextTypeOK DEF IInv
<1>2. MatchesShape' /\ PaidByVerdict'
  <2>1. ASSUME NEW o \in Officials, NEW a \in Officials, NEW w \in Windows,
               NEW t \in Timeouts, Initialize(o, a, w, t)
        PROVE  MatchesShape' /\ PaidByVerdict'
    BY <2>1, RecordsUntouched DEF Initialize, Initialized, moneyVars, IInv, MatchesShape
  <2>2. ASSUME NEW o \in Officials, UpdateOracle(o)
        PROVE  MatchesShape' /\ PaidByVerdict'
    BY <2>2, RecordsUntouched, EscrowAssumption
       DEF UpdateOracle, Initialized, recordVars, moneyVars, IInv
  <2>3. ASSUME NEW c \in Officials, NEW a \in Officials, TransferAdmin(c, a)
        PROVE  MatchesShape' /\ PaidByVerdict'
    BY <2>3, RecordsUntouched DEF TransferAdmin, recordVars, moneyVars, IInv
  <2>4. ASSUME NEW f \in BOOLEAN, SetPaused(f)
        PROVE  MatchesShape' /\ PaidByVerdict'
    BY <2>4, RecordsUntouched DEF SetPaused, recordVars, moneyVars, IInv
  <2>5. ASSUME NEW c \in Officials, EmergencyDrain(c)
        PROVE  MatchesShape' /\ PaidByVerdict'
    BY <2>5, RecordsUntouched DEF EmergencyDrain, recordVars, roleVars, IInv
  <2>6. CASE CloseLedger
    BY <2>6, RecordsUntouched DEF CloseLedger, recordVars, roleVars, moneyVars, IInv
  <2>7. CASE UNCHANGED vars
    BY <2>7, RecordsUntouched DEF vars, recordVars, roleVars, moneyVars, IInv
  <2> QED
    BY <1>1, <2>1, <2>2, <2>3, <2>4, <2>5, <2>6, <2>7, CreateMatchStep, DepositStep,
       SubmitResultStep, OverrideResultStep, FinalizeResultStep, ClaimTimeoutStep,
       CancelMatchStep DEF Next, AdminNext, MatchNext
<1> QED
  BY <1>1, <1>2 DEF IInv

\* Every match pays exactly what its verdict says, once, for every instance
\* (PaidByVerdict), and its record always has the shape of its state.
THEOREM PaymentsFollowVerdicts == Spec => []PaidByVerdict
<1>1. IInv => PaidByVerdict
  BY DEF IInv
<1> QED
  BY InitIInv, NextIInv, <1>1, PTL DEF Spec

THEOREM InductiveInvariant == Spec => []IInv
  BY InitIInv, NextIInv, PTL DEF Spec

-----------------------------------------------------------------------------
(* One game backs one match, and what is settled stays settled.            *)

\* A call on the match `id` keeps its game and touches no other match.
OnlyTouches(id) ==
  /\ Exists(id) /\ Exists(id)' /\ gameOwner' = gameOwner
  /\ match'[id].gameId = match[id].gameId
  /\ \A other \in MatchIds \ {id} : match'[other] = match[other] /\ paid'[other] = paid[other]

LEMMA PaymentIsLocal ==
  ASSUME TypeOK, NEW id \in MatchIds, NEW amount, NEW total, PayOut(id, amount, total)
  PROVE  \A other \in MatchIds \ {id} : paid'[other] = paid[other]
<1>1. paid' = [paid EXCEPT ![id] = [p \in Players |-> paid[id][p] + amount[p]]]
  BY DEF PayOut
<1> QED
  BY <1>1 DEF TypeOK

\* The calls that change one match.
LEMMA CallOnMatch ==
  ASSUME IInv, IInv', NEW id \in MatchIds,
         \/ \E p \in Players, a \in Stakes \cup {0} : Deposit(id, p, a)
         \/ \E g \in GameIds, w \in Winners, c \in Officials : SubmitResult(id, g, w, c)
         \/ \E w \in Winners, c \in Officials : OverrideResult(id, w, c)
         \/ \E c \in Players \cup Officials : FinalizeResult(id, c)
         \/ \E c \in Players : ClaimTimeout(id, c)
         \/ \E c \in Players, s \in SUBSET Players : CancelMatch(id, c, s)
  PROVE  OnlyTouches(id) /\ Final(id)
<1> DEFINE m == match[id]
<1>1. /\ Exists(id) /\ Exists(id)' /\ gameOwner' = gameOwner /\ m \in Match
  <2>1. Exists(id) /\ gameOwner' = gameOwner /\ matchCount' = matchCount
    BY DEF Deposit, SubmitResult, OverrideResult, FinalizeResult, ClaimTimeout, CancelMatch,
           MayOverride, MayFinalize, MayClaim, MayCancel
  <2> QED
    BY <2>1 DEF IInv, TypeOK, MatchesShape, Exists
<1>2. ASSUME NEW p \in Players, NEW a \in Stakes \cup {0}, Deposit(id, p, a)
      PROVE  OnlyTouches(id) /\ Final(id)
  <2>1. PICK first \in BOOLEAN, second \in BOOLEAN :
          match' = [match EXCEPT
            ![id].player1Deposited = first,
            ![id].player2Deposited = second,
            ![id].state = IF first /\ second THEN "Active" ELSE @,
            ![id].activatedLedger = IF first /\ second THEN ledger ELSE @]
    BY <1>1, <1>2, Zenon DEF Deposit, Match
  <2>2. match'[id].gameId = m.gameId
    BY <1>1, <2>1 DEF IInv, TypeOK, Match
  <2>3. \A other \in MatchIds \ {id} : match'[other] = match[other]
    BY <2>1 DEF IInv, TypeOK
  <2>4. m.state = "Pending" /\ paid' = paid
    BY <1>2 DEF Deposit
  <2> QED
    BY <1>1, <2>2, <2>3, <2>4 DEF OnlyTouches, Final, Terminal
<1>3. ASSUME NEW g \in GameIds, NEW w \in Winners, NEW c \in Officials,
             SubmitResult(id, g, w, c)
      PROVE  OnlyTouches(id) /\ Final(id)
  <2>1. /\ match'[id].gameId = m.gameId
        /\ \A other \in MatchIds \ {id} : match'[other] = match[other]
    BY <1>1, <1>3 DEF SubmitResult, IInv, TypeOK, Match
  <2>2. m.state = "Active" /\ paid' = paid
    BY <1>3 DEF SubmitResult, moneyVars
  <2> QED
    BY <1>1, <2>1, <2>2 DEF OnlyTouches, Final, Terminal
<1>4. ASSUME NEW w \in Winners, NEW c \in Officials, OverrideResult(id, w, c)
      PROVE  OnlyTouches(id) /\ Final(id)
  <2>1. /\ match'[id].gameId = m.gameId /\ match'[id].state = m.state
        /\ \A other \in MatchIds \ {id} : match'[other] = match[other]
    BY <1>1, <1>4 DEF OverrideResult, IInv, TypeOK, Match
  <2>2. /\ m.state = "PendingResult" /\ paid' = paid
        /\ ledger <= m.pendingResultLedger + disputeWindow
    BY <1>4 DEF OverrideResult, MayOverride, WindowOpen, moneyVars
  <2>3. m.pendingResultLedger \in Nat /\ disputeWindow \in Nat /\ ledger \in Nat
    BY <1>1, <2>2 DEF IInv, TypeOK, MatchesShape, RecordShape
  <2> QED
    BY <1>1, <2>1, <2>2, <2>3 DEF OnlyTouches, Final, Terminal
<1>5. ASSUME NEW c \in Players \cup Officials, FinalizeResult(id, c)
      PROVE  OnlyTouches(id) /\ Final(id)
  <2>1. /\ match'[id].gameId = m.gameId /\ match'[id].pendingWinner = m.pendingWinner
        /\ \A other \in MatchIds \ {id} : match'[other] = match[other]
    BY <1>1, <1>5 DEF FinalizeResult, IInv, TypeOK, Match
  <2>2. /\ m.state = "PendingResult"
        /\ ledger > m.pendingResultLedger + disputeWindow
        /\ PayOut(id, Payout(m), 2 * m.stake)
    BY <1>5 DEF FinalizeResult, MayFinalize, WindowElapsed
  <2>3. \A other \in MatchIds \ {id} : paid'[other] = paid[other]
    BY <2>2, PaymentIsLocal DEF IInv
  <2> QED
    BY <1>1, <2>1, <2>2, <2>3 DEF OnlyTouches, Final, Terminal
<1>6. ASSUME NEW c \in Players, ClaimTimeout(id, c)
      PROVE  OnlyTouches(id) /\ Final(id)
  <2>1. /\ match'[id].gameId = m.gameId
        /\ \A other \in MatchIds \ {id} : match'[other] = match[other]
    BY <1>1, <1>6 DEF ClaimTimeout, IInv, TypeOK, Match
  <2>2. \A other \in MatchIds \ {id} : paid'[other] = paid[other]
    BY <1>6, PaymentIsLocal DEF ClaimTimeout, IInv
  <2>3. m.state = "Active"
    BY <1>6 DEF ClaimTimeout, MayClaim
  <2> QED
    BY <1>1, <2>1, <2>2, <2>3 DEF OnlyTouches, Final, Terminal
<1>7. ASSUME NEW c \in Players, NEW s \in SUBSET Players, CancelMatch(id, c, s)
      PROVE  OnlyTouches(id) /\ Final(id)
  <2>1. /\ match'[id].gameId = m.gameId
        /\ \A other \in MatchIds \ {id} : match'[other] = match[other]
    BY <1>1, <1>7 DEF CancelMatch, IInv, TypeOK, Match
  <2>2. \A other \in MatchIds \ {id} : paid'[other] = paid[other]
    BY <1>7, PaymentIsLocal DEF CancelMatch, IInv
  <2>3. m.state \in {"Pending", "Active"}
    BY <1>7 DEF CancelMatch, MayCancel
  <2> QED
    BY <1>1, <2>1, <2>2, <2>3 DEF OnlyTouches, Final, Terminal
<1> QED
  BY <1>2, <1>3, <1>4, <1>5, <1>6, <1>7

\* Every other call but create_match leaves all records and payments alone.
LEMMA StepsOfTheContract ==
  ASSUME IInv, IInv', [Next]_vars
  PROVE  \/ \E id \in MatchIds : OnlyTouches(id) /\ Final(id)
         \/ UNCHANGED <<match, gameOwner, paid>>
         \/ \E p1, p2 \in Players, s \in Stakes, g \in GameIds : CreateMatch(p1, p2, s, g)
<1>1. ASSUME AdminNext \/ CloseLedger \/ UNCHANGED vars
      PROVE  UNCHANGED <<match, gameOwner, paid>>
  BY <1>1 DEF AdminNext, Initialize, UpdateOracle, TransferAdmin, SetPaused, EmergencyDrain,
              CloseLedger, vars, recordVars, moneyVars
<1>2. ASSUME MatchNext,
             ~ \E p1, p2 \in Players, s \in Stakes, g \in GameIds : CreateMatch(p1, p2, s, g)
      PROVE  \E id \in MatchIds : OnlyTouches(id) /\ Final(id)
  BY <1>2, CallOnMatch DEF MatchNext
<1> QED
  BY <1>1, <1>2 DEF Next

\* A new match gets an id and a game that were free.
LEMMA CreateMatchTouches ==
  ASSUME IInv, NEW p1 \in Players, NEW p2 \in Players, NEW s \in Stakes, NEW g \in GameIds,
         CreateMatch(p1, p2, s, g)
  PROVE  /\ matchCount \in MatchIds /\ ~ Exists(matchCount) /\ paid' = paid
         /\ gameOwner[g] = None /\ gameOwner' = [gameOwner EXCEPT ![g] = matchCount]
         /\ match'[matchCount] \in Match /\ match'[matchCount].gameId = g
         /\ \A other \in MatchIds \ {matchCount} : match'[other] = match[other]
<1> USE EscrowAssumption
<1>1. matchCount \in MatchIds /\ ~ Exists(matchCount)
  BY DEF CreateMatch, IInv, TypeOK, MatchIds
<1>2. /\ match'[matchCount] \in Match /\ match'[matchCount].gameId = g
      /\ \A other \in MatchIds \ {matchCount} : match'[other] = match[other]
  BY <1>1 DEF CreateMatch, IInv, TypeOK, Match, States
<1> QED
  BY <1>1, <1>2 DEF CreateMatch, GameIdFree, moneyVars

LEMMA NextGameIdIndex ==
  IInv /\ IInv' /\ GameIdIndex /\ [Next]_vars => GameIdIndex'
<1> SUFFICES ASSUME IInv, IInv', GameIdIndex, [Next]_vars PROVE GameIdIndex'
  OBVIOUS
<1>1. ASSUME NEW id \in MatchIds, OnlyTouches(id) PROVE GameIdIndex'
  <2>1. \A other \in MatchIds :
          /\ Exists(other)' <=> Exists(other)
          /\ Exists(other) => match'[other].gameId = match[other].gameId
    BY <1>1 DEF OnlyTouches, Exists
  <2>2. gameOwner' = gameOwner /\ \A g \in GameIds : gameOwner[g] \in MatchIds \cup {None}
    BY <1>1 DEF OnlyTouches, IInv, TypeOK
  <2> QED
    BY <2>1, <2>2 DEF GameIdIndex
<1>2. CASE UNCHANGED <<match, gameOwner, paid>>
  BY <1>2 DEF GameIdIndex, Exists
<1>3. ASSUME NEW p1 \in Players, NEW p2 \in Players, NEW s \in Stakes, NEW g \in GameIds,
             CreateMatch(p1, p2, s, g)
      PROVE  GameIdIndex'
  <2>0. /\ matchCount \in MatchIds /\ ~ Exists(matchCount) /\ gameOwner[g] = None
        /\ gameOwner' = [gameOwner EXCEPT ![g] = matchCount]
        /\ match'[matchCount] \in Match /\ match'[matchCount].gameId = g
        /\ \A other \in MatchIds \ {matchCount} : match'[other] = match[other]
    BY <1>3, CreateMatchTouches
  <2>1. match'[matchCount] # None
    BY <2>0, NoneIsNoMatch
  <2>2. \A h \in GameIds : gameOwner'[h] = IF h = g THEN matchCount ELSE gameOwner[h]
    BY <2>0 DEF IInv, TypeOK
  <2>3. ASSUME NEW h \in GameIds, gameOwner'[h] # None
        PROVE  Exists(gameOwner[h])' /\ match'[gameOwner'[h]].gameId = h
    <3>1. CASE h = g
      BY <2>0, <2>1, <2>2, <3>1 DEF Exists
    <3>2. CASE h # g
      <4>1. /\ gameOwner'[h] = gameOwner[h] /\ gameOwner[h] \in MatchIds
            /\ Exists(gameOwner[h]) /\ match[gameOwner[h]].gameId = h
        BY <2>2, <2>3, <3>2 DEF GameIdIndex, IInv, TypeOK
      <4>2. match'[gameOwner[h]] = match[gameOwner[h]]
        BY <2>0, <4>1
      <4> QED
        BY <4>1, <4>2 DEF Exists
    <3> QED
      BY <3>1, <3>2
  <2>4. \A id \in MatchIds : Exists(id)' => gameOwner'[match'[id].gameId] = id
    <3> SUFFICES ASSUME NEW id \in MatchIds, Exists(id)'
                 PROVE  gameOwner'[match'[id].gameId] = id
      OBVIOUS
    <3>1. CASE id = matchCount
      BY <2>0, <2>2, <3>1
    <3>2. CASE id # matchCount
      <4>0. match'[id] = match[id] /\ Exists(id)
        BY <2>0, <3>2 DEF Exists
      <4>1. match'[id] = match[id] /\ match[id] \in Match /\ gameOwner[match[id].gameId] = id
        BY <4>0 DEF GameIdIndex, Exists, IInv, TypeOK
      <4>2. match[id].gameId # g /\ match[id].gameId \in GameIds
        BY <2>0, <4>1, EscrowAssumption DEF Match, MatchIds
      <4> QED
        BY <2>2, <4>1, <4>2
    <3> QED
      BY <3>1, <3>2
  <2> QED
    BY <2>3, <2>4 DEF GameIdIndex
<1> QED
  BY <1>1, <1>2, <1>3, StepsOfTheContract

\* A game backs at most one match, for good (create_match).
THEOREM OneGameOneMatch == Spec => []GameIdIndex
<1>1. Init => GameIdIndex
  BY DEF Init, GameIdIndex, Exists
<1> QED
  BY <1>1, InitIInv, NextIInv, NextGameIdIndex, PTL DEF Spec

\* A settled match never changes again, and a pending verdict can be
\* corrected only within its window and paid only after it
\* (override_result, finalize_result).
THEOREM SettledForGood == Spec => VerdictsAreFinal
<1>1. IInv /\ IInv' /\ [Next]_vars => \A id \in MatchIds : Exists(id) => Final(id)
  <2> SUFFICES ASSUME IInv, IInv', [Next]_vars, NEW id \in MatchIds, Exists(id)
               PROVE  Final(id)
    OBVIOUS
  <2>1. ASSUME match'[id] = match[id], paid'[id] = paid[id] PROVE Final(id)
    BY <2>1 DEF Final
  <2>2. ASSUME NEW other \in MatchIds, OnlyTouches(other), Final(other) PROVE Final(id)
    BY <2>1, <2>2 DEF OnlyTouches
  <2>3. ASSUME NEW p1 \in Players, NEW p2 \in Players, NEW s \in Stakes, NEW g \in GameIds,
               CreateMatch(p1, p2, s, g)
        PROVE  Final(id)
    BY <2>1, <2>3, CreateMatchTouches
  <2> QED
    BY <2>1, <2>2, <2>3, StepsOfTheContract
<1>2. IInv /\ IInv' /\ [Next]_vars => [\A id \in MatchIds : Exists(id) => Final(id)]_vars
  BY <1>1
<1> QED
  BY <1>2, InitIInv, NextIInv, PTL DEF Spec, VerdictsAreFinal

-----------------------------------------------------------------------------
(* The account holds what the matches are owed.                            *)

\* What the contract owes, match by match, and the sum of it.
Debts == [id \in MatchIds |-> EscrowBalance(id)]
LEMMA MatchIdsFinite == IsFiniteSet(MatchIds)
  BY EscrowAssumption, FS_Interval DEF MatchIds

LEMMA OwedIsSum == Owed = Sum(Debts, MatchIds)
<1> DEFINE Adds(g) ==
      g = [s \in SUBSET MatchIds |->
             IF s = {} THEN 0 ELSE EscrowBalance(Pick(s)) + g[s \ {Pick(s)}]]
<1>1. ASSUME NEW s \in SUBSET MatchIds, s # {}
      PROVE  EscrowBalance(Pick(s)) = Debts[Pick(s)]
  <2>1. Pick(s) \in s
    BY <1>1 DEF Pick
  <2> QED BY <2>1 DEF Debts
<1>2. \A g : Adds(g) <=> Sums(g, Debts, MatchIds)
  BY <1>1 DEF Sums
<1>3. Owed = (CHOOSE g : Adds(g))[MatchIds]
  BY DEF Owed, MapThenSumSet, MapThenFoldSet, Pick
<1>4. (CHOOSE g : Adds(g)) = (CHOOSE g : Sums(g, Debts, MatchIds))
  <2> HIDE DEF Adds
  <2> QED BY <1>2
<1> QED
  BY <1>3, <1>4 DEF Sum
LEMMA DebtType == TypeOK => \A id \in MatchIds : EscrowBalance(id) \in Nat
<1> SUFFICES ASSUME TypeOK, NEW id \in MatchIds PROVE EscrowBalance(id) \in Nat
  OBVIOUS
<1>1. CASE Exists(id)
  <2>1. match[id] \in Match
    BY <1>1 DEF Exists, TypeOK
  <2>2. match[id].stake \in Nat
    BY <2>1, EscrowAssumption DEF Match
  <2> QED BY <2>2 DEF EscrowBalance, RefundTotal
<1>2. CASE ~ Exists(id)
  BY <1>2 DEF EscrowBalance
<1> QED BY <1>1, <1>2

LEMMA DebtTypeNext == TypeOK' => \A id \in MatchIds : EscrowBalance(id)' \in Nat
<1>1. (TypeOK => \A id \in MatchIds : EscrowBalance(id) \in Nat)'
  BY DebtType, PTL
<1> QED BY <1>1

\* What is owed follows the one match that changes.
LEMMA OwedFollowsMatch ==
  ASSUME IInv, IInv', NEW id \in MatchIds,
         \A other \in MatchIds \ {id} : match'[other] = match[other]
  PROVE  Owed' = Owed - EscrowBalance(id) + EscrowBalance(id)'
<1>1. Owed = Sum(Debts, MatchIds) /\ Owed' = Sum(Debts', MatchIds)
  <2>1. (Owed = Sum(Debts, MatchIds))'
    BY OwedIsSum, PTL
  <2> QED BY <2>1, OwedIsSum
<1>2. \A other \in MatchIds : EscrowBalance(other) \in Nat
  BY DebtType DEF IInv
<1>3. \A other \in MatchIds : EscrowBalance(other)' \in Nat
  BY DebtTypeNext DEF IInv
<1>4. /\ \A other \in MatchIds : Debts[other] = EscrowBalance(other)
      /\ \A other \in MatchIds : Debts'[other] = EscrowBalance(other)'
  BY DEF Debts
<1>5. \A other \in MatchIds \ {id} : Debts'[other] = Debts[other]
  BY <1>4 DEF EscrowBalance, Exists
<1>6. PICK f, g : f = Debts /\ g = Debts'
  OBVIOUS
<1>7. /\ \A y \in MatchIds : f[y] \in Int /\ g[y] \in Int
      /\ \A y \in MatchIds \ {id} : g[y] = f[y]
  BY <1>2, <1>3, <1>4, <1>5, <1>6
<1>8. Sum(g, MatchIds) = Sum(f, MatchIds) - f[id] + g[id]
  BY <1>7, MatchIdsFinite, SumChange
<1> QED
  BY <1>1, <1>4, <1>6, <1>8

\* A call that moves what it takes from the match's deposits, or adds to them,
\* keeps the account right.
LEMMA AccountFollowsMatch ==
  ASSUME IInv, IInv', Solvency, NEW id \in MatchIds,
         \A other \in MatchIds \ {id} : match'[other] = match[other],
         drained' = drained,
         balance'[EscrowAddress] - balance[EscrowAddress]
           = EscrowBalance(id)' - EscrowBalance(id)
  PROVE  Solvency'
<1>1. Owed' = Owed - EscrowBalance(id) + EscrowBalance(id)'
  BY OwedFollowsMatch
<1>2. EscrowBalance(id) \in Nat /\ EscrowBalance(id)' \in Nat
  BY DebtType, DebtTypeNext DEF IInv
<1>3. balance[EscrowAddress] \in Nat /\ balance'[EscrowAddress] \in Nat
  BY DEF IInv, TypeOK, Accounts
<1>4. Owed \in Int /\ EscrowFloat \in Nat
  <2>1. \A other \in MatchIds : Debts[other] \in Int
    BY DebtType DEF Debts, IInv
  <2>2. PICK f : f = Debts
    OBVIOUS
  <2>3. Sum(f, MatchIds) \in Int
    BY <2>1, <2>2, MatchIdsFinite, SumType
  <2> QED BY <2>2, <2>3, OwedIsSum, EscrowAssumption
<1> QED
  BY <1>1, <1>2, <1>3, <1>4 DEF Solvency

\* A payment takes what it is told to from the account.
LEMMA PaymentFromAccount ==
  ASSUME IInv, NEW id \in MatchIds, NEW amount, NEW total \in Nat, PayOut(id, amount, total)
  PROVE  drained' = drained /\ balance'[EscrowAddress] - balance[EscrowAddress] = 0 - total
<1>1. balance'[EscrowAddress] = balance[EscrowAddress] - total
  BY DEF PayOut, Accounts
<1>2. balance[EscrowAddress] \in Nat
  BY DEF IInv, TypeOK, Accounts
<1> QED BY <1>1, <1>2 DEF PayOut

\* Every action pays, or takes in, what its match's record says; a drain takes what is left.
LEMMA NextSolvency == IInv /\ IInv' /\ Solvency /\ [Next]_vars => Solvency'
<1> SUFFICES ASSUME IInv, IInv', Solvency, [Next]_vars PROVE Solvency'
  OBVIOUS
<1> USE EscrowAssumption
<1>0. Owed = Sum(Debts, MatchIds) /\ Owed' = Sum(Debts', MatchIds)
  <2>1. (Owed = Sum(Debts, MatchIds))'
    BY OwedIsSum, PTL
  <2> QED BY <2>1, OwedIsSum
<1>1. match' = match => Owed' = Owed
  BY <1>0 DEF Debts, EscrowBalance, Exists
<1>2. CASE AdminNext /\ ~ \E c \in Officials : EmergencyDrain(c)
  <2>1. match' = match /\ balance' = balance /\ drained' = drained
    BY <1>2 DEF AdminNext, Initialize, UpdateOracle, TransferAdmin, SetPaused, recordVars,
               moneyVars
  <2> QED BY <1>1, <2>1 DEF Solvency
<1>3. ASSUME NEW c \in Officials, EmergencyDrain(c) PROVE Solvency'
  <2>1. match' = match /\ (~ drained' => ~ drained /\ ~ (balance[EscrowAddress] > 0))
    BY <1>3 DEF EmergencyDrain, recordVars
  <2>2. balance'[EscrowAddress] = 0 /\ balance[EscrowAddress] \in Nat
    BY <1>3 DEF EmergencyDrain, IInv, TypeOK, Accounts
  <2> QED BY <1>1, <2>1, <2>2 DEF Solvency
<1>4. CASE CloseLedger \/ UNCHANGED vars
  <2>1. match' = match /\ balance' = balance /\ drained' = drained
    BY <1>4 DEF CloseLedger, vars, recordVars, moneyVars
  <2> QED BY <1>1, <2>1 DEF Solvency
<1>5. ASSUME NEW p1 \in Players, NEW p2 \in Players, NEW s \in Stakes, NEW g \in GameIds,
             CreateMatch(p1, p2, s, g)
      PROVE  Solvency'
  <2>1. /\ matchCount \in MatchIds /\ ~ Exists(matchCount)
        /\ \A other \in MatchIds \ {matchCount} : match'[other] = match[other]
    BY <1>5, CreateMatchTouches
  <2>2. balance' = balance /\ drained' = drained
    BY <1>5 DEF CreateMatch, moneyVars
  <2>3. EscrowBalance(matchCount) = 0
    BY <2>1 DEF EscrowBalance
  <2>4. ~ match'[matchCount].player1Deposited /\ ~ match'[matchCount].player2Deposited
    BY <1>5, <2>1 DEF CreateMatch, IInv, TypeOK
  <2>5. PICK id \in MatchIds : id = matchCount
    BY <2>1
  <2>6. EscrowBalance(id)' = 0
    BY <2>4, <2>5 DEF EscrowBalance, RefundTotal
  <2>7. balance[EscrowAddress] \in Nat
    BY DEF IInv, TypeOK, Accounts
  <2> QED BY <2>1, <2>2, <2>3, <2>5, <2>6, <2>7, AccountFollowsMatch
<1>6. ASSUME NEW id \in MatchIds, NEW p \in Players, NEW a \in Stakes \cup {0}, Deposit(id, p, a)
      PROVE  Solvency'
  <2>1. Exists(id) /\ match[id] \in Match /\ RecordShape(match[id]) /\ match[id].state = "Pending"
    BY <1>6 DEF Deposit, Exists, IInv, TypeOK, MatchesShape
  <2>2. OnlyTouches(id) /\ drained' = drained
    BY <1>6, CallOnMatch DEF Deposit
  <2>3. PICK first, second :
          /\ first = (match[id].player1Deposited \/ p = match[id].player1)
          /\ second = (match[id].player2Deposited \/ p # match[id].player1)
    OBVIOUS
  <2>4. match' = [match EXCEPT
            ![id].player1Deposited = first,
            ![id].player2Deposited = second,
            ![id].state = IF first /\ second THEN "Active" ELSE @,
            ![id].activatedLedger = IF first /\ second THEN ledger ELSE @]
    BY <1>6, <2>3, Zenon DEF Deposit
  <2>5. /\ match'[id].player1Deposited = first /\ match'[id].player2Deposited = second
        /\ match'[id].stake = match[id].stake
        /\ match'[id].state \in {"Pending", "Active"}
    BY <2>1, <2>4 DEF IInv, TypeOK, Match
  <2>6. match[id].stake \in Nat
    BY <2>1 DEF Match
  <2>7. /\ p = match[id].player1 => ~ match[id].player1Deposited
        /\ p # match[id].player1 => ~ match[id].player2Deposited
    BY <1>6 DEF Deposit
  <2>8. EscrowBalance(id) = RefundTotal(match[id]) /\ EscrowBalance(id)' = RefundTotal(match'[id])
    BY <2>1, <2>2, <2>5 DEF EscrowBalance, Terminal, OnlyTouches
  <2>9. RefundTotal(match'[id]) - RefundTotal(match[id]) = match[id].stake
    <3>1. CASE p = match[id].player1
      <4>1. first /\ (second <=> match[id].player2Deposited) /\ ~ match[id].player1Deposited
        BY <2>3, <2>7, <3>1
      <4> QED BY <2>5, <2>6, <4>1 DEF RefundTotal
    <3>2. CASE p # match[id].player1
      <4>1. second /\ (first <=> match[id].player1Deposited) /\ ~ match[id].player2Deposited
        BY <2>3, <2>7, <3>2
      <4> QED BY <2>5, <2>6, <4>1 DEF RefundTotal
    <3> QED BY <3>1, <3>2
  <2>10. balance'[EscrowAddress] - balance[EscrowAddress] = match[id].stake
    BY <1>6, <2>6 DEF Deposit, IInv, TypeOK, Accounts
  <2> QED BY <2>2, <2>8, <2>9, <2>10, AccountFollowsMatch DEF OnlyTouches
<1>7. ASSUME NEW id \in MatchIds, OnlyTouches(id), balance' = balance, drained' = drained,
             match[id].state \notin Terminal, match'[id].state \notin Terminal,
             RefundTotal(match'[id]) = RefundTotal(match[id])
      PROVE  Solvency'
  <2>1. EscrowBalance(id)' = EscrowBalance(id) /\ EscrowBalance(id) \in Nat
    BY <1>7, DebtType DEF EscrowBalance, OnlyTouches, IInv
  <2>2. balance[EscrowAddress] \in Nat
    BY DEF IInv, TypeOK, Accounts
  <2> QED BY <1>7, <2>1, <2>2, AccountFollowsMatch DEF OnlyTouches
<1>8. ASSUME NEW id \in MatchIds, NEW g \in GameIds, NEW w \in Winners, NEW c \in Officials,
             SubmitResult(id, g, w, c)
      PROVE  Solvency'
  <2>1. match[id] \in Match
    BY <1>8 DEF SubmitResult, Exists, IInv, TypeOK
  <2>2. /\ OnlyTouches(id) /\ balance' = balance /\ drained' = drained
        /\ match[id].state = "Active"
    BY <1>8, CallOnMatch DEF SubmitResult, moneyVars
  <2>3. /\ match'[id].state = "PendingResult" /\ match'[id].stake = match[id].stake
        /\ match'[id].player1Deposited = match[id].player1Deposited
        /\ match'[id].player2Deposited = match[id].player2Deposited
    BY <1>8, <2>1 DEF SubmitResult, IInv, TypeOK, Match
  <2> QED BY <1>7, <2>2, <2>3 DEF Terminal, RefundTotal
<1>9. ASSUME NEW id \in MatchIds, NEW w \in Winners, NEW c \in Officials,
             OverrideResult(id, w, c)
      PROVE  Solvency'
  <2>1. match[id] \in Match
    BY <1>9 DEF OverrideResult, MayOverride, Exists, IInv, TypeOK
  <2>2. /\ OnlyTouches(id) /\ balance' = balance /\ drained' = drained
        /\ match[id].state = "PendingResult"
    BY <1>9, CallOnMatch DEF OverrideResult, MayOverride, moneyVars
  <2>3. /\ match'[id].state = match[id].state /\ match'[id].stake = match[id].stake
        /\ match'[id].player1Deposited = match[id].player1Deposited
        /\ match'[id].player2Deposited = match[id].player2Deposited
    BY <1>9, <2>1 DEF OverrideResult, IInv, TypeOK, Match
  <2> QED BY <1>7, <2>2, <2>3 DEF Terminal, RefundTotal
<1>10. ASSUME NEW id \in MatchIds, OnlyTouches(id), NEW amount, NEW total \in Nat,
              PayOut(id, amount, total), total = RefundTotal(match[id]),
              match[id].state \notin Terminal, match'[id].state \in Terminal
       PROVE  Solvency'
  <2>1. EscrowBalance(id)' = 0 /\ EscrowBalance(id) = total
    BY <1>10 DEF EscrowBalance, OnlyTouches
  <2>2. drained' = drained /\ balance'[EscrowAddress] - balance[EscrowAddress] = 0 - total
    BY <1>10, PaymentFromAccount
  <2> QED BY <1>10, <2>1, <2>2, AccountFollowsMatch DEF OnlyTouches
<1>11. ASSUME NEW id \in MatchIds, NEW c \in Players \cup Officials, FinalizeResult(id, c)
       PROVE  Solvency'
  <2>1. match[id] \in Match /\ RecordShape(match[id]) /\ match[id].state = "PendingResult"
    BY <1>11 DEF FinalizeResult, MayFinalize, Exists, IInv, TypeOK, MatchesShape
  <2>2. OnlyTouches(id) /\ PayOut(id, Payout(match[id]), 2 * match[id].stake)
    BY <1>11, CallOnMatch DEF FinalizeResult, MayFinalize
  <2>3. match'[id].state = "Completed"
    BY <1>11, <2>1 DEF FinalizeResult, IInv, TypeOK, Match
  <2>0. match[id].stake \in Nat
    BY <2>1 DEF Match
  <2>4. 2 * match[id].stake = RefundTotal(match[id])
    BY <2>0, <2>1 DEF RecordShape, RefundTotal
  <2>5. PICK amount, total : amount = Payout(match[id]) /\ total = 2 * match[id].stake
    OBVIOUS
  <2> QED BY <1>10, <2>0, <2>1, <2>2, <2>3, <2>4, <2>5 DEF Terminal
<1>12. ASSUME NEW id \in MatchIds, NEW c \in Players, ClaimTimeout(id, c)
       PROVE  Solvency'
  <2>1. match[id] \in Match /\ RecordShape(match[id]) /\ match[id].state = "Active"
    BY <1>12 DEF ClaimTimeout, MayClaim, Exists, IInv, TypeOK, MatchesShape
  <2>2. PICK amount, total : PayOut(id, amount, total) /\ total = 2 * match[id].stake
    BY <1>12 DEF ClaimTimeout, MayClaim
  <2>3. OnlyTouches(id)
    BY <1>12, CallOnMatch
  <2>4. match'[id].state = "Cancelled"
    BY <1>12, <2>1 DEF ClaimTimeout, IInv, TypeOK, Match
  <2>0. match[id].stake \in Nat
    BY <2>1 DEF Match
  <2>5. 2 * match[id].stake = RefundTotal(match[id])
    BY <2>0, <2>1 DEF RecordShape, RefundTotal
  <2> QED BY <1>10, <2>0, <2>1, <2>2, <2>3, <2>4, <2>5 DEF Terminal
<1>13. ASSUME NEW id \in MatchIds, NEW c \in Players, NEW s \in SUBSET Players,
              CancelMatch(id, c, s)
       PROVE  Solvency'
  <2>1. match[id] \in Match /\ match[id].state \in {"Pending", "Active"}
    BY <1>13 DEF CancelMatch, MayCancel, Exists, IInv, TypeOK
  <2>2. PICK amount, total : PayOut(id, amount, total) /\ total = RefundTotal(match[id])
    BY <1>13 DEF CancelMatch, MayCancel
  <2>3. OnlyTouches(id)
    BY <1>13, CallOnMatch
  <2>4. match'[id].state = "Cancelled"
    BY <1>13, <2>1 DEF CancelMatch, IInv, TypeOK, Match
  <2>0. match[id].stake \in Nat
    BY <2>1 DEF Match
  <2>5. RefundTotal(match[id]) \in Nat
    BY <2>0 DEF RefundTotal
  <2> QED BY <1>10, <2>0, <2>1, <2>2, <2>3, <2>4, <2>5 DEF Terminal
<1> QED
  BY <1>2, <1>3, <1>4, <1>5, <1>6, <1>8, <1>9, <1>11, <1>12, <1>13 DEF Next, AdminNext, MatchNext

LEMMA InitSolvency == Init => Solvency
<1> SUFFICES ASSUME Init PROVE Solvency
  OBVIOUS
<1>1. \A id \in MatchIds : Debts[id] = 0
  BY DEF Init, Debts, EscrowBalance, Exists
<1>2. PICK f : f = Debts
  OBVIOUS
<1>3. Sum(f, MatchIds) = 0
  BY <1>1, <1>2, MatchIdsFinite, SumOfZeros
<1>4. balance[EscrowAddress] = EscrowFloat /\ EscrowFloat \in Nat
  BY EscrowAssumption DEF Init, Accounts
<1> QED BY <1>2, <1>3, <1>4, OwedIsSum DEF Solvency

\* Until a drain moves funds, the contract's account holds its float and what get_escrow_balance
\* reports over all matches: no match is ever paid from another match's stakes.
THEOREM AccountHoldsStakes == Spec => []Solvency
  BY InitSolvency, NextSolvency, InitIInv, NextIInv, PTL DEF Spec

-----------------------------------------------------------------------------
(* A player with a deposit can leave.                                      *)

\* A solvent account that has its reserve can pay any one match what it holds of it.
LEMMA AccountCoversDebt ==
  ASSUME TypeOK, Solvency, ~ drained, EscrowFloat >= Reserve, NEW id \in MatchIds
  PROVE  EscrowBalance(id) \in Nat /\ ReserveCovers(EscrowBalance(id))
<1> DEFINE rest == MatchIds \ {id}
<1>1. \A x \in MatchIds : Debts[x] = EscrowBalance(x) /\ Debts[x] \in Nat
  BY DebtType DEF Debts
<1>2. Sum(Debts, MatchIds) = Debts[id] + Sum(Debts, rest)
  BY <1>1, MatchIdsFinite, SumTakeOut
<1>3. Sum(Debts, rest) \in Nat
  BY <1>1, MatchIdsFinite, SumMonotone
<1>4. balance[EscrowAddress] = EscrowFloat + Sum(Debts, MatchIds)
  BY OwedIsSum DEF Solvency
<1>5. Debts[id] \in Nat /\ Debts[id] = EscrowBalance(id)
  BY <1>1
<1>6. EscrowFloat + (Debts[id] + Sum(Debts, rest)) >= Debts[id] + Reserve
  BY <1>3, <1>5, EscrowAssumption
<1> QED
  BY <1>2, <1>4, <1>5, <1>6 DEF ReserveCovers

\* What such an account owes a match that holds both stakes.
LEMMA PotIsCovered ==
  ASSUME IInv, Solvency, ~ drained, EscrowFloat >= Reserve, NEW id \in MatchIds,
         Exists(id), match[id].state \in {"Active", "PendingResult"}
  PROVE  ReserveCovers(2 * match[id].stake)
<1>1. match[id] \in Match /\ RecordShape(match[id])
  BY DEF IInv, TypeOK, MatchesShape, Exists
<1>2. match[id].stake \in Nat
  BY <1>1, EscrowAssumption DEF Match
<1>3. EscrowBalance(id) = match[id].stake + match[id].stake
  BY <1>1 DEF EscrowBalance, RecordShape, RefundTotal, Terminal
<1>4. EscrowBalance(id) = 2 * match[id].stake
  BY <1>2, <1>3
<1> QED
  BY <1>4, AccountCoversDebt DEF IInv

\* A match that waits for a stake, or for its result, can be cancelled.
LEMMA CancelIsOpen ==
  ASSUME IInv, Solvency, ~ drained, EscrowFloat >= Reserve, NEW id \in MatchIds, Exists(id)
  PROVE  /\ match[id].state = "Pending" =>
              \A p \in MatchPlayers(id) : MayCancel(id, p, {p})
         /\ match[id].state = "Active" =>
              MayCancel(id, match[id].player1, MatchPlayers(id))
<1>1. RecordShape(match[id])
  BY DEF IInv, MatchesShape
<1>2. match[id].state \in {"Pending", "Active"} => ReserveCovers(RefundTotal(match[id]))
  BY AccountCoversDebt DEF IInv, EscrowBalance, Terminal
<1>3. ASSUME match[id].state = "Pending", NEW p \in MatchPlayers(id)
      PROVE  MayCancel(id, p, {p})
  BY <1>1, <1>2, <1>3 DEF MayCancel, BothDeposited, RecordShape
<1>4. ASSUME match[id].state = "Active"
      PROVE  MayCancel(id, match[id].player1, MatchPlayers(id))
  BY <1>2, <1>4 DEF MayCancel, MatchPlayers
<1> QED
  BY <1>3, <1>4

\* An Active match times out exactly when its deadline has passed.
LEMMA ClaimIsOpen ==
  ASSUME IInv, Solvency, ~ drained, EscrowFloat >= Reserve, NEW id \in MatchIds, Exists(id),
         match[id].state = "Active", match[id].activatedLedger + timeoutLedgers <= MaxU32
  PROVE  \A p \in MatchPlayers(id) :
           ledger > match[id].activatedLedger + timeoutLedgers <=> MayClaim(id, p)
  BY PotIsCovered DEF MayClaim, TimedOut

\* A verdict is either payable, to any player of the match, or correctable, and never both.
LEMMA VerdictIsOpen ==
  ASSUME IInv, Solvency, ~ drained, EscrowFloat >= Reserve, NEW id \in MatchIds, Exists(id),
         match[id].state = "PendingResult",
         match[id].pendingResultLedger + disputeWindow <= MaxU32
  PROVE  /\ \A p \in MatchPlayers(id) :
              ledger > match[id].pendingResultLedger + disputeWindow <=> MayFinalize(id, p)
         /\ MayFinalize(id, match[id].player1)
              <=> ~ \E w \in Winners : MayOverride(id, w, admin)
<1> DEFINE deadline == match[id].pendingResultLedger + disputeWindow
<1>1. match[id] \in Match /\ RecordShape(match[id])
  BY DEF IInv, TypeOK, MatchesShape, Exists
<1>2. match[id].pendingWinner \in Winners /\ match[id].pendingWinner # None
  BY <1>1, NoneIsNoWinner DEF RecordShape
<1>3. deadline \in Nat /\ ledger \in Nat
  BY <1>1 DEF RecordShape, IInv, TypeOK
<1>4. \A p \in MatchPlayers(id) : ledger > deadline <=> MayFinalize(id, p)
  BY <1>2, PotIsCovered DEF MayFinalize, WindowElapsed
<1>5. Initialized
  BY EscrowAssumption DEF Initialized, IInv, TypeOK, MatchesShape, MatchIds
<1>6. \E w \in Winners : w # match[id].pendingWinner
  BY DEF Winners
<1>7. ledger <= deadline <=> \E w \in Winners : MayOverride(id, w, admin)
  BY <1>5, <1>6 DEF MayOverride, WindowOpen
<1>8. match[id].player1 \in MatchPlayers(id)
  BY DEF MatchPlayers
<1>9. ledger > deadline <=> ~ (ledger <= deadline)
  BY <1>3
<1> QED
  BY <1>4, <1>7, <1>8, <1>9

\* In every unfinished funded match a call open to its players passes all its checks, or the
\* admin can still correct the verdict, for every window, timeout and number of matches: the
\* checks of PlayersCanExit, without ENABLED.
THEOREM ExitsStayOpen == Spec => []PlayersMayExit
<1>1. IInv /\ Solvency => PlayersMayExit
  BY CancelIsOpen, ClaimIsOpen, VerdictIsOpen DEF PlayersMayExit, ExitsOpen
<1> QED
  BY <1>1, InductiveInvariant, AccountHoldsStakes, PTL

-----------------------------------------------------------------------------
(* The contract implements the pots of Settlement.                         *)

\* The refinement mapping: the values Pots substitutes for its variables.
Purse == [p \in Players |-> balance[p]]
Staked(id) ==
  IF Exists(id) /\ match[id].state \notin Terminal
  THEN Refund(match[id]) ELSE [p \in Players |-> 0]
Closed == {id \in MatchIds : Exists(id) /\ match[id].state \in Terminal}
AtRisk == [id \in MatchIds |-> Staked(id)]

LEMMA RecordType ==
  ASSUME TypeOK, NEW id \in MatchIds, Exists(id)
  PROVE  /\ match[id] \in Match /\ match[id].stake \in Nat /\ match[id].stake > 0
         /\ match[id].player1 \in Players /\ match[id].player2 \in Players
<1>1. match[id] \in Match
  BY DEF TypeOK, Exists
<1>2. /\ match[id].stake \in Stakes
      /\ match[id].player1 \in Players /\ match[id].player2 \in Players
  BY <1>1 DEF Match
<1>3. match[id].stake \in Nat /\ match[id].stake # 0
  BY <1>2, EscrowAssumption
<1> QED
  BY <1>1, <1>2, <1>3

LEMMA MappingOfInit == Init => Pots!Init
<1> SUFFICES ASSUME Init PROVE Pots!Init
  OBVIOUS
<1>1. \A p \in Players : balance[p] = InitialBalance
  BY EscrowAssumption DEF Init, Accounts
<1>2. \A id \in MatchIds : ~ Exists(id)
  BY DEF Init, Exists
<1> QED
  BY <1>1, <1>2 DEF Pots!Init

\* A step that moves no player's money and leaves every pot as it is.
LEMMA Stutters ==
  ASSUME \A p \in Players : balance'[p] = balance[p],
         \A id \in MatchIds : Staked(id)' = Staked(id),
         Closed' = Closed
  PROVE  UNCHANGED Pots!vars
  BY DEF Pots!vars, Staked, Closed

\* Closing one match and paying its players is a step of its pot.
LEMMA ClosesPot ==
  ASSUME IInv, IInv', NEW id \in MatchIds, Exists(id), match[id].state \notin Terminal,
         OnlyTouches(id), match'[id].state \in Terminal,
         NEW amount \in [Players -> Nat],
         \A p \in Players : balance'[p] = balance[p] + amount[p],
         \/ amount = Refund(match[id])
         \/ \E w, l \in Players :
              /\ w # l /\ {w, l} = {match[id].player1, match[id].player2}
              /\ BothDeposited(id)
              /\ amount = [p \in Players |-> IF p = w THEN 2 * match[id].stake ELSE 0]
  PROVE  Pots!Next
<1> DEFINE m == match[id]
<1>1. m \in Match /\ m.stake \in Nat /\ m.stake > 0
  BY RecordType DEF IInv
<1>2. /\ Staked(id) = Refund(m) /\ Staked(id)' = [p \in Players |-> 0]
      /\ \A other \in MatchIds \ {id} : Staked(other)' = Staked(other)
  BY DEF Staked, OnlyTouches, Exists
<1>3. id \notin Closed /\ Closed' = Closed \cup {id}
  BY DEF Closed, OnlyTouches, Exists
<1>4. AtRisk' = [AtRisk EXCEPT ![id] = [p \in Players |-> 0]]
  BY <1>2 DEF AtRisk
<1>5. Pots!Close(id)
  BY <1>3, <1>4 DEF Pots!Close, AtRisk, Staked, Closed
<1>6. CASE amount = Refund(m)
  <2>1. Purse' = [p \in Players |-> Purse[p] + AtRisk[id][p]]
    BY <1>2, <1>6 DEF Purse, AtRisk
  <2>2. Pots!GiveBack(id)
    BY <1>5, <2>1 DEF Pots!GiveBack, Purse, AtRisk, Staked
  <2> QED
    BY <2>2 DEF Pots!Next
<1>7. ASSUME NEW w \in Players, NEW l \in Players,
             w # l, {w, l} = {m.player1, m.player2}, BothDeposited(id),
             amount = [p \in Players |-> IF p = w THEN 2 * m.stake ELSE 0]
      PROVE  Pots!Next
  <2>1. \A p \in Players : Refund(m)[p] = IF p \in {w, l} THEN m.stake ELSE 0
    BY <1>7 DEF Refund, HasDeposited, BothDeposited
  <2>2. \A p \in Players : AtRisk[id][p] = IF p \in {w, l} THEN m.stake ELSE 0
    BY <1>2, <2>1 DEF AtRisk
  <2>3. {p \in Players : AtRisk[id][p] > 0} = {w, l}
    BY <1>1, <2>2
  <2>4. Purse' = [Purse EXCEPT ![w] = Purse[w] + AtRisk[id][w] + AtRisk[id][l]]
    <3>1. \A p \in Players : balance[p] \in Nat
      BY DEF IInv, TypeOK, Accounts
    <3>2. Purse \in [Players -> Nat] /\ Purse' = [p \in Players |-> Purse[p] + amount[p]]
      BY <3>1 DEF Purse
    <3>3. /\ AtRisk[id][w] = m.stake /\ AtRisk[id][l] = m.stake
          /\ \A p \in Players : amount[p] = IF p = w THEN 2 * m.stake ELSE 0
      BY <1>7, <2>2
    <3>4. \A p \in Players :
            Purse'[p] = IF p = w THEN Purse[w] + m.stake + m.stake ELSE Purse[p]
      BY <1>1, <3>2, <3>3
    <3> HIDE DEF Purse, AtRisk
    <3> QED
      BY <3>2, <3>3, <3>4
  <2>5. Pots!Award(id, w, l)
    BY <1>5, <1>7, <2>3, <2>4 DEF Pots!Award, Pots!Stakers, Purse, AtRisk, Staked
  <2> QED
    BY <2>5 DEF Pots!Next
<1> QED
  BY <1>6, <1>7

\* A deposit puts one stake in.
LEMMA DepositPuts ==
  ASSUME IInv, IInv', NEW id \in MatchIds, NEW p \in Players, NEW a \in Stakes \cup {0},
         Deposit(id, p, a)
  PROVE  Pots!Next
<1> DEFINE m == match[id]
           new == match'[id]
<1>1. /\ Exists(id) /\ m.state = "Pending" /\ p \in {m.player1, m.player2}
      /\ balance[p] >= m.stake
      /\ IF p = m.player1 THEN ~ m.player1Deposited ELSE ~ m.player2Deposited
  BY DEF Deposit, MatchPlayers
<1>2. /\ m \in Match /\ m.player1 # m.player2
      /\ ~ (m.player1Deposited /\ m.player2Deposited)
  BY <1>1 DEF IInv, TypeOK, Exists, MatchesShape, RecordShape
<1>3. m.stake \in Nat /\ m.stake > 0 /\ m.player1 \in Players /\ m.player2 \in Players
  BY <1>1, RecordType DEF IInv
<1>4. OnlyTouches(id)
  BY CallOnMatch
<1>5. /\ new.player1 = m.player1 /\ new.player2 = m.player2 /\ new.stake = m.stake
      /\ new.player1Deposited = (m.player1Deposited \/ p = m.player1)
      /\ new.player2Deposited = (m.player2Deposited \/ p # m.player1)
      /\ new.state \in {"Pending", "Active"}
  <2> DEFINE first == m.player1Deposited \/ p = m.player1
             second == m.player2Deposited \/ p # m.player1
  <2>1. match' = [match EXCEPT
          ![id].player1Deposited = first,
          ![id].player2Deposited = second,
          ![id].state = IF first /\ second THEN "Active" ELSE @,
          ![id].activatedLedger = IF first /\ second THEN ledger ELSE @]
    BY DEF Deposit
  <2> HIDE DEF first, second
  <2>2. /\ new.player1 = m.player1 /\ new.player2 = m.player2 /\ new.stake = m.stake
        /\ new.player1Deposited = first /\ new.player2Deposited = second
        /\ new.state \in {"Pending", "Active"}
    BY <1>1, <1>2, <2>1 DEF IInv, TypeOK, Match
  <2> QED
    BY <2>2 DEF first, second
<1>6. \A q \in Players : Refund(new)[q] = IF q = p THEN m.stake ELSE Refund(m)[q]
  BY <1>1, <1>2, <1>5 DEF Refund, HasDeposited
<1>7. Refund(m)[p] = 0
  BY <1>1, <1>2 DEF Refund, HasDeposited
<1>8. \A q \in Players : Refund(m)[q] = 0 \/ (Refund(m)[q] = m.stake /\ q # p)
  BY <1>7 DEF Refund
<1>9. /\ Staked(id) = Refund(m) /\ Staked(id)' = Refund(new)
      /\ \A other \in MatchIds \ {id} : Staked(other)' = Staked(other)
      /\ Closed' = Closed /\ id \notin Closed
  BY <1>1, <1>4, <1>5 DEF Staked, Closed, OnlyTouches, Exists, Terminal
<1>10. AtRisk' = [AtRisk EXCEPT ![id] = [AtRisk[id] EXCEPT ![p] = m.stake]]
  <2>1. Refund(new) = [Refund(m) EXCEPT ![p] = m.stake]
    BY <1>6 DEF Refund
  <2> QED
    BY <1>9, <2>1 DEF AtRisk
<1>11. Purse' = [Purse EXCEPT ![p] = Purse[p] - m.stake]
  <2>1. balance' = [balance EXCEPT ![p] = balance[p] - m.stake,
                       ![EscrowAddress] = balance[EscrowAddress] + m.stake]
    BY EscrowAssumption DEF Deposit, IInv, TypeOK, Accounts
  <2> QED
    BY <2>1, EscrowAssumption DEF Purse, IInv, TypeOK, Accounts
<1>12. PICK first \in Players : first # p /\ first \in {m.player1, m.player2}
  BY <1>2, <1>3
<1>13. \A q \in Players : AtRisk[id][q] > 0 => q = first
  BY <1>1, <1>2, <1>3, <1>8, <1>9, <1>12 DEF AtRisk, Refund, HasDeposited
<1>14. PICK amount \in Nat : amount = m.stake
  BY <1>3
<1>15. Pots!Put(id, p, amount)
  <2>1. p \notin Pots!Stakers(id) /\ Pots!Stakers(id) \subseteq {first}
    BY <1>7, <1>9, <1>13 DEF Pots!Stakers, AtRisk, Staked
  <2>2. first \in Pots!Stakers(id) => Staked(id)[first] = amount
    BY <1>8, <1>9, <1>14 DEF Pots!Stakers, Staked
  <2>3. amount > 0 /\ amount <= Purse[p]
    BY <1>1, <1>3, <1>14 DEF Purse, IInv, TypeOK, Accounts
  <2>4. /\ AtRisk' = [AtRisk EXCEPT ![id] = [AtRisk[id] EXCEPT ![p] = amount]]
        /\ Purse' = [Purse EXCEPT ![p] = Purse[p] - amount]
    BY <1>10, <1>11, <1>14
  <2> QED
    BY <1>9, <2>1, <2>2, <2>3, <2>4 DEF Pots!Put, AtRisk, Staked, Purse, Closed
<1>16. amount \in 1 .. [q \in Players |-> balance[q]][p]
  <2>1. balance[p] \in Nat
    BY DEF IInv, TypeOK, Accounts
  <2> QED
    BY <1>1, <1>3, <1>14, <2>1
<1> QED
  BY <1>15, <1>16 DEF Pots!Next

\* What a payment does to the purses.
LEMMA PaymentFills ==
  ASSUME NEW id, NEW amount, NEW total, PayOut(id, amount, total)
  PROVE  \A p \in Players : balance'[p] = balance[p] + amount[p]
  BY EscrowAssumption DEF PayOut, Accounts

\* The verdict's payout is one of the two ways a pot may close.
LEMMA FinalizeCloses ==
  ASSUME IInv, IInv', NEW id \in MatchIds, NEW c \in Players \cup Officials,
         FinalizeResult(id, c)
  PROVE  Pots!Next
<1> DEFINE m == match[id]
<1>1. /\ Exists(id) /\ m.state = "PendingResult" /\ PayOut(id, Payout(m), 2 * m.stake)
      /\ match' = [match EXCEPT ![id].state = "Completed"]
  BY DEF FinalizeResult, MayFinalize
<1>2. /\ m \in Match /\ m.stake \in Nat /\ m.player1 \in Players /\ m.player2 \in Players
  BY <1>1, RecordType DEF IInv
<1>3. /\ m.player1 # m.player2 /\ m.player1Deposited /\ m.player2Deposited
      /\ m.pendingWinner \in Winners
  BY <1>1 DEF IInv, MatchesShape, RecordShape
<1>4. m.state \notin Terminal /\ match'[id].state \in Terminal
  BY <1>1, <1>2 DEF Terminal, IInv, TypeOK, Match
<1>5. OnlyTouches(id)
  BY CallOnMatch
<1>6. Payout(m) \in [Players -> Nat]
  BY <1>2 DEF Payout
<1>7. \A p \in Players : balance'[p] = balance[p] + Payout(m)[p]
  BY <1>1, PaymentFills
<1>8. CASE m.pendingWinner = "Player1"
  <2>1. Payout(m) = [p \in Players |-> IF p = m.player1 THEN 2 * m.stake ELSE 0]
    BY <1>8 DEF Payout
  <2> QED
    BY <1>1, <1>2, <1>3, <1>4, <1>5, <1>6, <1>7, <2>1, ClosesPot DEF BothDeposited
<1>9. CASE m.pendingWinner = "Player2"
  <2>1. Payout(m) = [p \in Players |-> IF p = m.player2 THEN 2 * m.stake ELSE 0]
    BY <1>9 DEF Payout
  <2>2. {m.player2, m.player1} = {m.player1, m.player2}
    OBVIOUS
  <2> QED
    BY <1>1, <1>2, <1>3, <1>4, <1>5, <1>6, <1>7, <2>1, <2>2, ClosesPot DEF BothDeposited
<1>10. CASE m.pendingWinner = "Draw"
  <2>1. Payout(m) = Refund(m)
    BY <1>3, <1>10 DEF Payout, Refund, HasDeposited
  <2> QED
    BY <1>1, <1>4, <1>5, <1>6, <1>7, <2>1, ClosesPot
<1> QED
  BY <1>3, <1>8, <1>9, <1>10 DEF Winners

\* Timeouts and cancellations give every stake back.
LEMMA RefundCloses ==
  ASSUME IInv, IInv', NEW id \in MatchIds,
         \/ \E c \in Players : ClaimTimeout(id, c)
         \/ \E c \in Players, s \in SUBSET Players : CancelMatch(id, c, s)
  PROVE  Pots!Next
<1> DEFINE m == match[id]
<1>1. /\ Exists(id) /\ m.state \in {"Pending", "Active"}
      /\ match' = [match EXCEPT ![id].state = "Cancelled"]
  BY DEF ClaimTimeout, MayClaim, CancelMatch, MayCancel
<1>2. /\ m \in Match /\ m.stake \in Nat
  BY <1>1, RecordType DEF IInv
<1>3. m.state \notin Terminal /\ match'[id].state \in Terminal
  BY <1>1, <1>2 DEF Terminal, IInv, TypeOK, Match
<1>4. OnlyTouches(id)
  BY CallOnMatch
<1>5. Refund(m) \in [Players -> Nat]
  BY <1>2 DEF Refund
<1>6. \A p \in Players : balance'[p] = balance[p] + Refund(m)[p]
  <2>1. ASSUME NEW c \in Players, ClaimTimeout(id, c)
        PROVE  \E total : PayOut(id, Refund(m), total)
    <3>1. m.player1Deposited /\ m.player2Deposited
      BY <1>1, <2>1 DEF ClaimTimeout, MayClaim, IInv, MatchesShape, RecordShape
    <3>2. [p \in Players |-> IF p \in MatchPlayers(id) THEN m.stake ELSE 0] = Refund(m)
      BY <3>1 DEF Refund, HasDeposited, MatchPlayers
    <3> QED
      BY <2>1, <3>2 DEF ClaimTimeout, MayClaim
  <2>2. ASSUME NEW c \in Players, NEW s \in SUBSET Players, CancelMatch(id, c, s)
        PROVE  \E total : PayOut(id, Refund(m), total)
    BY <2>2 DEF CancelMatch, MayCancel
  <2>3. \E total : PayOut(id, Refund(m), total)
    BY <2>1, <2>2
  <2> QED
    BY <2>3, PaymentFills
<1> QED
  BY <1>1, <1>3, <1>4, <1>5, <1>6, ClosesPot

\* A report or its correction moves no money.
LEMMA VerdictStutters ==
  ASSUME IInv, IInv', NEW id \in MatchIds,
         \/ \E g \in GameIds, w \in Winners, c \in Officials : SubmitResult(id, g, w, c)
         \/ \E w \in Winners, c \in Officials : OverrideResult(id, w, c)
  PROVE  UNCHANGED Pots!vars
<1> DEFINE m == match[id]
           new == match'[id]
<1>1. Exists(id) /\ m.state \in {"Active", "PendingResult"} /\ balance' = balance
  BY DEF SubmitResult, OverrideResult, MayOverride, moneyVars
<1>2. m \in Match
  BY <1>1, RecordType DEF IInv
<1>3. OnlyTouches(id)
  BY CallOnMatch
<1>4. /\ new.player1 = m.player1 /\ new.player2 = m.player2 /\ new.stake = m.stake
      /\ new.player1Deposited = m.player1Deposited
      /\ new.player2Deposited = m.player2Deposited
      /\ new.state = "PendingResult"
  BY <1>1, <1>2 DEF SubmitResult, OverrideResult, MayOverride, IInv, TypeOK, Match
<1>5. Refund(new) = Refund(m)
  BY <1>4 DEF Refund, HasDeposited
<1>6. \A other \in MatchIds : Staked(other)' = Staked(other)
  BY <1>1, <1>3, <1>4, <1>5 DEF Staked, OnlyTouches, Exists, Terminal
<1>7. Closed' = Closed
  BY <1>1, <1>3, <1>4 DEF Closed, OnlyTouches, Exists, Terminal
<1> QED
  BY <1>1, <1>6, <1>7, Stutters

\* A new match is an empty pot.
LEMMA CreateStutters ==
  ASSUME IInv, NEW p1 \in Players, NEW p2 \in Players, NEW s \in Stakes, NEW g \in GameIds,
         CreateMatch(p1, p2, s, g)
  PROVE  UNCHANGED Pots!vars
<1> DEFINE new == match'[matchCount]
<1>1. /\ matchCount \in MatchIds /\ ~ Exists(matchCount)
      /\ \A other \in MatchIds \ {matchCount} : match'[other] = match[other]
  BY CreateMatchTouches
<1>2. /\ new.state = "Pending" /\ ~ new.player1Deposited /\ ~ new.player2Deposited
      /\ balance' = balance
  BY <1>1 DEF CreateMatch, IInv, TypeOK, moneyVars
<1>3. Refund(new) = [p \in Players |-> 0]
  BY <1>2 DEF Refund, HasDeposited
<1>4. \A id \in MatchIds : Staked(id)' = Staked(id)
  BY <1>1, <1>2, <1>3 DEF Staked, Exists
<1>5. Closed' = Closed
  BY <1>1, <1>2 DEF Closed, Exists, Terminal
<1> QED
  BY <1>2, <1>4, <1>5, Stutters

\* So does what the admin and the network do: a drain takes from the
\* contract's account, which is no player's purse.
LEMMA AdminStutters ==
  ASSUME IInv, AdminNext \/ CloseLedger \/ UNCHANGED vars
  PROVE  UNCHANGED Pots!vars
<1>1. match' = match
  BY DEF AdminNext, Initialize, UpdateOracle, TransferAdmin, SetPaused, EmergencyDrain,
         CloseLedger, vars, recordVars
<1>2. \A p \in Players : balance'[p] = balance[p]
  <2>1. ASSUME NEW c \in Officials, EmergencyDrain(c)
        PROVE  \A p \in Players : balance'[p] = balance[p]
    BY <2>1, EscrowAssumption DEF EmergencyDrain, IInv, TypeOK, Accounts
  <2>2. ASSUME ~ \E c \in Officials : EmergencyDrain(c)
        PROVE  balance' = balance
    BY <2>2 DEF AdminNext, Initialize, UpdateOracle, TransferAdmin, SetPaused, CloseLedger,
                vars, moneyVars
  <2> QED
    BY <2>1, <2>2
<1>3. Closed' = Closed /\ \A id \in MatchIds : Staked(id)' = Staked(id)
  BY <1>1 DEF Closed, Staked, Exists
<1> QED
  BY <1>2, <1>3, Stutters

LEMMA StepsOfThePots == IInv /\ IInv' /\ [Next]_vars => [Pots!Next]_(Pots!vars)
<1> SUFFICES ASSUME IInv, IInv', [Next]_vars PROVE [Pots!Next]_(Pots!vars)
  OBVIOUS
<1> QED
  BY DepositPuts, FinalizeCloses, RefundCloses, VerdictStutters, CreateStutters, AdminStutters
     DEF Next, MatchNext

\* Every behaviour of the contract is one of abstract pots: money moves only
\* as a stake put in, given back, or awarded with the other one, whatever the
\* officials do (deposit and the payout calls of lib.rs).
THEOREM ContractIsPots == Spec => SettlesLikePots
  BY MappingOfInit, StepsOfThePots, InitIInv, NextIInv, PTL DEF Spec, SettlesLikePots, Pots!Spec
=============================================================================
