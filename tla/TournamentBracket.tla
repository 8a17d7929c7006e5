------------------------- MODULE TournamentBracket -------------------------
(***************************************************************************)
(* The single-elimination bracket contract                                 *)
(* (contracts/tournament-bracket/src/lib.rs): entry fees, results, the     *)
(* champion's payout, cancellation and the timeout, over one token balance *)
(* that all tournaments share.  The contract is initialised, with a        *)
(* reserve somebody sent it; callers are the ones the code authorises.     *)
(*                                                                         *)
(* An entrant is a position in the list of players, strongest seed first.  *)
(* Amounts are multiples of the smallest entry fee.                        *)
(***************************************************************************)
EXTENDS Integers, FiniteSets, FiniteSetsExt

CONSTANTS
  Tournaments,      \* bound: ids that may be created, 0, 1, ...
  PlayerCounts,     \* the sizes of field tried
  Fees,             \* the entry fees tried
  Reserve,          \* what was sent to the contract beside fees
  ReserveBuffer,    \* ESCROW_RESERVE_BUFFER_STROOPS
  TIMEOUT_LEDGERS,
  MaxLedger,        \* bound: last ledger
  None

\* A stored Tournament.
Tournament ==
  [entry_fee : Nat, player_count : Nat, funded_count : Nat,
   state : {"Registration", "InProgress", "Completed", "Cancelled"},
   champion : Nat \cup {None}, created_ledger : Nat]

BracketAssumption ==
  /\ Tournaments \subseteq Nat
  /\ PlayerCounts \subseteq {2 ^ k : k \in 1 .. 6} /\ Fees \subseteq Nat \ {0}
  /\ Reserve \in Nat /\ ReserveBuffer \in Nat
  /\ TIMEOUT_LEDGERS \in Nat /\ MaxLedger \in Nat
  /\ None \notin Nat /\ None \notin Tournament

VARIABLES
  tournament,   \* DataKey::Tournament: id -> record, None before it is created
  node,         \* DataKey::Node: id -> (<<round, index>> -> record)
  balance,      \* the contract's token balance
  ledger,       \* env.ledger().sequence()
  received,     \* history: fees paid in per tournament
  returned      \* history: paid out per tournament and player

vars == <<tournament, node, balance, ledger, received, returned>>

-----------------------------------------------------------------------------
(* The shape of the bracket.                                               *)

rounds(n) == CHOOSE k \in 1 .. 6 : 2 ^ k = n
node_count(n, r) == n \div 2 ^ (r + 1)
NodesOf(n) ==
  {at \in (0 .. rounds(n) - 1) \X (0 .. n \div 2 - 1) : at[2] < node_count(n, at[1])}
Parent(at) == <<at[1] + 1, at[2] \div 2>>

seed_position(index, n) ==
  IF index % 2 = 0 THEN index \div 2 ELSE n - 1 - index \div 2

EmptyNode == [player1 |-> None, player2 |-> None, funded1 |-> FALSE, funded2 |-> FALSE,
              winner |-> None, status |-> "AwaitingFunding"]
Seeded(n, at) ==
  IF at[1] > 0 THEN EmptyNode
  ELSE [EmptyNode EXCEPT !.player1 = seed_position(2 * at[2], n),
                         !.player2 = seed_position(2 * at[2] + 1, n)]

Entrants == 0 .. Max(PlayerCounts) - 1

-----------------------------------------------------------------------------
Init ==
  /\ tournament = [id \in Tournaments |-> None]
  /\ node = [id \in Tournaments |-> << >>]
  /\ balance = Reserve
  /\ ledger = 0
  /\ received = [id \in Tournaments |-> 0]
  /\ returned = [id \in Tournaments |-> [p \in Entrants |-> 0]]

Exists(id) == tournament[id] # None
Running(id) == Exists(id) /\ tournament[id].state \in {"Registration", "InProgress"}

\* ensure_reserve_for_payout
ensure_reserve(payout) == balance >= payout + ReserveBuffer

\* create_tournament, create_tournament_with_prizes: the next id.  A prize
\* schedule is recorded and never read again, so it is left out.
\* Bound: early enough for the timeout to pass before MaxLedger.
create_tournament(id, n, fee) ==
  /\ ~ Exists(id) /\ \A other \in Tournaments : other < id => Exists(other)
  /\ ledger + TIMEOUT_LEDGERS < MaxLedger
  /\ tournament' = [tournament EXCEPT ![id] =
       [entry_fee |-> fee, player_count |-> n, funded_count |-> 0, state |-> "Registration",
        champion |-> None, created_ledger |-> ledger]]
  /\ node' = [node EXCEPT ![id] = [at \in NodesOf(n) |-> Seeded(n, at)]]
  /\ UNCHANGED <<balance, ledger, received, returned>>

Ready_OnePaid(m) == m.funded1 \/ m.funded2
Ready(m) == m.funded1 /\ m.funded2

\* deposit: each entrant pays once, in its node of round 0.
deposit(id, p) ==
  LET t == tournament[id] IN
  /\ Running(id)
  /\ \E at \in DOMAIN node[id] :
       LET m == node[id][at]
           paid == IF m.player1 = p THEN [m EXCEPT !.funded1 = TRUE]
                                    ELSE [m EXCEPT !.funded2 = TRUE] IN
       /\ at[1] = 0
       /\ \/ m.player1 = p /\ ~ m.funded1
          \/ m.player2 = p /\ ~ m.funded2
       /\ node' = [node EXCEPT ![id][at] =
            IF Ready(paid) THEN [paid EXCEPT !.status = "AwaitingResult"] ELSE paid]
  /\ tournament' = [tournament EXCEPT ![id].funded_count = @ + 1,
       ![id].state = IF t.funded_count + 1 = t.player_count THEN "InProgress" ELSE @]
  /\ balance' = balance + t.entry_fee
  /\ received' = [received EXCEPT ![id] = @ + t.entry_fee]
  /\ UNCHANGED <<ledger, returned>>

\* The winner's slot in the parent: player1 of an even node, player2 of an odd one.
Advanced(parent, at, winner) ==
  LET m == IF at[2] % 2 = 0 THEN [parent EXCEPT !.player1 = winner]
                            ELSE [parent EXCEPT !.player2 = winner] IN
  IF m.player1 # None /\ m.player2 # None THEN [m EXCEPT !.status = "AwaitingResult"] ELSE m

Decided(m, winner) == [m EXCEPT !.winner = winner, !.status = "Decided"]

\* The oracle's call for a node that waits for its result.
Reported(id, at, winner) ==
  /\ Running(id)
  /\ at \in DOMAIN node[id]
  /\ node[id][at].status = "AwaitingResult"
  /\ winner \in {node[id][at].player1, node[id][at].player2}

\* submit_match_result, not the final.
AdvanceWinner(id, at, winner) ==
  /\ Reported(id, at, winner)
  /\ at[1] + 1 < rounds(tournament[id].player_count)
  /\ node' = [node EXCEPT ![id][at] = Decided(@, winner),
                          ![id][Parent(at)] = Advanced(@, at, winner)]
  /\ UNCHANGED <<tournament, balance, ledger, received, returned>>

\* What the champion is paid: the pool, whatever the schedule says.
payout(t) == t.entry_fee * t.player_count

\* submit_match_result, the final.  InsufficientReserve undoes the whole call.
CrownChampion(id, at, winner) ==
  LET t == tournament[id] IN
  /\ Reported(id, at, winner)
  /\ at[1] + 1 = rounds(t.player_count)
  /\ ensure_reserve(payout(t))
  /\ node' = [node EXCEPT ![id][at] = Decided(@, winner)]
  /\ tournament' = [tournament EXCEPT ![id].champion = winner, ![id].state = "Completed"]
  /\ balance' = balance - payout(t)
  /\ returned' = [returned EXCEPT ![id][winner] = @ + payout(t)]
  /\ UNCHANGED <<ledger, received>>

\* Whom refund_all pays.
Funded_First(id) ==
  {node[id][at].player1 : at \in {a \in DOMAIN node[id] : node[id][a].funded1}}
Funded(id) ==
  {node[id][at].player1 : at \in {a \in DOMAIN node[id] : node[id][a].funded1}}
    \cup {node[id][at].player2 : at \in {a \in DOMAIN node[id] : node[id][a].funded2}}

\* refund_all and the terminal state both callers then save.  The reserve is
\* asked for only when somebody paid.
RefundAndCancel(id) ==
  LET t == tournament[id] IN
  /\ t.funded_count > 0 => ensure_reserve(t.entry_fee * t.funded_count)
  /\ node' = [node EXCEPT ![id] =
       [at \in DOMAIN @ |-> [@[at] EXCEPT !.funded1 = FALSE, !.funded2 = FALSE]]]
  /\ balance' = balance - t.entry_fee * Cardinality(Funded(id))
  /\ returned' = [returned EXCEPT ![id] =
       [p \in Entrants |-> @[p] + IF p \in Funded(id) THEN t.entry_fee ELSE 0]]
  /\ tournament' = [tournament EXCEPT ![id].funded_count = 0, ![id].state = "Cancelled"]
  /\ UNCHANGED <<ledger, received>>

\* cancel_tournament: the admin, before every entrant has paid.
cancel_tournament(id) ==
  /\ Exists(id) /\ tournament[id].state = "Registration"
  /\ RefundAndCancel(id)

\* claim_timeout: anyone, once the window has passed.
claim_timeout_Started(id) ==
  /\ Exists(id) /\ tournament[id].state = "InProgress"
  /\ ledger > tournament[id].created_ledger + TIMEOUT_LEDGERS
  /\ RefundAndCancel(id)
claim_timeout(id) ==
  /\ Running(id)
  /\ ledger > tournament[id].created_ledger + TIMEOUT_LEDGERS
  /\ RefundAndCancel(id)

\* The chain closes a ledger.
CloseLedger ==
  /\ ledger < MaxLedger
  /\ ledger' = ledger + 1
  /\ UNCHANGED <<tournament, node, balance, received, returned>>

Next ==
  \/ \E id \in Tournaments, n \in PlayerCounts, fee \in Fees :
       create_tournament(id, n, fee)
  \/ \E id \in Tournaments, p \in Entrants : deposit(id, p)
  \/ \E id \in Tournaments, w \in Entrants : \E at \in DOMAIN node[id] :
       \/ AdvanceWinner(id, at, w)
       \/ CrownChampion(id, at, w)
  \/ \E id \in Tournaments : cancel_tournament(id)
  \/ \E id \in Tournaments : claim_timeout(id)
  \/ CloseLedger

Spec == Init /\ [][Next]_vars

\* Ledgers close, and somebody who wants the fees back claims the timeout.
FairSpec ==
  /\ Spec
  /\ WF_vars(CloseLedger)
  /\ \A id \in Tournaments : WF_vars(claim_timeout(id))

-----------------------------------------------------------------------------
(* Properties.                                                             *)

Finished(id) == Exists(id) /\ ~ Running(id)
PlayersOf(m) == {m.player1, m.player2} \ {None}

\* One balance stands behind all tournaments: whatever was refunded or won in
\* others, the fees of every running one are there, and so is the reserve.
Solvent ==
  balance = Reserve + MapThenSumSet(LAMBDA id : received[id], {i \in Tournaments : Running(i)})

\* A finished tournament kept nothing and gave nothing twice: a completed one
\* paid the whole pool to its champion, a cancelled one gave exactly its fee
\* to every entrant who had paid and nothing to the others.
EveryFeeLeaves ==
  \A id \in Tournaments : Finished(id) =>
    /\ MapThenSumSet(LAMBDA p : returned[id][p], Entrants) = received[id]
    /\ tournament[id].state = "Completed" =>
         returned[id][tournament[id].champion] = received[id]
    /\ tournament[id].state = "Cancelled" =>
         \A p \in Entrants : returned[id][p] \in {0, tournament[id].entry_fee}

\* The bracket is played out as laid out, in whatever order the oracle reports:
\* each slot after round 0 is filled by the winner of the child that feeds it,
\* even child first; a champion won a node of every round, and nobody took the
\* pool while an entrant had not paid.
ChampionEarnedIt ==
  \A id \in Tournaments : Exists(id) =>
    /\ \A at \in DOMAIN node[id] : at[1] > 0 =>
         /\ node[id][at].player1 = node[id][<<at[1] - 1, 2 * at[2]>>].winner
         /\ node[id][at].player2 = node[id][<<at[1] - 1, 2 * at[2] + 1>>].winner
    /\ tournament[id].champion # None =>
         /\ received[id] = tournament[id].entry_fee * tournament[id].player_count
         /\ \A r \in 0 .. rounds(tournament[id].player_count) - 1 :
              \E at \in DOMAIN node[id] :
                at[1] = r /\ node[id][at].winner = tournament[id].champion

\* lib.rs, claim_timeout: fees never stay in a stalled bracket for good.
FeesNeverStuck ==
  \A id \in Tournaments : (Exists(id) /\ received[id] > 0) ~> Finished(id)

-----------------------------------------------------------------------------
(* What a comment says and the code does not do.                           *)

\* The nodes on the way of entrant p of round 0 to the final.
Way(n, p) ==
  LET start == CHOOSE i \in 0 .. n \div 2 - 1 : p \in PlayersOf(Seeded(n, <<0, i>>)) IN
  {<<r, start \div 2 ^ r>> : r \in 0 .. rounds(n) - 1}

\* create_tournament's comment: the two strongest seeds can only meet in the final.
SeedsMeetInFinal ==
  \A id \in Tournaments : Exists(id) =>
    LET n == tournament[id].player_count IN
    n > 2 => Way(n, 0) \cap Way(n, 1) = {<<rounds(n) - 1, 0>>}

=============================================================================
