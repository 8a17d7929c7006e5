----------------------------- MODULE Settlement -----------------------------
(***************************************************************************)
(* What the escrow promises its players, without ledgers, roles, pauses or *)
(* a contract account: each pot takes one equal stake from each of two     *)
(* players, and closes once, either by giving every stake back or by       *)
(* giving the whole pot to one of the two.  Money moves in no other way.   *)
(***************************************************************************)
EXTENDS Integers

CONSTANTS
  Players,
  Pots,
  InitialBalance,
  Nobody            \* a pot nobody has staked on yet has no second player

VARIABLES
  purse,            \* money each player holds
  stake,            \* stake[pot][p]: what p has at risk in the pot
  closed            \* pots that have been settled

vars == <<purse, stake, closed>>

Stakers(pot) == {p \in Players : stake[pot][p] > 0}

Init ==
  /\ purse = [p \in Players |-> InitialBalance]
  /\ stake = [pot \in Pots |-> [p \in Players |-> 0]]
  /\ closed = {}

\* The first stake sets the amount, the second must equal it, no third.
Put(pot, p, amount) ==
  /\ pot \notin closed
  /\ p \notin Stakers(pot)
  /\ amount > 0 /\ amount <= purse[p]
  /\ \E first \in Players \cup {Nobody} :
       /\ Stakers(pot) \subseteq {first}
       /\ first \in Stakers(pot) => stake[pot][first] = amount
  /\ purse' = [purse EXCEPT ![p] = @ - amount]
  /\ stake' = [stake EXCEPT ![pot] = [@ EXCEPT ![p] = amount]]
  /\ UNCHANGED closed

Close(pot) ==
  /\ pot \notin closed
  /\ closed' = closed \cup {pot}
  /\ stake' = [stake EXCEPT ![pot] = [p \in Players |-> 0]]

GiveBack(pot) ==
  /\ Close(pot)
  /\ purse' = [p \in Players |-> purse[p] + stake[pot][p]]

Award(pot, winner, loser) ==
  /\ winner # loser
  /\ Stakers(pot) = {winner, loser}
  /\ Close(pot)
  /\ purse' = [purse EXCEPT ![winner] = @ + stake[pot][winner] + stake[pot][loser]]

Next ==
  \E pot \in Pots :
    \/ \E p \in Players : \E amount \in 1 .. purse[p] : Put(pot, p, amount)
    \/ GiveBack(pot)
    \/ \E w, l \in Players : Award(pot, w, l)

Spec == Init /\ [][Next]_vars
=============================================================================
