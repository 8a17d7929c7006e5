-------------------------- MODULE ContractsProofs ---------------------------
(***************************************************************************)
(* Proofs about the contracts of MCContracts (the bracket's fees and       *)
(* champion, the oracle's reconciliation, the paging of matches and of     *)
(* names, the leaderboard's tallies).  Each part has an inductive          *)
(* invariant of its own, as the parts share no state.                      *)
(***************************************************************************)
EXTENDS MCContracts, SumProofs, SequenceTheorems

-----------------------------------------------------------------------------
(* The bracket as a tree of nodes.                                         *)

\* The player counts a tournament may have.
FieldSizes == {2, 4, 8, 16, 32, 64}
Count(n, r) == Bracket!node_count(n, r)

\* The powers of two up to the largest field.
LEMMA Powers ==
  2 ^ 1 = 2 /\ 2 ^ 2 = 4 /\ 2 ^ 3 = 8 /\ 2 ^ 4 = 16 /\ 2 ^ 5 = 32 /\ 2 ^ 6 = 64
OBVIOUS

\* What the contract is configured with is among them.
LEMMA Sizes == PlayerCounts \subseteq FieldSizes
<1>1. ASSUME NEW k \in 1 .. 6 PROVE 2 ^ k \in FieldSizes
  <2>1. k \in {1, 2, 3, 4, 5, 6}
    OBVIOUS
  <2> QED BY <2>1, Powers DEF FieldSizes
<1> QED BY <1>1, ContractsAssumption DEF Bracket!BracketAssumption

\* How many rounds each size has.
LEMMA Rounds ==
  /\ Bracket!rounds(2) = 1 /\ Bracket!rounds(4) = 2 /\ Bracket!rounds(8) = 3
  /\ Bracket!rounds(16) = 4 /\ Bracket!rounds(32) = 5 /\ Bracket!rounds(64) = 6
<1>1. \A k \in 1 .. 6 : k \in {1, 2, 3, 4, 5, 6}
  OBVIOUS
<1> QED BY <1>1, Powers DEF Bracket!rounds

\* How many nodes a round has: half as many as the one before.
LEMMA CountTable ==
  ASSUME NEW n \in FieldSizes
  PROVE  /\ Count(n, 0) = n \div 2 /\ Count(n, 1) = n \div 4 /\ Count(n, 2) = n \div 8
         /\ Count(n, 3) = n \div 16 /\ Count(n, 4) = n \div 32 /\ Count(n, 5) = n \div 64
<1>1. 2 ^ (0 + 1) = 2 /\ 2 ^ (1 + 1) = 4 /\ 2 ^ (2 + 1) = 8
      /\ 2 ^ (3 + 1) = 16 /\ 2 ^ (4 + 1) = 32 /\ 2 ^ (5 + 1) = 64
  OBVIOUS
<1> QED BY <1>1 DEF Count, Bracket!node_count

\* The first round has half as many nodes as there are players, the last has
\* one, and each other twice as many as the next.
LEMMA Counts ==
  ASSUME NEW n \in FieldSizes
  PROVE  /\ Bracket!rounds(n) \in 1 .. 6
         /\ Count(n, 0) = n \div 2 /\ Count(n, Bracket!rounds(n) - 1) = 1
         /\ \A r \in 0 .. Bracket!rounds(n) - 1 : Count(n, r) \in 1 .. n \div 2
         /\ \A r \in 1 .. Bracket!rounds(n) - 1 : Count(n, r - 1) = 2 * Count(n, r)
<1>1. Bracket!rounds(n) \in 1 .. 6 /\ Count(n, Bracket!rounds(n) - 1) = 1
  <2>1. CASE n = 2
    <3>1. Bracket!rounds(n) - 1 = 0 /\ Bracket!rounds(n) \in 1 .. 6
      BY <2>1, Rounds
    <3> QED BY <2>1, <3>1, CountTable
  <2>2. CASE n = 4
    <3>1. Bracket!rounds(n) - 1 = 1 /\ Bracket!rounds(n) \in 1 .. 6
      BY <2>2, Rounds
    <3> QED BY <2>2, <3>1, CountTable
  <2>3. CASE n = 8
    <3>1. Bracket!rounds(n) - 1 = 2 /\ Bracket!rounds(n) \in 1 .. 6
      BY <2>3, Rounds
    <3> QED BY <2>3, <3>1, CountTable
  <2>4. CASE n = 16
    <3>1. Bracket!rounds(n) - 1 = 3 /\ Bracket!rounds(n) \in 1 .. 6
      BY <2>4, Rounds
    <3> QED BY <2>4, <3>1, CountTable
  <2>5. CASE n = 32
    <3>1. Bracket!rounds(n) - 1 = 4 /\ Bracket!rounds(n) \in 1 .. 6
      BY <2>5, Rounds
    <3> QED BY <2>5, <3>1, CountTable
  <2>6. CASE n = 64
    <3>1. Bracket!rounds(n) - 1 = 5 /\ Bracket!rounds(n) \in 1 .. 6
      BY <2>6, Rounds
    <3> QED BY <2>6, <3>1, CountTable
  <2> QED BY <2>1, <2>2, <2>3, <2>4, <2>5, <2>6 DEF FieldSizes
<1>2. ASSUME NEW r \in 0 .. Bracket!rounds(n) - 1 PROVE Count(n, r) \in 1 .. n \div 2
  <2>1. r \in {0, 1, 2, 3, 4, 5}
    BY <1>1
  <2>2. CASE r = 0
    BY <2>2, CountTable, Rounds DEF FieldSizes
  <2>3. CASE r = 1
    BY <2>3, CountTable, Rounds DEF FieldSizes
  <2>4. CASE r = 2
    BY <2>4, CountTable, Rounds DEF FieldSizes
  <2>5. CASE r = 3
    BY <2>5, CountTable, Rounds DEF FieldSizes
  <2>6. CASE r = 4
    BY <2>6, CountTable, Rounds DEF FieldSizes
  <2>7. CASE r = 5
    BY <2>7, CountTable, Rounds DEF FieldSizes
  <2> QED BY <2>1, <2>2, <2>3, <2>4, <2>5, <2>6, <2>7
<1>3. ASSUME NEW r \in 1 .. Bracket!rounds(n) - 1 PROVE Count(n, r - 1) = 2 * Count(n, r)
  <2>6. r \in {1, 2, 3, 4, 5}
    BY <1>1
  <2>1. CASE r = 1
    <3>1. r - 1 = 0
      BY <2>1
    <3> QED BY <2>1, <3>1, CountTable, Rounds DEF FieldSizes
  <2>2. CASE r = 2
    <3>1. r - 1 = 1
      BY <2>2
    <3> QED BY <2>2, <3>1, CountTable, Rounds DEF FieldSizes
  <2>3. CASE r = 3
    <3>1. r - 1 = 2
      BY <2>3
    <3> QED BY <2>3, <3>1, CountTable, Rounds DEF FieldSizes
  <2>4. CASE r = 4
    <3>1. r - 1 = 3
      BY <2>4
    <3> QED BY <2>4, <3>1, CountTable, Rounds DEF FieldSizes
  <2>5. CASE r = 5
    <3>1. r - 1 = 4
      BY <2>5
    <3> QED BY <2>5, <3>1, CountTable, Rounds DEF FieldSizes
  <2> QED BY <2>1, <2>2, <2>3, <2>4, <2>5, <2>6
<1> QED BY <1>1, <1>2, <1>3, CountTable

\* The nodes that feed a node, and the node of the last round.
Left(at) == <<at[1] - 1, 2 * at[2]>>
Right(at) == <<at[1] - 1, 2 * at[2] + 1>>
Final(n) == <<Bracket!rounds(n) - 1, 0>>

\* A node is a round and a place in it.
LEMMA Layout ==
  ASSUME NEW n \in FieldSizes
  PROVE  /\ \A at \in Bracket!NodesOf(n) :
              /\ at = <<at[1], at[2]>> /\ at[1] \in 0 .. Bracket!rounds(n) - 1
              /\ at[2] \in 0 .. Count(n, at[1]) - 1
         /\ \A r \in 0 .. Bracket!rounds(n) - 1 : \A i \in 0 .. Count(n, r) - 1 :
              <<r, i>> \in Bracket!NodesOf(n)
<1>1. Bracket!rounds(n) \in 1 .. 6
  BY Counts
<1>2. \A r \in 0 .. Bracket!rounds(n) - 1 : Count(n, r) \in Int /\ Count(n, r) <= n \div 2
  BY <1>1, Counts DEF FieldSizes
<1>3. n \div 2 \in Int
  BY DEF FieldSizes
<1>4. ASSUME NEW at \in Bracket!NodesOf(n)
      PROVE  /\ at = <<at[1], at[2]>> /\ at[1] \in 0 .. Bracket!rounds(n) - 1
             /\ at[2] \in 0 .. Count(n, at[1]) - 1
  <2>1. /\ at \in (0 .. Bracket!rounds(n) - 1) \X (0 .. n \div 2 - 1)
        /\ at[2] < Count(n, at[1])
    BY DEF Bracket!NodesOf, Count
  <2>2. at = <<at[1], at[2]>> /\ at[1] \in 0 .. Bracket!rounds(n) - 1
        /\ at[2] \in 0 .. n \div 2 - 1
    BY <2>1
  <2> QED BY <2>1, <2>2, <1>2, <1>3
<1>5. ASSUME NEW r \in 0 .. Bracket!rounds(n) - 1, NEW i \in 0 .. Count(n, r) - 1
      PROVE  <<r, i>> \in Bracket!NodesOf(n)
  <2>1. i \in 0 .. n \div 2 - 1 /\ i < Count(n, r)
    BY <1>2, <1>3
  <2> QED BY <2>1 DEF Bracket!NodesOf, Count
<1> QED BY <1>4, <1>5

\* The nodes that feed a node, and the one it feeds, are in the bracket.
LEMMA Family ==
  ASSUME NEW n \in FieldSizes, NEW at \in Bracket!NodesOf(n)
  PROVE  /\ at[1] > 0 =>
              /\ Left(at) \in Bracket!NodesOf(n) /\ Right(at) \in Bracket!NodesOf(n)
              /\ Left(at)[1] = at[1] - 1 /\ Right(at)[1] = at[1] - 1
              /\ Left(at)[2] = 2 * at[2] /\ Right(at)[2] = 2 * at[2] + 1
         /\ at[1] + 1 < Bracket!rounds(n) =>
              /\ Bracket!Parent(at) \in Bracket!NodesOf(n) /\ Bracket!Parent(at)[1] = at[1] + 1
              /\ Bracket!Parent(at)[2] = at[2] \div 2
         /\ at[1] + 1 = Bracket!rounds(n) => at = Final(n)
<1>1. Bracket!rounds(n) \in 1 .. 6 /\ at = <<at[1], at[2]>>
      /\ at[1] \in 0 .. Bracket!rounds(n) - 1 /\ at[2] \in 0 .. Count(n, at[1]) - 1
  BY Counts, Layout
<1>2. \A r \in 0 .. Bracket!rounds(n) - 1 : Count(n, r) \in Int
  BY Counts DEF FieldSizes
<1>3. ASSUME at[1] > 0
      PROVE  /\ Left(at) \in Bracket!NodesOf(n) /\ Right(at) \in Bracket!NodesOf(n)
             /\ Left(at)[1] = at[1] - 1 /\ Right(at)[1] = at[1] - 1
             /\ Left(at)[2] = 2 * at[2] /\ Right(at)[2] = 2 * at[2] + 1
  <2>1. at[1] - 1 \in 0 .. Bracket!rounds(n) - 1 /\ at[1] \in 1 .. Bracket!rounds(n) - 1
    BY <1>1, <1>3
  <2>2. Count(n, at[1] - 1) = 2 * Count(n, at[1])
    BY <2>1, Counts
  <2>3. /\ 2 * at[2] \in 0 .. Count(n, at[1] - 1) - 1
        /\ 2 * at[2] + 1 \in 0 .. Count(n, at[1] - 1) - 1
    BY <1>1, <1>2, <2>1, <2>2
  <2> QED BY <2>1, <2>3, Layout DEF Left, Right
<1>4. ASSUME at[1] + 1 < Bracket!rounds(n)
      PROVE  /\ Bracket!Parent(at) \in Bracket!NodesOf(n) /\ Bracket!Parent(at)[1] = at[1] + 1
             /\ Bracket!Parent(at)[2] = at[2] \div 2
  <2> DEFINE r == at[1] + 1
  <2>1. r \in 1 .. Bracket!rounds(n) - 1 /\ r \in 0 .. Bracket!rounds(n) - 1 /\ r - 1 = at[1]
    BY <1>1, <1>4
  <2> HIDE DEF r
  <2>2. Count(n, at[1]) = 2 * Count(n, r) /\ Count(n, r) \in Int
    BY <2>1, <1>2, Counts
  <2>3. at[2] \div 2 \in 0 .. Count(n, r) - 1
    BY <1>1, <2>2
  <2>4. <<r, at[2] \div 2>> \in Bracket!NodesOf(n)
    BY <2>1, <2>3, Layout
  <2> QED BY <2>4 DEF Bracket!Parent, r
<1>5. ASSUME at[1] + 1 = Bracket!rounds(n) PROVE at = Final(n)
  <2>1. at[1] = Bracket!rounds(n) - 1
    BY <1>1, <1>5
  <2>2. at[2] = 0
    BY <1>1, <2>1, Counts
  <2> QED BY <1>1, <2>1, <2>2 DEF Final
<1> QED BY <1>3, <1>4, <1>5

\* Halving an even and an odd number.
LEMMA Halves ==
  ASSUME NEW a \in Int, NEW b \in Int
  PROVE  /\ a = 2 * b => a \div 2 = b /\ a % 2 = 0
         /\ a = 2 * b + 1 => a \div 2 = b /\ a % 2 = 1
         /\ a % 2 \in {0, 1} /\ a = 2 * (a \div 2) + (a % 2)
OBVIOUS

\* Of which node a node is the left or the right.
LEMMA Feeds ==
  ASSUME NEW n \in FieldSizes, NEW at \in Bracket!NodesOf(n), NEW b \in Bracket!NodesOf(n),
         b[1] > 0
  PROVE  /\ Left(b) = at => at[2] % 2 = 0
         /\ Right(b) = at => at[2] % 2 = 1
         /\ at[1] + 1 < Bracket!rounds(n) =>
              /\ Left(b) = at \/ Right(b) = at => b = Bracket!Parent(at)
              /\ b = Bracket!Parent(at) => IF at[2] % 2 = 0 THEN Left(b) = at ELSE Right(b) = at
<1>1. /\ at = <<at[1], at[2]>> /\ at[1] \in 0 .. Bracket!rounds(n) - 1
      /\ at[2] \in 0 .. Count(n, at[1]) - 1
      /\ b = <<b[1], b[2]>> /\ b[1] \in 0 .. Bracket!rounds(n) - 1
      /\ b[2] \in 0 .. Count(n, b[1]) - 1
  BY Layout
<1>2. at[1] \in Int /\ at[2] \in Int /\ b[1] \in Int /\ b[2] \in Int /\ Bracket!rounds(n) \in Int
  BY <1>1, Counts
<1>3. Left(b) = <<b[1] - 1, 2 * b[2]>> /\ Right(b) = <<b[1] - 1, 2 * b[2] + 1>>
  BY DEF Left, Right
<1>4. Left(b) = at => b[1] = at[1] + 1 /\ b[2] = at[2] \div 2 /\ at[2] % 2 = 0
  <2>1. Left(b) = at => b[1] - 1 = at[1] /\ 2 * b[2] = at[2]
    BY <1>1, <1>3
  <2> QED BY <1>2, <2>1
<1>5. Right(b) = at => b[1] = at[1] + 1 /\ b[2] = at[2] \div 2 /\ at[2] % 2 = 1
  <2>1. Right(b) = at => b[1] - 1 = at[1] /\ 2 * b[2] + 1 = at[2]
    BY <1>1, <1>3
  <2>2. Right(b) = at => at[2] = 2 * b[2] + 1
    BY <1>2, <2>1
  <2> QED BY <1>2, <2>1, <2>2, Halves
<1>6. Left(b) = at \/ Right(b) = at => b = Bracket!Parent(at)
  BY <1>1, <1>4, <1>5 DEF Bracket!Parent
<1>7. ASSUME b = Bracket!Parent(at)
      PROVE  IF at[2] % 2 = 0 THEN Left(b) = at ELSE Right(b) = at
  <2>1. b[1] = at[1] + 1 /\ b[2] = at[2] \div 2
    BY <1>7 DEF Bracket!Parent
  <2>2. b[1] - 1 = at[1] /\ IF at[2] % 2 = 0 THEN 2 * b[2] = at[2] ELSE 2 * b[2] + 1 = at[2]
    BY <1>2, <2>1
  <2> QED BY <1>1, <1>3, <2>2
<1> QED BY <1>4, <1>5, <1>6, <1>7

\* The values of a node.
NodeRecords(n) ==
  [player1 : 0 .. n - 1 \cup {None}, player2 : 0 .. n - 1 \cup {None},
   funded1 : BOOLEAN, funded2 : BOOLEAN, winner : 0 .. n - 1 \cup {None},
   status : {"AwaitingFunding", "AwaitingResult", "Decided"}]
\* The node at, of the bracket nd of n entrants.
NodeOK(nd, n, at) ==
  /\ at[1] = 0 => nd[at].player1 = at[2] /\ nd[at].player2 = n - 1 - at[2]
  /\ at[1] > 0 =>
       /\ nd[at].player1 = nd[Left(at)].winner /\ nd[at].player2 = nd[Right(at)].winner
       /\ ~ nd[at].funded1 /\ ~ nd[at].funded2
  /\ nd[at].winner # None <=> nd[at].status = "Decided"
  /\ nd[at].status # "AwaitingFunding" => nd[at].player1 # None /\ nd[at].player2 # None
  /\ nd[at].winner # None =>
       \A r \in 0 .. at[1] :
         \E b \in Bracket!NodesOf(n) : b[1] = r /\ nd[b].winner = nd[at].winner

\* A bracket is filled from its leaves: the players of a node are the winners
\* of the two that feed it, and the first round holds the seeds.
Tree(nd, n) ==
  /\ nd \in [Bracket!NodesOf(n) -> NodeRecords(n)]
  /\ \A at \in Bracket!NodesOf(n) : NodeOK(nd, n, at)

\* A node of the first round is played after both its players paid.
Paid(nd, n) ==
  \A at \in Bracket!NodesOf(n) :
    at[1] = 0 /\ nd[at].status # "AwaitingFunding" => nd[at].funded1 /\ nd[at].funded2

\* Who has paid.
Payers(nd) ==
  {nd[at].player1 : at \in {a \in DOMAIN nd : nd[a].funded1}}
    \cup {nd[at].player2 : at \in {a \in DOMAIN nd : nd[a].funded2}}

\* Where the seeding puts the players of a node of the first round.
LEMMA Places ==
  ASSUME NEW n \in FieldSizes, NEW at \in Bracket!NodesOf(n), at[1] = 0
  PROVE  /\ at[2] \in 0 .. n - 1 /\ n - 1 - at[2] \in 0 .. n - 1
         /\ 2 * at[2] < n /\ 2 * (n - 1 - at[2]) >= n
         /\ Bracket!seed_position(2 * at[2], n) = at[2]
         /\ Bracket!seed_position(2 * at[2] + 1, n) = n - 1 - at[2]
<1>1. at[2] \in 0 .. n \div 2 - 1
  BY Layout, Counts
<1>2. n \in Nat /\ 2 * (n \div 2) = n
  BY DEF FieldSizes
<1>3. (2 * at[2]) % 2 = 0 /\ (2 * at[2] + 1) % 2 = 1
      /\ (2 * at[2]) \div 2 = at[2] /\ (2 * at[2] + 1) \div 2 = at[2]
  BY <1>1, <1>2, Halves
<1> QED BY <1>1, <1>2, <1>3 DEF Bracket!seed_position

\* A new bracket is such a tree, and nobody has paid.
LEMMA Seeding ==
  ASSUME NEW n \in FieldSizes
  PROVE  /\ Tree([at \in Bracket!NodesOf(n) |-> Bracket!Seeded(n, at)], n)
         /\ Paid([at \in Bracket!NodesOf(n) |-> Bracket!Seeded(n, at)], n)
         /\ Payers([at \in Bracket!NodesOf(n) |-> Bracket!Seeded(n, at)]) = {}
<1> DEFINE nd == [at \in Bracket!NodesOf(n) |-> Bracket!Seeded(n, at)]
<1>1. ASSUME NEW at \in Bracket!NodesOf(n)
      PROVE  /\ nd[at] \in NodeRecords(n)
             /\ nd[at].winner = None /\ nd[at].status = "AwaitingFunding"
             /\ ~ nd[at].funded1 /\ ~ nd[at].funded2
             /\ at[1] = 0 => nd[at].player1 = at[2] /\ nd[at].player2 = n - 1 - at[2]
             /\ at[1] > 0 => nd[at].player1 = None /\ nd[at].player2 = None
  <2>1. CASE at[1] > 0
    BY <2>1 DEF Bracket!Seeded, Bracket!EmptyNode, NodeRecords
  <2>2. CASE ~ (at[1] > 0)
    <3>1. at[1] = 0
      BY <2>2, Layout, Counts
    <3> QED BY <2>2, <3>1, Places DEF Bracket!Seeded, Bracket!EmptyNode, NodeRecords
  <2> QED BY <2>1, <2>2
<1>2. nd \in [Bracket!NodesOf(n) -> NodeRecords(n)]
  BY <1>1
<1> HIDE DEF nd
<1>3. \A at \in Bracket!NodesOf(n) : NodeOK(nd, n, at)
  BY <1>1, Family DEF NodeOK
<1>4. DOMAIN nd = Bracket!NodesOf(n)
  BY <1>2
<1> QED BY <1>1, <1>2, <1>3, <1>4 DEF Tree, Paid, Payers, nd

\* The players of round 0 are each in one place.
LEMMA OnePlace ==
  ASSUME NEW n \in FieldSizes, NEW nd, Tree(nd, n),
         NEW a \in Bracket!NodesOf(n), NEW b \in Bracket!NodesOf(n), a[1] = 0, b[1] = 0
  PROVE  /\ nd[a].player1 \in 0 .. n - 1 /\ nd[a].player2 \in 0 .. n - 1
         /\ nd[a].player1 # nd[b].player2
         /\ nd[a].player1 = nd[b].player1 => a = b
         /\ nd[a].player2 = nd[b].player2 => a = b
<1>1. /\ nd[a].player1 = a[2] /\ nd[a].player2 = n - 1 - a[2]
      /\ nd[b].player1 = b[2] /\ nd[b].player2 = n - 1 - b[2]
  BY DEF Tree, NodeOK
<1>2. /\ a[2] \in 0 .. n - 1 /\ n - 1 - a[2] \in 0 .. n - 1 /\ 2 * a[2] < n
      /\ b[2] \in 0 .. n - 1 /\ 2 * (n - 1 - b[2]) >= n
  BY Places
<1>3. n \in Int
  BY DEF FieldSizes
<1>4. a = <<a[1], a[2]>> /\ b = <<b[1], b[2]>>
  BY Layout
<1>5. a[2] # n - 1 - b[2] /\ (n - 1 - a[2] = n - 1 - b[2] => a[2] = b[2])
  BY <1>2, <1>3
<1> QED BY <1>1, <1>2, <1>4, <1>5

\* Only round 0 is funded.
LEMMA FundedFirst ==
  ASSUME NEW n \in FieldSizes, NEW nd, Tree(nd, n), NEW a \in Bracket!NodesOf(n),
         nd[a].funded1 \/ nd[a].funded2
  PROVE  a[1] = 0
<1>1. a[1] \in Nat
  BY Layout, Counts
<1>2. ~ (a[1] > 0)
  BY DEF Tree, NodeOK
<1> QED BY <1>1, <1>2

\* An entrant pays.
Filled(m, p) ==
  LET paid == IF m.player1 = p THEN [m EXCEPT !.funded1 = TRUE]
                                  ELSE [m EXCEPT !.funded2 = TRUE] IN
  IF Bracket!Ready(paid) THEN [paid EXCEPT !.status = "AwaitingResult"] ELSE paid

\* What that does to the node: the player's mark, and the status once both
\* marks are there.
LEMMA Filling ==
  ASSUME NEW n \in FieldSizes, NEW m \in NodeRecords(n), NEW p,
         (m.player1 = p /\ ~ m.funded1) \/ (m.player2 = p /\ ~ m.funded2),
         m.player1 # m.player2, m.status = "AwaitingFunding"
  PROVE  /\ Filled(m, p) \in NodeRecords(n)
         /\ Filled(m, p).player1 = m.player1 /\ Filled(m, p).player2 = m.player2
         /\ Filled(m, p).winner = m.winner
         /\ Filled(m, p).funded1 = (m.funded1 \/ m.player1 = p)
         /\ Filled(m, p).funded2 = (m.funded2 \/ m.player2 = p)
         /\ Filled(m, p).status \in {"AwaitingFunding", "AwaitingResult"}
         /\ Filled(m, p).status # "AwaitingFunding" =>
              Filled(m, p).funded1 /\ Filled(m, p).funded2
<1>0. m.funded1 \in BOOLEAN /\ m.funded2 \in BOOLEAN
  BY DEF NodeRecords
<1> DEFINE paid == IF m.player1 = p THEN [m EXCEPT !.funded1 = TRUE]
                                  ELSE [m EXCEPT !.funded2 = TRUE]
<1>1. /\ paid \in NodeRecords(n) /\ paid.player1 = m.player1 /\ paid.player2 = m.player2
      /\ paid.winner = m.winner /\ paid.status = m.status
      /\ paid.funded1 = (m.funded1 \/ m.player1 = p)
      /\ paid.funded2 = (m.funded2 \/ m.player2 = p)
  <2>1. CASE m.player1 = p
    BY <2>1, <1>0 DEF NodeRecords
  <2>2. CASE m.player1 # p
    BY <2>2, <1>0 DEF NodeRecords
  <2> QED BY <2>1, <2>2
<1>2. Filled(m, p) = IF Bracket!Ready(paid) THEN [paid EXCEPT !.status = "AwaitingResult"]
                                            ELSE paid
  BY DEF Filled
<1> HIDE DEF paid
<1>3. CASE Bracket!Ready(paid)
  <2>1. Filled(m, p) = [paid EXCEPT !.status = "AwaitingResult"]
    BY <1>2, <1>3
  <2>2. paid.funded1 /\ paid.funded2
    BY <1>3 DEF Bracket!Ready
  <2> QED BY <1>1, <2>1, <2>2 DEF NodeRecords
<1>4. CASE ~ Bracket!Ready(paid)
  <2>1. Filled(m, p) = paid
    BY <1>2, <1>4
  <2> QED BY <1>1, <2>1
<1> QED BY <1>3, <1>4

FilledAt(nd, at, p) == [nd EXCEPT ![at] = Filled(nd[at], p)]

\* A fee keeps the tree, and makes one more payer.
LEMMA Paying ==
  ASSUME NEW n \in FieldSizes, NEW nd, Tree(nd, n), Paid(nd, n),
         NEW at \in DOMAIN nd, at[1] = 0, NEW p,
         (nd[at].player1 = p /\ ~ nd[at].funded1) \/ (nd[at].player2 = p /\ ~ nd[at].funded2),
         NEW nd2, nd2 = FilledAt(nd, at, p)
  PROVE  /\ Tree(nd2, n) /\ Paid(nd2, n)
         /\ p \in 0 .. n - 1 /\ p \notin Payers(nd) /\ Payers(nd2) = Payers(nd) \cup {p}
<1>1. nd \in [Bracket!NodesOf(n) -> NodeRecords(n)] /\ at \in Bracket!NodesOf(n)
      /\ \A b \in Bracket!NodesOf(n) : NodeOK(nd, n, b)
  BY DEF Tree
<1>2. nd[at].status = "AwaitingFunding"
  BY <1>1 DEF Paid
<1>3. nd[at].player1 # nd[at].player2 /\ p \in 0 .. n - 1
  BY <1>1, OnePlace
<1> DEFINE m2 == Filled(nd[at], p)
<1>4. /\ m2 \in NodeRecords(n)
      /\ m2.player1 = nd[at].player1 /\ m2.player2 = nd[at].player2
      /\ m2.winner = nd[at].winner
      /\ m2.funded1 = (nd[at].funded1 \/ nd[at].player1 = p)
      /\ m2.funded2 = (nd[at].funded2 \/ nd[at].player2 = p)
      /\ m2.status \in {"AwaitingFunding", "AwaitingResult"}
      /\ m2.status # "AwaitingFunding" => m2.funded1 /\ m2.funded2
  <2>1. nd[at] \in NodeRecords(n)
    BY <1>1
  <2> QED BY <1>2, <1>3, <2>1, Filling
<1> HIDE DEF m2
<1>5. /\ nd2 \in [Bracket!NodesOf(n) -> NodeRecords(n)] /\ nd2[at] = m2
      /\ \A b \in Bracket!NodesOf(n) : b # at => nd2[b] = nd[b]
  BY <1>1, <1>4 DEF m2, FilledAt
<1>6. \A b \in Bracket!NodesOf(n) : nd2[b].winner = nd[b].winner
        /\ nd2[b].player1 = nd[b].player1 /\ nd2[b].player2 = nd[b].player2
  BY <1>4, <1>5
<1>7. ASSUME NEW b \in Bracket!NodesOf(n) PROVE NodeOK(nd2, n, b)
  <2>1. b[1] > 0 => Left(b) \in Bracket!NodesOf(n) /\ Right(b) \in Bracket!NodesOf(n)
    BY Family
  <2>2. NodeOK(nd, n, b)
    BY <1>1
  <2>3. CASE b = at
    <3>1. nd[b].winner = None
      BY <1>2, <2>2, <2>3 DEF NodeOK
    <3>2. nd2[b].winner = None /\ nd2[b].status # "Decided"
      BY <1>4, <1>5, <1>6, <2>3, <3>1
    <3>3. nd2[b].player1 # None /\ nd2[b].player2 # None
      <4>1. nd[at].player1 \in 0 .. n - 1 /\ nd[at].player2 \in 0 .. n - 1
        BY <1>1, OnePlace
      <4>2. None \notin Nat /\ n \in Nat
        BY ContractsAssumption DEF Bracket!BracketAssumption, FieldSizes
      <4> QED BY <1>6, <2>3, <4>1, <4>2
    <3>4. b[1] = 0 => nd2[b].player1 = b[2] /\ nd2[b].player2 = n - 1 - b[2]
      BY <1>6, <2>2 DEF NodeOK
    <3>5. ~ (b[1] > 0)
      BY <2>3
    <3> QED BY <3>1, <3>2, <3>3, <3>4, <3>5 DEF NodeOK
  <2>4. CASE b # at
    <3>1. nd2[b] = nd[b]
      BY <1>5, <2>4
    <3>2. b[1] > 0 =>
            nd2[b].player1 = nd2[Left(b)].winner /\ nd2[b].player2 = nd2[Right(b)].winner
                      /\ ~ nd2[b].funded1 /\ ~ nd2[b].funded2
      BY <1>6, <2>1, <2>2, <3>1 DEF NodeOK
    <3>3. nd2[b].winner # None =>
            \A r \in 0 .. b[1] :
              \E c \in Bracket!NodesOf(n) : c[1] = r /\ nd2[c].winner = nd2[b].winner
      BY <1>6, <2>2 DEF NodeOK
    <3>4. /\ b[1] = 0 => nd2[b].player1 = b[2] /\ nd2[b].player2 = n - 1 - b[2]
          /\ nd2[b].winner # None <=> nd2[b].status = "Decided"
          /\ nd2[b].status # "AwaitingFunding" => nd2[b].player1 # None /\ nd2[b].player2 # None
      BY <2>2, <3>1 DEF NodeOK
    <3> QED BY <3>2, <3>3, <3>4 DEF NodeOK
  <2> QED BY <2>3, <2>4
<1>8. Tree(nd2, n)
  BY <1>5, <1>7 DEF Tree
<1>9. Paid(nd2, n)
  BY <1>4, <1>5 DEF Paid
<1>10. p \notin Payers(nd)
  <2>1. ASSUME NEW b \in Bracket!NodesOf(n), nd[b].funded1, nd[b].player1 = p PROVE FALSE
    <3>1. b[1] = 0
      BY <2>1, FundedFirst
    <3>2. nd[at].player1 = p \/ nd[at].player2 = p
      OBVIOUS
    <3>3. nd[b].player1 # nd[at].player2 /\ (nd[b].player1 = nd[at].player1 => b = at)
      BY <3>1, <1>1, OnePlace
    <3>4. b = at
      BY <3>2, <3>3, <2>1
    <3> QED BY <2>1, <3>3, <3>4
  <2>2. ASSUME NEW b \in Bracket!NodesOf(n), nd[b].funded2, nd[b].player2 = p PROVE FALSE
    <3>1. b[1] = 0
      BY <2>2, FundedFirst
    <3>2. nd[at].player1 = p \/ nd[at].player2 = p
      OBVIOUS
    <3>3. nd[at].player1 # nd[b].player2 /\ (nd[b].player2 = nd[at].player2 => b = at)
      BY <3>1, <1>1, OnePlace
    <3>4. b = at
      BY <3>2, <3>3, <2>2
    <3> QED BY <2>2, <3>3, <3>4
  <2> QED BY <1>1, <2>1, <2>2 DEF Payers
<1>11. Payers(nd2) = Payers(nd) \cup {p}
  <2>1. DOMAIN nd = Bracket!NodesOf(n) /\ DOMAIN nd2 = Bracket!NodesOf(n)
    BY <1>1, <1>5
  <2>2. \A b \in Bracket!NodesOf(n) :
          /\ nd2[b].funded1 <=> (nd[b].funded1 \/ (b = at /\ nd[b].player1 = p))
          /\ nd2[b].funded2 <=> (nd[b].funded2 \/ (b = at /\ nd[b].player2 = p))
    BY <1>4, <1>5
  <2>3. Payers(nd2) \subseteq Payers(nd) \cup {p}
    BY <1>6, <2>1, <2>2 DEF Payers
  <2>4. Payers(nd) \subseteq Payers(nd2)
    BY <1>6, <2>1, <2>2 DEF Payers
  <2>5. p \in Payers(nd2)
    BY <1>1, <1>6, <2>1, <2>2 DEF Payers
  <2> QED BY <2>3, <2>4, <2>5
<1> QED BY <1>3, <1>8, <1>9, <1>10, <1>11

-----------------------------------------------------------------------------
(* Results go up the tree.                                                 *)

\* How a node goes on when the winner w of node at is recorded.
Follows(nd, nd2, n, at, w) ==
  /\ nd2 \in [Bracket!NodesOf(n) -> NodeRecords(n)]
  /\ nd2[at].winner = w /\ nd2[at].status = "Decided"
  /\ nd2[at].player1 = nd[at].player1 /\ nd2[at].player2 = nd[at].player2
  /\ \A b \in Bracket!NodesOf(n) :
       /\ nd2[b].funded1 = nd[b].funded1 /\ nd2[b].funded2 = nd[b].funded2
       /\ b[1] = 0 => nd2[b].player1 = nd[b].player1 /\ nd2[b].player2 = nd[b].player2
       /\ b[1] > 0 =>
            /\ nd2[b].player1 = IF Left(b) = at THEN w ELSE nd[b].player1
            /\ nd2[b].player2 = IF Right(b) = at THEN w ELSE nd[b].player2
       /\ b # at =>
            /\ nd2[b].winner = nd[b].winner
            /\ \/ nd2[b].status = nd[b].status
               \/ /\ nd2[b].status = "AwaitingResult" /\ b[1] > 0 /\ nd[b].winner = None
                  /\ nd2[b].player1 # None /\ nd2[b].player2 # None

\* A bracket that goes on so stays a tree, and no fee moved.
LEMMA Following ==
  ASSUME NEW n \in FieldSizes, NEW nd, Tree(nd, n), NEW at \in Bracket!NodesOf(n), NEW w,
         nd[at].status = "AwaitingResult", w \in {nd[at].player1, nd[at].player2},
         NEW nd2, Follows(nd, nd2, n, at, w)
  PROVE  /\ Tree(nd2, n) /\ Payers(nd2) = Payers(nd) /\ (Paid(nd, n) => Paid(nd2, n))
         /\ w \in 0 .. n - 1 /\ nd[at].winner = None
<1>1. nd \in [Bracket!NodesOf(n) -> NodeRecords(n)]
      /\ \A b \in Bracket!NodesOf(n) : NodeOK(nd, n, b)
  BY DEF Tree
<1>2. nd2 \in [Bracket!NodesOf(n) -> NodeRecords(n)]
  BY DEF Follows
<1>3. nd[at].winner = None /\ w # None /\ w \in 0 .. n - 1
  <2>1. nd[at].winner = None /\ nd[at].player1 # None /\ nd[at].player2 # None
    BY <1>1 DEF NodeOK
  <2>2. nd[at].player1 \in 0 .. n - 1 \cup {None} /\ nd[at].player2 \in 0 .. n - 1 \cup {None}
    BY <1>1 DEF NodeRecords
  <2> QED BY <2>1, <2>2
<1>4. \A b \in Bracket!NodesOf(n) :
        nd2[b].winner = IF b = at THEN w ELSE nd[b].winner
  BY DEF Follows
<1>5. ASSUME NEW b \in Bracket!NodesOf(n), b[1] > 0
      PROVE  nd2[b].player1 = nd2[Left(b)].winner /\ nd2[b].player2 = nd2[Right(b)].winner
  <2>1. Left(b) \in Bracket!NodesOf(n) /\ Right(b) \in Bracket!NodesOf(n)
    BY <1>5, Family
  <2>2. nd[b].player1 = nd[Left(b)].winner /\ nd[b].player2 = nd[Right(b)].winner
    BY <1>1, <1>5 DEF NodeOK
  <2>3. /\ nd2[b].player1 = IF Left(b) = at THEN w ELSE nd[b].player1
        /\ nd2[b].player2 = IF Right(b) = at THEN w ELSE nd[b].player2
    BY <1>5 DEF Follows
  <2> QED BY <1>4, <2>1, <2>2, <2>3
<1>6. \A b \in Bracket!NodesOf(n) : b # at /\ nd[b].winner # None => nd2[b].winner = nd[b].winner
  BY <1>4
<1>7. ASSUME NEW b \in Bracket!NodesOf(n), nd2[b].winner # None, NEW r \in 0 .. b[1]
      PROVE  \E c \in Bracket!NodesOf(n) : c[1] = r /\ nd2[c].winner = nd2[b].winner
  <2>0. b[1] \in Nat
    BY Layout, Counts
  <2>1. CASE b # at
    <3>1. nd2[b].winner = nd[b].winner /\ nd[b].winner # None
      BY <1>4, <1>7, <2>1
    <3>2. PICK c \in Bracket!NodesOf(n) : c[1] = r /\ nd[c].winner = nd[b].winner
      BY <1>1, <3>1 DEF NodeOK
    <3>3. c # at
      BY <1>3, <3>1, <3>2
    <3>4. nd2[c].winner = nd2[b].winner
      BY <1>4, <3>1, <3>2, <3>3
    <3> QED BY <3>2, <3>4
  <2>2. CASE b = at /\ r = b[1]
    BY <2>2
  <2>3. CASE b = at /\ r # b[1]
    <3>1. at[1] > 0 /\ r \in 0 .. at[1] - 1 /\ at[1] \in Nat
      BY <2>0, <2>3
    <3> DEFINE child == IF w = nd[at].player1 THEN Left(at) ELSE Right(at)
    <3>2. /\ Left(at) \in Bracket!NodesOf(n) /\ Right(at) \in Bracket!NodesOf(n)
          /\ Left(at)[1] = at[1] - 1 /\ Right(at)[1] = at[1] - 1
      BY <3>1, Family
    <3>3. nd[at].player1 = nd[Left(at)].winner /\ nd[at].player2 = nd[Right(at)].winner
      BY <1>1, <3>1 DEF NodeOK
    <3>4. child \in Bracket!NodesOf(n) /\ child[1] = at[1] - 1 /\ nd[child].winner = w
      BY <3>2, <3>3
    <3> HIDE DEF child
    <3>5. PICK c \in Bracket!NodesOf(n) : c[1] = r /\ nd[c].winner = nd[child].winner
      BY <1>1, <1>3, <3>1, <3>4 DEF NodeOK
    <3>6. nd2[c].winner = w
      BY <1>4, <3>4, <3>5
    <3>7. nd2[b].winner = w
      BY <1>4, <2>3
    <3> QED BY <3>5, <3>6, <3>7
  <2> QED BY <2>1, <2>2, <2>3
<1>8. ASSUME NEW b \in Bracket!NodesOf(n) PROVE NodeOK(nd2, n, b)
  <2>1. NodeOK(nd, n, b)
    BY <1>1
  <2>2. b[1] = 0 => nd2[b].player1 = b[2] /\ nd2[b].player2 = n - 1 - b[2]
    BY <2>1 DEF NodeOK, Follows
  <2>3. b[1] > 0 => ~ nd2[b].funded1 /\ ~ nd2[b].funded2
    BY <2>1 DEF NodeOK, Follows
  <2>4. /\ nd2[b].winner # None <=> nd2[b].status = "Decided"
        /\ nd2[b].status # "AwaitingFunding" => nd2[b].player1 # None /\ nd2[b].player2 # None
    <3>1. CASE b = at
      <4>1. nd2[b].winner = w /\ nd2[b].status = "Decided"
            /\ nd2[b].player1 = nd[b].player1 /\ nd2[b].player2 = nd[b].player2
        BY <3>1 DEF Follows
      <4>2. nd[b].player1 # None /\ nd[b].player2 # None
        BY <2>1, <3>1 DEF NodeOK
      <4> QED BY <1>3, <4>1, <4>2
    <3>2. CASE b # at
      <4>1. nd2[b].winner = nd[b].winner
        BY <1>4, <3>2
      <4>2. CASE nd2[b].status = nd[b].status
        <5>1. nd2[b].winner # None <=> nd2[b].status = "Decided"
          BY <2>1, <4>1, <4>2 DEF NodeOK
        <5>2. ASSUME nd2[b].status # "AwaitingFunding"
              PROVE  nd2[b].player1 # None /\ nd2[b].player2 # None
          <6>1. nd[b].player1 # None /\ nd[b].player2 # None
            BY <2>1, <4>2, <5>2 DEF NodeOK
          <6>2. b[1] = 0 \/ b[1] > 0
            BY Layout, Counts
          <6> QED BY <1>3, <6>1, <6>2 DEF Follows
        <5> QED BY <5>1, <5>2
      <4>3. CASE nd2[b].status # nd[b].status
        <5>1. /\ nd2[b].status = "AwaitingResult" /\ nd[b].winner = None
              /\ nd2[b].player1 # None /\ nd2[b].player2 # None
          BY <3>2, <4>3 DEF Follows
        <5> QED BY <4>1, <5>1
      <4> QED BY <4>2, <4>3
    <3> QED BY <3>1, <3>2
  <2> QED BY <1>5, <1>7, <2>2, <2>3, <2>4 DEF NodeOK
<1>9. Payers(nd2) = Payers(nd)
  <2>1. DOMAIN nd = Bracket!NodesOf(n) /\ DOMAIN nd2 = Bracket!NodesOf(n)
    BY <1>1, <1>2
  <2>2. \A b \in Bracket!NodesOf(n) :
          nd2[b].funded1 = nd[b].funded1 /\ nd2[b].funded2 = nd[b].funded2
    BY DEF Follows
  <2>3. \A b \in Bracket!NodesOf(n) : nd[b].funded1 \/ nd[b].funded2 =>
          nd2[b].player1 = nd[b].player1 /\ nd2[b].player2 = nd[b].player2
    BY FundedFirst DEF Follows
  <2> QED BY <2>1, <2>2, <2>3 DEF Payers
<1>10. ASSUME Paid(nd, n) PROVE Paid(nd2, n)
  <2>1. ASSUME NEW b \in Bracket!NodesOf(n), b[1] = 0, nd2[b].status # "AwaitingFunding"
        PROVE  nd2[b].funded1 /\ nd2[b].funded2
    <3>1. nd[b].status # "AwaitingFunding"
      BY <2>1 DEF Follows
    <3> QED BY <1>10, <2>1, <3>1 DEF Paid, Follows
  <2> QED BY <2>1 DEF Paid
<1> QED BY <1>2, <1>3, <1>8, <1>9, <1>10 DEF Tree

\* The final is decided; and a node before it, whose winner goes on.
CrownedAt(nd, at, w) == [nd EXCEPT ![at] = Bracket!Decided(@, w)]
PlayedAt(nd, at, w) ==
  [nd EXCEPT ![at] = Bracket!Decided(@, w), ![Bracket!Parent(at)] = Bracket!Advanced(@, at, w)]

\* Each of the two is such a step.
LEMMA Crowning ==
  ASSUME NEW n \in FieldSizes, NEW nd, Tree(nd, n), NEW at \in DOMAIN nd, NEW w,
         nd[at].status = "AwaitingResult", w \in {nd[at].player1, nd[at].player2},
         at[1] + 1 = Bracket!rounds(n),
         NEW nd2, nd2 = CrownedAt(nd, at, w)
  PROVE  /\ Follows(nd, nd2, n, at, w) /\ at = Final(n) /\ at \in Bracket!NodesOf(n)
<1>1. nd \in [Bracket!NodesOf(n) -> NodeRecords(n)] /\ at \in Bracket!NodesOf(n)
      /\ \A b \in Bracket!NodesOf(n) : NodeOK(nd, n, b)
  BY DEF Tree
<1>2. nd[at] \in NodeRecords(n)
  BY <1>1
<1>3. w \in 0 .. n - 1 \cup {None}
  BY <1>2 DEF NodeRecords
<1> DEFINE m == [nd[at] EXCEPT !.winner = w, !.status = "Decided"]
<1>4. /\ m \in NodeRecords(n) /\ m.winner = w /\ m.status = "Decided"
      /\ m.player1 = nd[at].player1 /\ m.player2 = nd[at].player2
      /\ m.funded1 = nd[at].funded1 /\ m.funded2 = nd[at].funded2
  BY <1>2, <1>3 DEF NodeRecords
<1>5. nd2 = [nd EXCEPT ![at] = m]
  BY DEF Bracket!Decided, CrownedAt
<1> HIDE DEF m
<1>6. nd2 \in [Bracket!NodesOf(n) -> NodeRecords(n)] /\ nd2[at] = m
      /\ \A b \in Bracket!NodesOf(n) : b # at => nd2[b] = nd[b]
  BY <1>1, <1>4, <1>5
<1>7. ASSUME NEW b \in Bracket!NodesOf(n), b[1] > 0 PROVE Left(b) # at /\ Right(b) # at
  <2>1. Left(b)[1] = b[1] - 1 /\ Right(b)[1] = b[1] - 1
    BY <1>7, Family
  <2>2. b[1] \in 0 .. Bracket!rounds(n) - 1 /\ at[1] \in 0 .. Bracket!rounds(n) - 1
        /\ Bracket!rounds(n) \in 1 .. 6
    BY <1>1, Layout, Counts
  <2> QED BY <2>1, <2>2
<1>8. at = Final(n)
  BY <1>1, Family
<1> QED BY <1>1, <1>4, <1>6, <1>7, <1>8 DEF Follows

LEMMA Advancing ==
  ASSUME NEW n \in FieldSizes, NEW nd, Tree(nd, n), NEW at \in DOMAIN nd, NEW w,
         nd[at].status = "AwaitingResult", w \in {nd[at].player1, nd[at].player2},
         at[1] + 1 < Bracket!rounds(n),
         NEW nd2, nd2 = PlayedAt(nd, at, w)
  PROVE  Follows(nd, nd2, n, at, w) /\ at \in Bracket!NodesOf(n)
<1>1. nd \in [Bracket!NodesOf(n) -> NodeRecords(n)] /\ at \in Bracket!NodesOf(n)
      /\ \A b \in Bracket!NodesOf(n) : NodeOK(nd, n, b)
  BY DEF Tree
<1>2. nd[at] \in NodeRecords(n)
  BY <1>1
<1>3. w \in 0 .. n - 1 \cup {None}
  BY <1>2 DEF NodeRecords
<1> DEFINE m == [nd[at] EXCEPT !.winner = w, !.status = "Decided"]
           up == Bracket!Parent(at)
<1>4. /\ m \in NodeRecords(n) /\ m.winner = w /\ m.status = "Decided"
      /\ m.player1 = nd[at].player1 /\ m.player2 = nd[at].player2
      /\ m.funded1 = nd[at].funded1 /\ m.funded2 = nd[at].funded2
  BY <1>2, <1>3 DEF NodeRecords
<1>5. up \in Bracket!NodesOf(n) /\ up[1] = at[1] + 1 /\ at[1] \in Nat
  BY <1>1, Family, Layout, Counts
<1>6. up # at /\ up[1] > 0
  BY <1>5
<1> DEFINE m2 == Bracket!Advanced(nd[up], at, w)
<1>7. nd2 = [nd EXCEPT ![at] = Bracket!Decided(nd[at], w),
                        ![up] = Bracket!Advanced(nd[up], at, w)]
  <2> HIDE DEF up, m, m2
  <2> QED BY <1>1, <1>5, <1>6 DEF up, PlayedAt
<1>8. Bracket!Decided(nd[at], w) = m
  BY DEF Bracket!Decided
<1>9. nd2 = [nd EXCEPT ![at] = m, ![up] = m2]
  <2> HIDE DEF up, m
  <2> QED BY <1>7, <1>8
<1> DEFINE even == at[2] % 2 = 0
           m1 == IF even THEN [nd[up] EXCEPT !.player1 = w] ELSE [nd[up] EXCEPT !.player2 = w]
<1>10. nd[up] \in NodeRecords(n)
  BY <1>1, <1>5
<1>11. /\ m1 \in NodeRecords(n) /\ m1.winner = nd[up].winner /\ m1.status = nd[up].status
       /\ m1.funded1 = nd[up].funded1 /\ m1.funded2 = nd[up].funded2
       /\ m1.player1 = IF even THEN w ELSE nd[up].player1
       /\ m1.player2 = IF even THEN nd[up].player2 ELSE w
  <2> HIDE DEF even
  <2>1. CASE even
    BY <2>1, <1>3, <1>10 DEF NodeRecords
  <2>2. CASE ~ even
    BY <2>2, <1>3, <1>10 DEF NodeRecords
  <2> QED BY <2>1, <2>2
<1>12. m2 = IF m1.player1 # None /\ m1.player2 # None
            THEN [m1 EXCEPT !.status = "AwaitingResult"] ELSE m1
  BY DEF Bracket!Advanced
<1> HIDE DEF m1
<1>13. /\ m2 \in NodeRecords(n) /\ m2.winner = m1.winner
       /\ m2.funded1 = m1.funded1 /\ m2.funded2 = m1.funded2
       /\ m2.player1 = m1.player1 /\ m2.player2 = m1.player2
       /\ \/ m2.status = m1.status
          \/ m2.status = "AwaitingResult" /\ m2.player1 # None /\ m2.player2 # None
  <2> HIDE DEF m2
  <2>1. CASE m1.player1 # None /\ m1.player2 # None
    <3>1. m2 = [m1 EXCEPT !.status = "AwaitingResult"]
      BY <1>12, <2>1
    <3> QED BY <2>1, <3>1, <1>11 DEF NodeRecords
  <2>2. CASE ~ (m1.player1 # None /\ m1.player2 # None)
    <3>1. m2 = m1
      BY <1>12, <2>2
    <3> QED BY <3>1, <1>11
  <2> QED BY <2>1, <2>2
<1>14. /\ nd2 \in [Bracket!NodesOf(n) -> NodeRecords(n)] /\ nd2[at] = m /\ nd2[up] = m2
       /\ \A b \in Bracket!NodesOf(n) : b # at /\ b # up => nd2[b] = nd[b]
  <2> HIDE DEF m, m2, up
  <2> QED BY <1>1, <1>4, <1>5, <1>6, <1>9, <1>13
<1>15. (even => Left(up) = at /\ Right(up) # at) /\ (~ even => Right(up) = at /\ Left(up) # at)
  <2>1. IF even THEN Left(up) = at ELSE Right(up) = at
    BY <1>1, <1>5, <1>6, Feeds
  <2>2. Left(up)[2] = 2 * up[2] /\ Right(up)[2] = 2 * up[2] + 1 /\ up[2] \in Int
    BY <1>5, <1>6, Family, Layout
  <2>3. Left(up) # Right(up)
    BY <2>2
  <2> QED BY <2>1, <2>3
<1>16. nd[up].winner = None
  <2>1. nd[at].winner = None
    BY <1>1 DEF NodeOK
  <2>2. nd[up].player1 = nd[Left(up)].winner /\ nd[up].player2 = nd[Right(up)].winner
    BY <1>1, <1>5, <1>6 DEF NodeOK
  <2>3. nd[up].player1 = None \/ nd[up].player2 = None
    BY <1>15, <2>1, <2>2
  <2>4. NodeOK(nd, n, up)
    BY <1>1, <1>5
  <2> QED BY <2>3, <2>4 DEF NodeOK
<1> HIDE DEF m, m2, up, even
<1>17. ASSUME NEW b \in Bracket!NodesOf(n), b[1] > 0, b # up
       PROVE  Left(b) # at /\ Right(b) # at
  BY <1>1, <1>17, Feeds DEF up
<1>18. ASSUME NEW b \in Bracket!NodesOf(n)
       PROVE  /\ nd2[b].funded1 = nd[b].funded1 /\ nd2[b].funded2 = nd[b].funded2
              /\ b[1] = 0 => nd2[b].player1 = nd[b].player1 /\ nd2[b].player2 = nd[b].player2
              /\ b[1] > 0 =>
                   /\ nd2[b].player1 = IF Left(b) = at THEN w ELSE nd[b].player1
                   /\ nd2[b].player2 = IF Right(b) = at THEN w ELSE nd[b].player2
              /\ b # at =>
                   /\ nd2[b].winner = nd[b].winner
                   /\ \/ nd2[b].status = nd[b].status
                      \/ /\ nd2[b].status = "AwaitingResult" /\ b[1] > 0 /\ nd[b].winner = None
                         /\ nd2[b].player1 # None /\ nd2[b].player2 # None
  <2>1. CASE b = up
    <3>1. b[1] # 0 /\ b # at /\ nd2[b] = m2
      BY <1>6, <1>14, <2>1
    <3>2. /\ m2.player1 = IF Left(up) = at THEN w ELSE nd[up].player1
          /\ m2.player2 = IF Right(up) = at THEN w ELSE nd[up].player2
      BY <1>11, <1>13, <1>15
    <3> QED BY <1>6, <1>11, <1>13, <1>16, <2>1, <3>1, <3>2
  <2>2. CASE b = at
    <3>1. nd2[b] = m
      BY <1>14, <2>2
    <3> QED BY <1>4, <1>6, <1>17, <2>2, <3>1
  <2>3. CASE b # at /\ b # up
    <3>1. nd2[b] = nd[b]
      BY <1>14, <2>3
    <3> QED BY <1>17, <2>3, <3>1
  <2> QED BY <2>1, <2>2, <2>3
<1> QED BY <1>1, <1>4, <1>14, <1>18 DEF Follows

-----------------------------------------------------------------------------
(* Who paid, and how much that is.                                         *)

\* When the final is ready every earlier node was decided, so everybody has
\* paid.
LEMMA AllPaid ==
  ASSUME NEW n \in FieldSizes, NEW nd, Tree(nd, n), Paid(nd, n),
         nd[Final(n)].status # "AwaitingFunding"
  PROVE  Payers(nd) = 0 .. n - 1
<1>1. nd \in [Bracket!NodesOf(n) -> NodeRecords(n)]
      /\ \A b \in Bracket!NodesOf(n) : NodeOK(nd, n, b)
  BY DEF Tree
<1>2. Bracket!rounds(n) \in 1 .. 6
  BY Counts
<1> DEFINE Late(r) == \A a \in Bracket!NodesOf(n) : a[1] = r => nd[a].status # "AwaitingFunding"
           Dues == {r \in 0 .. Bracket!rounds(n) - 1 : Late(r)}
<1>3. ASSUME NEW r \in 0 .. Bracket!rounds(n) - 1, r > 0, Late(r) PROVE Late(r - 1)
  <2>1. ASSUME NEW a \in Bracket!NodesOf(n), a[1] = r - 1 PROVE nd[a].status # "AwaitingFunding"
    <3> DEFINE up == Bracket!Parent(a)
    <3>0. a[1] + 1 < Bracket!rounds(n) /\ a[1] + 1 = r
      BY <1>2, <1>3, <2>1
    <3>1. up \in Bracket!NodesOf(n) /\ up[1] = r
      BY <3>0, Family
    <3>2. nd[up].status # "AwaitingFunding" /\ up[1] > 0
      BY <1>3, <3>1
    <3>3. Left(up) = a \/ Right(up) = a
      <4>1. IF a[2] % 2 = 0 THEN Left(up) = a ELSE Right(up) = a
        BY <3>0, <3>1, <3>2, Feeds
      <4> QED BY <4>1
    <3> HIDE DEF up
    <3>4. nd[a].winner # None
      <4>1. nd[up].player1 # None /\ nd[up].player2 # None
            /\ nd[up].player1 = nd[Left(up)].winner /\ nd[up].player2 = nd[Right(up)].winner
        BY <1>1, <3>1, <3>2 DEF NodeOK
      <4> QED BY <3>3, <4>1
    <3>5. nd[a].status = "Decided"
      BY <1>1, <3>4 DEF NodeOK
    <3> QED BY <3>5
  <2> QED BY <2>1
<1>4. Late(Bracket!rounds(n) - 1)
  <2>1. ASSUME NEW a \in Bracket!NodesOf(n), a[1] = Bracket!rounds(n) - 1 PROVE a = Final(n)
    BY <1>2, <2>1, Family
  <2> QED BY <2>1
<1> HIDE DEF Late
<1>5. Late(0)
  <2>1. Dues \subseteq Nat /\ Dues # {}
    BY <1>2, <1>4
  <2>2. PICK r \in Dues : \A k \in Dues : r <= k
    <3> HIDE DEF Dues
    <3> QED BY <2>1, LeastNat
  <2>3. r = 0
    <3>1. ASSUME r > 0 PROVE FALSE
      <4>1. r - 1 \in Dues
        BY <1>2, <1>3, <2>2, <3>1
      <4> QED BY <1>2, <2>2, <4>1
    <3> QED BY <1>2, <2>2, <3>1
  <2> QED BY <2>2, <2>3
<1>6. \A a \in Bracket!NodesOf(n) : a[1] = 0 =>
        /\ nd[a].funded1 /\ nd[a].funded2
        /\ nd[a].player1 = a[2] /\ nd[a].player2 = n - 1 - a[2]
  BY <1>1, <1>5 DEF Late, Paid, NodeOK
<1>7. DOMAIN nd = Bracket!NodesOf(n)
  BY <1>1
<1>8. ASSUME NEW q \in Payers(nd) PROVE q \in 0 .. n - 1
  <2>1. PICK a \in Bracket!NodesOf(n) : \/ nd[a].funded1 /\ q = nd[a].player1
                                        \/ nd[a].funded2 /\ q = nd[a].player2
    BY <1>7 DEF Payers
  <2>2. a[1] = 0
    BY <2>1, FundedFirst
  <2> QED BY <2>1, <2>2, OnePlace
<1>9. ASSUME NEW q \in 0 .. n - 1 PROVE q \in Payers(nd)
  <2>0. n \in Nat /\ 2 * (n \div 2) = n /\ n \div 2 \in Nat
    BY DEF FieldSizes
  <2>1. CASE q < n \div 2
    <3> DEFINE a == <<0, q>>
    <3>1. a \in Bracket!NodesOf(n) /\ a[1] = 0 /\ a[2] = q
      <4>1. q \in 0 .. n \div 2 - 1
        BY <2>0, <2>1
      <4> QED BY <1>2, <4>1, Layout, Counts
    <3> HIDE DEF a
    <3> QED BY <1>6, <1>7, <3>1 DEF Payers
  <2>2. CASE ~ (q < n \div 2)
    <3> DEFINE a == <<0, n - 1 - q>>
    <3>1. a \in Bracket!NodesOf(n) /\ a[1] = 0 /\ a[2] = n - 1 - q
      <4>1. n - 1 - q \in 0 .. n \div 2 - 1
        BY <2>0, <2>2
      <4> QED BY <1>2, <4>1, Layout, Counts
    <3>2. n - 1 - a[2] = q
      BY <2>0, <3>1
    <3> HIDE DEF a
    <3> QED BY <1>6, <1>7, <3>1, <3>2 DEF Payers
  <2> QED BY <2>1, <2>2
<1> QED BY <1>8, <1>9

\* Only entrants pay.
LEMMA PayersAreEntrants ==
  ASSUME NEW n \in FieldSizes, NEW nd, Tree(nd, n)
  PROVE  /\ Payers(nd) \subseteq 0 .. n - 1
         /\ IsFiniteSet(Payers(nd)) /\ Cardinality(Payers(nd)) \in Nat
<1>1. nd \in [Bracket!NodesOf(n) -> NodeRecords(n)]
  BY DEF Tree
<1>2. ASSUME NEW q \in Payers(nd) PROVE q \in 0 .. n - 1
  <2>1. PICK a \in Bracket!NodesOf(n) : \/ nd[a].funded1 /\ q = nd[a].player1
                                        \/ nd[a].funded2 /\ q = nd[a].player2
    BY <1>1 DEF Payers
  <2>2. a[1] = 0
    BY <2>1, FundedFirst
  <2> QED BY <2>1, <2>2, OnePlace
<1>3. IsFiniteSet(0 .. n - 1)
  <2>1. 0 \in Int /\ n - 1 \in Int
    BY DEF FieldSizes
  <2> QED BY <2>1, FS_Interval
<1> QED BY <1>2, <1>3, FS_Subset, FS_CardinalityType

\* A node, and a bracket, whose marks a refund has cleared.
Unfunded(m) == [m EXCEPT !.funded1 = FALSE, !.funded2 = FALSE]

\* Clearing the marks changes nothing else.
LEMMA Clearing ==
  ASSUME NEW n, NEW m \in NodeRecords(n)
  PROVE  /\ Unfunded(m) \in NodeRecords(n)
         /\ Unfunded(m).funded1 = FALSE /\ Unfunded(m).funded2 = FALSE
         /\ Unfunded(m).player1 = m.player1 /\ Unfunded(m).player2 = m.player2
         /\ Unfunded(m).winner = m.winner /\ Unfunded(m).status = m.status
BY DEF Unfunded, NodeRecords

AllUnfunded(nd) == [at \in DOMAIN nd |-> Unfunded(nd[at])]

\* And the bracket is still a tree.
LEMMA Refunding ==
  ASSUME NEW n \in FieldSizes, NEW nd, Tree(nd, n), NEW nd2, nd2 = AllUnfunded(nd)
  PROVE  Tree(nd2, n)
<1>1. nd \in [Bracket!NodesOf(n) -> NodeRecords(n)]
      /\ \A b \in Bracket!NodesOf(n) : NodeOK(nd, n, b)
  BY DEF Tree
<1>2. ASSUME NEW b \in Bracket!NodesOf(n)
      PROVE  /\ nd2[b] \in NodeRecords(n) /\ nd2[b].funded1 = FALSE /\ nd2[b].funded2 = FALSE
             /\ nd2[b].player1 = nd[b].player1 /\ nd2[b].player2 = nd[b].player2
             /\ nd2[b].winner = nd[b].winner /\ nd2[b].status = nd[b].status
  <2>1. nd[b] \in NodeRecords(n)
    BY <1>1
  <2>3. nd2[b] = Unfunded(nd[b])
    BY <1>1 DEF AllUnfunded
  <2>4. PICK m : m = nd[b]
    OBVIOUS
  <2>5. m \in NodeRecords(n)
    BY <2>1, <2>4
  <2>6. /\ Unfunded(m) \in NodeRecords(n)
        /\ Unfunded(m).funded1 = FALSE /\ Unfunded(m).funded2 = FALSE
        /\ Unfunded(m).player1 = m.player1 /\ Unfunded(m).player2 = m.player2
        /\ Unfunded(m).winner = m.winner /\ Unfunded(m).status = m.status
    BY <2>5, Clearing
  <2>7. nd2[b] = Unfunded(m)
    BY <2>3, <2>4
  <2> QED BY <2>4, <2>6, <2>7
<1>3. DOMAIN nd2 = Bracket!NodesOf(n) /\ nd2 = [b \in DOMAIN nd2 |-> nd2[b]]
  BY <1>1 DEF AllUnfunded
<1>4. nd2 \in [Bracket!NodesOf(n) -> NodeRecords(n)]
  BY <1>2, <1>3
<1>5. ASSUME NEW b \in Bracket!NodesOf(n) PROVE NodeOK(nd2, n, b)
  <2>1. NodeOK(nd, n, b)
    BY <1>1
  <2>2. b[1] > 0 => Left(b) \in Bracket!NodesOf(n) /\ Right(b) \in Bracket!NodesOf(n)
    BY Family
  <2>3. b[1] > 0 => nd2[b].player1 = nd2[Left(b)].winner /\ nd2[b].player2 = nd2[Right(b)].winner
    BY <1>2, <2>1, <2>2 DEF NodeOK
  <2>4. ASSUME nd2[b].winner # None, NEW r \in 0 .. b[1]
        PROVE  \E c \in Bracket!NodesOf(n) : c[1] = r /\ nd2[c].winner = nd2[b].winner
    <3>1. nd[b].winner # None /\ nd2[b].winner = nd[b].winner
      BY <1>2, <2>4
    <3>2. PICK c \in Bracket!NodesOf(n) : c[1] = r /\ nd[c].winner = nd[b].winner
      BY <2>1, <3>1 DEF NodeOK
    <3>3. nd2[c].winner = nd[c].winner
      BY <1>2
    <3> QED BY <3>1, <3>2, <3>3
  <2> QED BY <1>2, <2>1, <2>3, <2>4 DEF NodeOK
<1> QED BY <1>4, <1>5 DEF Tree

\* Fees: the products.
LEMMA OneMoreFee ==
  ASSUME NEW k \in Nat, NEW f \in Nat
  PROVE  f * (k + 1) = f * k + f /\ f * k \in Nat /\ f * 0 = 0
<1>1. f * k \in Nat /\ f * 0 = 0
  OBVIOUS
<1>2. f * (k + 1) = f * k + f
  OBVIOUS
<1> QED BY <1>1, <1>2

\* A sum of one amount over some members is that amount times their number.
LEMMA SumOfFees ==
  ASSUME NEW S, IsFiniteSet(S), NEW T \in SUBSET S, NEW c \in Nat,
         NEW f, \A x \in S : f[x] = IF x \in T THEN c ELSE 0
  PROVE  Sum(f, S) = c * Cardinality(T)
<1> DEFINE Fine(R) == Sum(f, R) = c * Cardinality(R \cap T)
           Bad == {R \in SUBSET S : ~ Fine(R)}
<1>1. ASSUME Bad # {} PROVE FALSE
  <2>1. PICK R \in Bad : \A Q \in Bad : Q \subseteq R => Q = R
    <3>1. Bad \in SUBSET SUBSET S
      OBVIOUS
    <3> HIDE DEF Bad
    <3> QED BY <1>1, <3>1, SmallestSet
  <2>2. IsFiniteSet(R)
    BY <2>1, FS_Subset
  <2>3. CASE R = {}
    <3>1. R \cap T = {}
      BY <2>3
    <3>2. Sum(f, R) = 0 /\ Cardinality(R \cap T) = 0
      BY <2>3, <3>1, SumEmpty, FS_EmptySet
    <3>3. c * 0 = 0
      OBVIOUS
    <3> QED BY <2>1, <3>2, <3>3
  <2>4. CASE R # {}
    <3>1. PICK x \in R : TRUE
      BY <2>4
    <3>2. Fine(R \ {x})
      BY <2>1
    <3>3. Sum(f, R) = f[x] + Sum(f, R \ {x})
      <4>1. \A y \in R : f[y] \in Int
        BY <2>1
      <4> QED BY <2>2, <4>1, SumTakeOut
    <3> DEFINE Q == (R \ {x}) \cap T
               k == Cardinality(Q)
    <3>4. IsFiniteSet(Q) /\ k \in Nat
      BY <2>2, FS_Subset, FS_CardinalityType
    <3>5. c * k \in Nat /\ c * (k + 1) = c * k + c
      <4> HIDE DEF k
      <4> QED BY <3>4, OneMoreFee
    <3>6. CASE x \in T
      <4>1. R \cap T = Q \cup {x} /\ x \notin Q
        BY <3>6
      <4>2. Cardinality(R \cap T) = k + 1
        <5> HIDE DEF Q
        <5> QED BY <3>4, <4>1, FS_AddElement
      <4>3. f[x] = c
        BY <2>1, <3>6
      <4>4. Sum(f, R \ {x}) = c * k
        BY <3>2
      <4> HIDE DEF k, Q
      <4> QED BY <2>1, <3>3, <3>5, <4>2, <4>3, <4>4
    <3>7. CASE x \notin T
      <4>1. R \cap T = Q
        BY <3>7
      <4>2. f[x] = 0
        BY <2>1, <3>7
      <4>4. Sum(f, R \ {x}) = c * k
        BY <3>2
      <4>5. Sum(f, R) = c * k /\ k = Cardinality(R \cap T)
        <5>1. k = Cardinality(R \cap T)
          BY <4>1
        <5> HIDE DEF k, Q
        <5> QED BY <3>3, <3>5, <4>2, <4>4, <5>1
      <4> QED BY <2>1, <4>5
    <3> QED BY <3>6, <3>7
  <2> QED BY <2>3, <2>4
<1>2. Fine(S) /\ S \cap T = T
  BY <1>1
<1> QED BY <1>2

\* The entrants of every field are among Entrants.
LEMMA EntrantsOf ==
  /\ \A n \in PlayerCounts : n \in FieldSizes /\ 0 .. n - 1 \subseteq Bracket!Entrants
  /\ PlayerCounts # {} => IsFiniteSet(Bracket!Entrants)
<1>0. \A n \in FieldSizes : n \in Int /\ 64 - n \in Nat
  BY DEF FieldSizes
<1>1. \A n \in PlayerCounts : n \in FieldSizes /\ n \in Int /\ 64 - n \in Nat
  BY <1>0, Sizes
<1>2. ASSUME PlayerCounts # {}
      PROVE  \E m \in PlayerCounts : \A n \in PlayerCounts : m >= n
  <2> DEFINE Below == {64 - n : n \in PlayerCounts}
  <2>1. Below \subseteq Nat /\ Below # {}
    BY <1>1, <1>2
  <2>2. PICK x \in Below : \A y \in Below : x <= y
    <3> HIDE DEF Below
    <3> QED BY <2>1, LeastNat
  <2>3. PICK m \in PlayerCounts : x = 64 - m
    BY <2>2
  <2>4. ASSUME NEW n \in PlayerCounts PROVE m >= n
    <3>1. 64 - m <= 64 - n
      BY <2>2, <2>3
    <3> QED BY <1>1, <3>1
  <2> QED BY <2>4
<1>3. PlayerCounts # {} =>
        /\ Bracket!Max(PlayerCounts) \in PlayerCounts
        /\ \A n \in PlayerCounts : Bracket!Max(PlayerCounts) >= n
  BY <1>2 DEF Bracket!Max
<1>4. ASSUME PlayerCounts # {} PROVE IsFiniteSet(Bracket!Entrants)
  <2>1. Bracket!Max(PlayerCounts) - 1 \in Int /\ 0 \in Int
    BY <1>1, <1>3, <1>4
  <2> QED BY <2>1, FS_Interval DEF Bracket!Entrants
<1>5. ASSUME NEW n \in PlayerCounts
      PROVE  n \in FieldSizes /\ 0 .. n - 1 \subseteq Bracket!Entrants
  <2>1. n \in FieldSizes /\ Bracket!Max(PlayerCounts) \in Int /\ n \in Int
        /\ Bracket!Max(PlayerCounts) >= n
    BY <1>1, <1>3
  <2> QED BY <2>1 DEF Bracket!Entrants
<1> QED BY <1>4, <1>5

\* The contract's sum over a set is Sum.
LEMMA BracketSumIsSum ==
  ASSUME NEW S, NEW f
  PROVE  Bracket!MapThenSumSet(LAMBDA x : f[x], S) = Sum(f, S)
BY DEF Bracket!MapThenSumSet, Bracket!MapThenFoldSet, Sum, Sums, Pick

-----------------------------------------------------------------------------
(* One tournament's books.                                                 *)

\* A tournament whose fees the contract holds.
Started(t) == t # None /\ t.state \in {"Registration", "InProgress"}
NothingBack(ret) == \A p \in Bracket!Entrants : ret[p] = 0

\* One tournament's books: its record t, its bracket nd, what it received and returned.
Accounts(t, nd, rec, ret) ==
  /\ t \in Bracket!Tournament /\ t.player_count \in PlayerCounts /\ t.entry_fee \in Fees
  /\ Tree(nd, t.player_count)
  /\ t.champion # None <=> t.state = "Completed"
  /\ t.state # "Cancelled" => Paid(nd, t.player_count)
  /\ t.state \in {"Registration", "InProgress"} =>
       /\ t.funded_count = Cardinality(Payers(nd)) /\ rec = t.entry_fee * t.funded_count
       /\ NothingBack(ret)
  /\ t.state = "Completed" =>
       /\ t.champion = nd[Final(t.player_count)].winner /\ t.champion \in 0 .. t.player_count - 1
       /\ rec = t.entry_fee * t.player_count
       /\ \A p \in Bracket!Entrants : ret[p] = IF p = t.champion THEN rec ELSE 0
  /\ t.state = "Cancelled" =>
       /\ Sum(ret, Bracket!Entrants) = rec
       /\ \A p \in Bracket!Entrants : ret[p] \in {0, t.entry_fee}
Row(t, nd, rec, ret) ==
  IF t = None THEN rec = 0 /\ NothingBack(ret) ELSE Accounts(t, nd, rec, ret)

\* What is assumed of the constants.
LEMMA BracketConstants ==
  /\ PlayerCounts \subseteq FieldSizes /\ Fees \subseteq Nat /\ Reserve \in Nat
  /\ None \notin Nat /\ None \notin Bracket!Tournament /\ TIMEOUT_LEDGERS \in Nat
BY ContractsAssumption, Sizes DEF Bracket!BracketAssumption

\* A new tournament's books.
LEMMA Opened ==
  ASSUME NEW n \in PlayerCounts, NEW fee \in Fees, NEW now \in Nat, NEW ret, NothingBack(ret)
  PROVE  LET t == [entry_fee |-> fee, player_count |-> n, funded_count |-> 0,
                   state |-> "Registration", champion |-> None, created_ledger |-> now] IN
         /\ Accounts(t, [at \in Bracket!NodesOf(n) |-> Bracket!Seeded(n, at)], 0, ret)
         /\ Started(t)
<1> DEFINE t == [entry_fee |-> fee, player_count |-> n, funded_count |-> 0,
                 state |-> "Registration", champion |-> None, created_ledger |-> now]
           nd == [at \in Bracket!NodesOf(n) |-> Bracket!Seeded(n, at)]
<1>1. n \in FieldSizes /\ n \in Nat /\ fee \in Nat
  <2>1. \A k \in FieldSizes : k \in Nat
    BY DEF FieldSizes
  <2> QED BY <2>1, BracketConstants
<1>2. t \in Bracket!Tournament /\ t # None
  <2>1. t \in Bracket!Tournament
    BY <1>1 DEF Bracket!Tournament
  <2> QED BY <2>1, BracketConstants
<1>3. Tree(nd, n) /\ Paid(nd, n) /\ Payers(nd) = {}
  BY <1>1, Seeding
<1> HIDE DEF nd
<1>4. Cardinality(Payers(nd)) = 0 /\ fee * 0 = 0
  BY <1>1, <1>3, FS_EmptySet
<1>5. Accounts(t, nd, 0, ret) /\ Started(t)
  BY <1>2, <1>3, <1>4 DEF Accounts, Started
<1> QED BY <1>5 DEF nd

\* The record after a fee.
Entered(t) ==
  [t EXCEPT !.funded_count = @ + 1,
            !.state = IF t.funded_count + 1 = t.player_count THEN "InProgress" ELSE @]

\* A fee keeps the books: one payer more, one fee more.
LEMMA Entering ==
  ASSUME NEW t, NEW nd, NEW rec, NEW ret, Accounts(t, nd, rec, ret), Started(t),
         NEW at \in DOMAIN nd, at[1] = 0, NEW p,
         (nd[at].player1 = p /\ ~ nd[at].funded1) \/ (nd[at].player2 = p /\ ~ nd[at].funded2),
         NEW nd2, nd2 = FilledAt(nd, at, p)
  PROVE  Accounts(Entered(t), nd2, rec + t.entry_fee, ret) /\ Started(Entered(t))
<1> DEFINE n == t.player_count
           t2 == Entered(t)
<1>1. n \in FieldSizes /\ t \in Bracket!Tournament /\ t.entry_fee \in Nat /\ t.entry_fee \in Fees
      /\ n \in PlayerCounts
  BY BracketConstants DEF Accounts
<1>2. Tree(nd, n) /\ Paid(nd, n)
  BY DEF Accounts, Started
<1>3. /\ Tree(nd2, n) /\ Paid(nd2, n) /\ p \notin Payers(nd)
      /\ Payers(nd2) = Payers(nd) \cup {p}
  <2>1. (nd[at].player1 = p /\ ~ nd[at].funded1) \/ (nd[at].player2 = p /\ ~ nd[at].funded2)
    OBVIOUS
  <2>2. nd2 = FilledAt(nd, at, p) /\ at \in DOMAIN nd /\ at[1] = 0
    OBVIOUS
  <2> HIDE DEF n
  <2> QED BY ONLY <1>1, <1>2, <2>1, <2>2, Paying
<1>4. IsFiniteSet(Payers(nd)) /\ Cardinality(Payers(nd)) \in Nat
  <2> HIDE DEF n
  <2> QED BY <1>1, <1>2, PayersAreEntrants
<1>5. Cardinality(Payers(nd2)) = Cardinality(Payers(nd)) + 1
  BY <1>3, <1>4, FS_AddElement
<1>6. t.funded_count = Cardinality(Payers(nd)) /\ rec = t.entry_fee * t.funded_count
      /\ NothingBack(ret) /\ t.champion = None
  BY DEF Accounts, Started
<1>7. /\ t2 \in Bracket!Tournament /\ t2.player_count = n /\ t2.entry_fee = t.entry_fee
      /\ t2.funded_count = t.funded_count + 1 /\ t2.champion = None
      /\ t2.state \in {"Registration", "InProgress"}
  <2>1. t.state \in {"Registration", "InProgress"}
    BY DEF Started
  <2>2. t.funded_count + 1 \in Nat
    BY <1>4, <1>6
  <2> DEFINE k == t.funded_count + 1
             s == IF k = t.player_count THEN "InProgress" ELSE t.state
  <2>3. s \in {"Registration", "InProgress"}
    BY <2>1
  <2>4. t2 = [t EXCEPT !.funded_count = k, !.state = s]
    BY DEF Entered
  <2>5. k = t.funded_count + 1
    OBVIOUS
  <2> HIDE DEF k, s, t2
  <2> QED BY <1>1, <1>6, <2>2, <2>3, <2>4, <2>5 DEF Bracket!Tournament
<1>8. t.entry_fee * (t.funded_count + 1) = rec + t.entry_fee
  <2>1. t.funded_count \in Nat
    BY <1>4, <1>6
  <2> QED BY <1>1, <1>6, <2>1, OneMoreFee
<1>9. t2 # None
  BY <1>7, BracketConstants
<1> HIDE DEF n, t2
<1>10. Accounts(t2, nd2, rec + t.entry_fee, ret)
  BY <1>1, <1>3, <1>5, <1>6, <1>7, <1>8 DEF Accounts
<1> QED BY <1>7, <1>9, <1>10 DEF Started, t2

\* A result before the final keeps them.
LEMMA Playing ==
  ASSUME NEW t, NEW nd, NEW rec, NEW ret, Accounts(t, nd, rec, ret), Started(t),
         NEW at \in DOMAIN nd, NEW w,
         nd[at].status = "AwaitingResult", w \in {nd[at].player1, nd[at].player2},
         at[1] + 1 < Bracket!rounds(t.player_count),
         NEW nd2, nd2 = PlayedAt(nd, at, w)
  PROVE  Accounts(t, nd2, rec, ret)
<1> DEFINE n == t.player_count
<1>1. n \in FieldSizes
  BY BracketConstants DEF Accounts
<1>2. Tree(nd, n) /\ Paid(nd, n)
  BY DEF Accounts, Started
<1>3. Tree(nd2, n) /\ Paid(nd2, n) /\ Payers(nd2) = Payers(nd)
  <2>1. at[1] + 1 < Bracket!rounds(n)
    OBVIOUS
  <2> HIDE DEF n
  <2>2. Follows(nd, nd2, n, at, w) /\ at \in Bracket!NodesOf(n)
    BY <1>1, <1>2, <2>1, Advancing
  <2>3. nd[at].status = "AwaitingResult" /\ w \in {nd[at].player1, nd[at].player2}
    OBVIOUS
  <2> QED BY ONLY <1>1, <1>2, <2>2, <2>3, Following
<1>4. t.state \in {"Registration", "InProgress"}
  BY DEF Started
<1> QED BY <1>3, <1>4 DEF Accounts

\* The record after the final, and what its champion got.
Crowned(t, w) == [t EXCEPT !.champion = w, !.state = "Completed"]
PaidOut(ret, w, amount) == [ret EXCEPT ![w] = @ + amount]

\* The final keeps them: everybody had paid, and all of it goes to the
\* champion.
LEMMA Finishing ==
  ASSUME NEW t, NEW nd, NEW rec, NEW ret, Accounts(t, nd, rec, ret), Started(t),
         ret \in [Bracket!Entrants -> Int],
         NEW at \in DOMAIN nd, NEW w,
         nd[at].status = "AwaitingResult", w \in {nd[at].player1, nd[at].player2},
         at[1] + 1 = Bracket!rounds(t.player_count),
         NEW nd2, nd2 = CrownedAt(nd, at, w),
         NEW ret2, ret2 = PaidOut(ret, w, Bracket!payout(t))
  PROVE  /\ Accounts(Crowned(t, w), nd2, rec, ret2) /\ ~ Started(Crowned(t, w))
         /\ Bracket!payout(t) = rec /\ rec \in Nat /\ ret2 \in [Bracket!Entrants -> Int]
<1> DEFINE n == t.player_count
           t2 == Crowned(t, w)
<1>1. n \in FieldSizes /\ t \in Bracket!Tournament /\ t.entry_fee \in Nat /\ t.entry_fee \in Fees
      /\ n \in PlayerCounts
  BY BracketConstants DEF Accounts
<1>2. Tree(nd, n) /\ Paid(nd, n)
  BY DEF Accounts, Started
<1>3. /\ Tree(nd2, n) /\ Paid(nd2, n) /\ Payers(nd2) = Payers(nd) /\ w \in 0 .. n - 1
      /\ at = Final(n) /\ nd2[Final(n)].winner = w
      /\ nd[Final(n)].status # "AwaitingFunding"
  <2>1. at[1] + 1 = Bracket!rounds(n)
    OBVIOUS
  <2> HIDE DEF n
  <2>2. Follows(nd, nd2, n, at, w) /\ at \in Bracket!NodesOf(n) /\ at = Final(n)
    BY <1>1, <1>2, <2>1, Crowning
  <2>3. nd2[at].winner = w
    BY <2>2 DEF Follows
  <2> QED BY <1>1, <1>2, <2>2, <2>3, Following
<1>4. Payers(nd) = 0 .. n - 1
  <2> HIDE DEF n
  <2> QED BY <1>1, <1>2, <1>3, AllPaid
<1>5. Cardinality(Payers(nd)) = n /\ n \in Nat
  <2>1. n \in Nat /\ 0 \in Int /\ n - 1 \in Int /\ (n - 1) - 0 + 1 = n /\ ~ (0 > n - 1)
    <3>1. \A k \in FieldSizes : k \in Nat /\ k > 0
      BY DEF FieldSizes
    <3> HIDE DEF n
    <3> QED BY <1>1, <3>1
  <2> HIDE DEF n
  <2> QED BY <1>4, <2>1, FS_Interval
<1>6. t.funded_count = Cardinality(Payers(nd)) /\ rec = t.entry_fee * t.funded_count
      /\ NothingBack(ret)
  BY DEF Accounts, Started
<1>7. rec = t.entry_fee * n /\ Bracket!payout(t) = rec /\ rec \in Nat
  BY <1>1, <1>5, <1>6, OneMoreFee DEF Bracket!payout
<1>8. w \in Bracket!Entrants /\ w \in Nat
  <2>1. 0 .. n - 1 \subseteq Bracket!Entrants
    BY <1>1, EntrantsOf
  <2> QED BY <1>3, <2>1
<1>9. ret2 \in [Bracket!Entrants -> Int]
      /\ \A p \in Bracket!Entrants : ret2[p] = IF p = w THEN rec ELSE 0
  <2>1. \A p \in Bracket!Entrants : ret[p] = 0
    BY <1>6 DEF NothingBack
  <2>2. ret2 = [ret EXCEPT ![w] = 0 + rec]
    BY <1>7, <1>8, <2>1 DEF PaidOut
  <2> QED BY <1>7, <1>8, <2>1, <2>2
<1>10. /\ t2 \in Bracket!Tournament /\ t2.player_count = n /\ t2.entry_fee = t.entry_fee
       /\ t2.champion = w /\ t2.state = "Completed"
  BY <1>1, <1>8 DEF Bracket!Tournament, Crowned
<1>11. w # None
  BY <1>8, BracketConstants
<1> HIDE DEF n, t2
<1>12. Accounts(t2, nd2, rec, ret2)
  BY <1>1, <1>3, <1>7, <1>9, <1>10, <1>11 DEF Accounts
<1>13. ~ Started(t2)
  BY <1>10 DEF Started
<1> QED BY <1>7, <1>9, <1>12, <1>13 DEF t2

\* The record after a cancellation or a timeout, and what everybody got.
Called(t) == [t EXCEPT !.funded_count = 0, !.state = "Cancelled"]
RefundedAll(ret, nd, fee) ==
  [p \in Bracket!Entrants |-> ret[p] + IF p \in Payers(nd) THEN fee ELSE 0]

\* A refund keeps them: each payer gets a fee back, and that is all there was.
LEMMA Returning ==
  ASSUME NEW t, NEW nd, NEW rec, NEW ret, Accounts(t, nd, rec, ret), Started(t),
         ret \in [Bracket!Entrants -> Int],
         NEW nd2, nd2 = AllUnfunded(nd),
         NEW ret2, ret2 = RefundedAll(ret, nd, t.entry_fee)
  PROVE  /\ Accounts(Called(t), nd2, rec, ret2) /\ ~ Started(Called(t))
         /\ t.entry_fee * Cardinality(Payers(nd)) = rec /\ rec \in Nat
         /\ ret2 \in [Bracket!Entrants -> Int]
<1> DEFINE n == t.player_count
           t2 == Called(t)
<1>1. n \in FieldSizes /\ t \in Bracket!Tournament /\ t.entry_fee \in Nat /\ t.entry_fee \in Fees
      /\ n \in PlayerCounts
  BY BracketConstants DEF Accounts
<1>2. Tree(nd, n)
  BY DEF Accounts, Started
<1>3. Tree(nd2, n)
  <2> HIDE DEF n
  <2> QED BY <1>1, <1>2, Refunding
<1>4. Payers(nd) \subseteq 0 .. n - 1 /\ Cardinality(Payers(nd)) \in Nat
  <2> HIDE DEF n
  <2> QED BY <1>1, <1>2, PayersAreEntrants
<1>5. Payers(nd) \in SUBSET Bracket!Entrants /\ IsFiniteSet(Bracket!Entrants)
  <2>1. 0 .. n - 1 \subseteq Bracket!Entrants /\ IsFiniteSet(Bracket!Entrants)
    BY <1>1, EntrantsOf
  <2> QED BY <1>4, <2>1
<1>6. /\ t.funded_count = Cardinality(Payers(nd)) /\ rec = t.entry_fee * t.funded_count
      /\ NothingBack(ret) /\ t.champion = None
  BY DEF Accounts, Started
<1>7. t.entry_fee * Cardinality(Payers(nd)) = rec /\ rec \in Nat
  BY <1>1, <1>4, <1>6, OneMoreFee
<1>8. \A p \in Bracket!Entrants : ret2[p] = IF p \in Payers(nd) THEN t.entry_fee ELSE 0
  <2>1. ASSUME NEW p \in Bracket!Entrants
        PROVE  ret2[p] = IF p \in Payers(nd) THEN t.entry_fee ELSE 0
    <3>1. ret2[p] = ret[p] + IF p \in Payers(nd) THEN t.entry_fee ELSE 0
      BY DEF RefundedAll
    <3>2. ret[p] = 0
      BY <1>6 DEF NothingBack
    <3>3. CASE p \in Payers(nd)
      BY <1>1, <3>1, <3>2, <3>3
    <3>4. CASE p \notin Payers(nd)
      BY <3>1, <3>2, <3>4
    <3> QED BY <3>3, <3>4
  <2> QED BY <2>1
<1>9. ret2 \in [Bracket!Entrants -> Int]
  <2>1. \A p \in Bracket!Entrants : ret2[p] \in Int
    BY <1>1, <1>8
  <2>2. DOMAIN ret2 = Bracket!Entrants /\ ret2 = [p \in DOMAIN ret2 |-> ret2[p]]
    BY DEF RefundedAll
  <2> QED BY <2>1, <2>2
<1>10. Sum(ret2, Bracket!Entrants) = rec
  BY <1>1, <1>5, <1>7, <1>8, SumOfFees
<1>11. /\ t2 \in Bracket!Tournament /\ t2.player_count = n /\ t2.entry_fee = t.entry_fee
       /\ t2.champion = None /\ t2.state = "Cancelled"
  BY <1>1, <1>6 DEF Bracket!Tournament, Called
<1> HIDE DEF n, t2
<1>12. Accounts(t2, nd2, rec, ret2)
  BY <1>1, <1>3, <1>8, <1>10, <1>11 DEF Accounts
<1>13. ~ Started(t2)
  BY <1>11 DEF Started
<1> QED BY <1>7, <1>9, <1>12, <1>13 DEF t2

-----------------------------------------------------------------------------
(* The balance that all tournaments share.                                 *)

\* The tournaments there are, and those that run.
Created(tt) == {i \in Tournaments : tt[i] # None}
OpenOnes(tt) == {i \in Tournaments : Started(tt[i])}

\* The contract's books: every tournament's, and a balance that is the reserve
\* and what the running ones have received.
Books(tt, nn, bal, rec, ret) ==
  /\ tt \in [Tournaments -> Bracket!Tournament \cup {None}]
  /\ DOMAIN nn = Tournaments /\ nn = [i \in Tournaments |-> nn[i]]
  /\ rec \in [Tournaments -> Nat] /\ ret \in [Tournaments -> [Bracket!Entrants -> Int]]
  /\ bal \in Int /\ IsFiniteSet(Created(tt))
  /\ \A i \in Tournaments : Row(tt[i], nn[i], rec[i], ret[i])
  /\ bal = Reserve + Sum(rec, OpenOnes(tt))

\* What the balance holds of a tournament.
Due(t, c) == IF Started(t) THEN c ELSE 0

\* f, with another value at x.
Put(f, x, v) == [f EXCEPT ![x] = v]

\* A call changes one tournament's books and the balance by what that one is
\* due.
LEMMA OneRow ==
  ASSUME NEW tt, NEW nn, NEW bal, NEW rec, NEW ret, Books(tt, nn, bal, rec, ret),
         NEW id \in Tournaments,
         NEW t2 \in Bracket!Tournament, NEW nd2, NEW c2 \in Nat,
         NEW r2 \in [Bracket!Entrants -> Int], Accounts(t2, nd2, c2, r2),
         NEW tt2, tt2 = Put(tt, id, t2), NEW nn2, nn2 = Put(nn, id, nd2),
         NEW rec2, rec2 = Put(rec, id, c2), NEW ret2, ret2 = Put(ret, id, r2),
         NEW bal2, bal2 = bal - Due(tt[id], rec[id]) + Due(t2, c2)
  PROVE  Books(tt2, nn2, bal2, rec2, ret2)
<1>0. t2 # None
  BY BracketConstants
<1>1. /\ tt2 \in [Tournaments -> Bracket!Tournament \cup {None}] /\ tt2[id] = t2
      /\ \A i \in Tournaments : i # id => tt2[i] = tt[i]
  BY DEF Books, Put
<1>2. /\ DOMAIN nn2 = Tournaments /\ nn2 = [i \in Tournaments |-> nn2[i]] /\ nn2[id] = nd2
      /\ \A i \in Tournaments : i # id => nn2[i] = nn[i]
  BY DEF Books, Put
<1>3. /\ rec \in [Tournaments -> Nat] /\ rec2 \in [Tournaments -> Nat] /\ rec2[id] = c2
      /\ \A i \in Tournaments : i # id => rec2[i] = rec[i]
  BY DEF Books, Put
<1>4. /\ ret2 \in [Tournaments -> [Bracket!Entrants -> Int]] /\ ret2[id] = r2
      /\ \A i \in Tournaments : i # id => ret2[i] = ret[i]
  BY DEF Books, Put
<1>5. \A i \in Tournaments : Row(tt2[i], nn2[i], rec2[i], ret2[i])
  <2>1. ASSUME NEW i \in Tournaments PROVE Row(tt2[i], nn2[i], rec2[i], ret2[i])
    <3>1. CASE i = id
      BY <1>0, <1>1, <1>2, <1>3, <1>4, <3>1 DEF Row
    <3>2. CASE i # id
      BY <1>1, <1>2, <1>3, <1>4, <3>2 DEF Books
    <3> QED BY <3>1, <3>2
  <2> QED BY <2>1
<1>6. IsFiniteSet(Created(tt2))
  <2>1. Created(tt2) \subseteq Created(tt) \cup {id}
    BY <1>1 DEF Created
  <2>2. IsFiniteSet(Created(tt) \cup {id})
    BY FS_AddElement DEF Books
  <2> QED BY <2>1, <2>2, FS_Subset
<1>7. IsFiniteSet(OpenOnes(tt)) /\ IsFiniteSet(OpenOnes(tt2)) /\ IsFiniteSet(OpenOnes(tt) \ {id})
  <2>1. OpenOnes(tt) \subseteq Created(tt) /\ OpenOnes(tt2) \subseteq Created(tt2)
    BY DEF OpenOnes, Created, Started
  <2> QED BY <1>6, <2>1, FS_Subset DEF Books
<1>8. OpenOnes(tt2) \ {id} = OpenOnes(tt) \ {id}
  BY <1>1 DEF OpenOnes
<1> DEFINE Rest == OpenOnes(tt) \ {id}
<1>9. Sum(rec, Rest) \in Int /\ Sum(rec2, Rest) = Sum(rec, Rest)
  <2>1. \A i \in Rest : rec[i] \in Int /\ rec2[i] = rec[i]
    BY <1>3 DEF OpenOnes
  <2> HIDE DEF Rest
  <2>2. IsFiniteSet(Rest)
    BY <1>7 DEF Rest
  <2> QED BY <2>1, <2>2, SumType, SumSame
<1>10. Sum(rec, OpenOnes(tt)) = Sum(rec, Rest) + Due(tt[id], rec[id])
  <2>0. \A i \in OpenOnes(tt) : rec[i] \in Int
    BY <1>3 DEF OpenOnes
  <2>1. CASE id \in OpenOnes(tt)
    <3>1. Sum(rec, OpenOnes(tt)) = rec[id] + Sum(rec, OpenOnes(tt) \ {id})
      BY <1>7, <2>0, <2>1, SumTakeOut
    <3>2. Due(tt[id], rec[id]) = rec[id] /\ rec[id] \in Int
      BY <1>3, <2>1 DEF Due, OpenOnes
    <3> HIDE DEF Rest
    <3>3. Sum(rec, OpenOnes(tt)) = rec[id] + Sum(rec, Rest)
      BY <3>1 DEF Rest
    <3> QED BY <1>9, <3>2, <3>3
  <2>2. CASE id \notin OpenOnes(tt)
    <3>1. Rest = OpenOnes(tt)
      BY <2>2
    <3>2. Due(tt[id], rec[id]) = 0
      BY <2>2 DEF Due, OpenOnes
    <3> HIDE DEF Rest
    <3> QED BY <1>9, <3>1, <3>2
  <2> QED BY <2>1, <2>2
<1>11. Sum(rec2, OpenOnes(tt2)) = Sum(rec, Rest) + Due(t2, c2)
  <2>0. \A i \in OpenOnes(tt2) : rec2[i] \in Int
    BY <1>3 DEF OpenOnes
  <2>1. CASE id \in OpenOnes(tt2)
    <3>1. Sum(rec2, OpenOnes(tt2)) = rec2[id] + Sum(rec2, OpenOnes(tt2) \ {id})
      <4>1. PICK S, f : S = OpenOnes(tt2) /\ f = rec2
        OBVIOUS
      <4>2. IsFiniteSet(S) /\ id \in S /\ \A i \in S : f[i] \in Int
        BY <1>7, <2>0, <2>1, <4>1
      <4>3. Sum(f, S) = f[id] + Sum(f, S \ {id})
        BY <4>2, SumTakeOut
      <4> QED BY <4>1, <4>3
    <3>2. Due(t2, c2) = c2 /\ c2 \in Int /\ rec2[id] = c2
      BY <1>1, <1>3, <2>1 DEF Due, OpenOnes
    <3>3. OpenOnes(tt2) \ {id} = Rest
      BY <1>8
    <3> HIDE DEF Rest
    <3>4. Sum(rec2, OpenOnes(tt2)) = rec2[id] + Sum(rec2, Rest)
      BY <3>1, <3>3
    <3> QED BY <1>9, <3>2, <3>4
  <2>2. CASE id \notin OpenOnes(tt2)
    <3>1. Rest = OpenOnes(tt2)
      BY <1>8, <2>2
    <3>2. Due(t2, c2) = 0
      BY <1>1, <2>2 DEF Due, OpenOnes
    <3> HIDE DEF Rest
    <3> QED BY <1>9, <3>1, <3>2
  <2> QED BY <2>1, <2>2
<1>12. bal2 = Reserve + Sum(rec2, OpenOnes(tt2)) /\ bal2 \in Int
  <2> DEFINE s == Sum(rec, Rest)
             d == Due(tt[id], rec[id])
             d2 == Due(t2, c2)
  <2>1. s \in Int /\ d \in Int /\ d2 \in Int /\ Reserve \in Int
    BY <1>3, <1>9, BracketConstants DEF Due
  <2>2. bal = Reserve + (s + d) /\ bal2 = bal - d + d2 /\ Sum(rec2, OpenOnes(tt2)) = s + d2
    BY <1>10, <1>11 DEF Books
  <2> HIDE DEF s, d, d2
  <2> QED BY <2>1, <2>2
<1> QED BY <1>1, <1>2, <1>3, <1>4, <1>5, <1>6, <1>12 DEF Books

\* What the books say of one tournament.
LEMMA BooksOf ==
  ASSUME NEW tt, NEW nn, NEW bal, NEW rec, NEW ret, Books(tt, nn, bal, rec, ret),
         NEW id \in Tournaments
  PROVE  /\ rec[id] \in Nat /\ ret[id] \in [Bracket!Entrants -> Int] /\ bal \in Int
         /\ tt[id] # None => /\ Accounts(tt[id], nn[id], rec[id], ret[id])
                             /\ tt[id] \in Bracket!Tournament
         /\ tt[id] = None => rec[id] = 0 /\ NothingBack(ret[id])
<1>1. Row(tt[id], nn[id], rec[id], ret[id])
  BY DEF Books
<1>2. tt[id] \in Bracket!Tournament \cup {None}
  BY DEF Books
<1> QED BY <1>1, <1>2 DEF Books, Row

\* The bracket contract's inductive invariant.
BracketBooks == Books(tournament, node, balance, received, returned) /\ ledger \in Nat

\* It holds before the first tournament.
LEMMA InvInit == Bracket!Init => BracketBooks
<1> SUFFICES ASSUME Bracket!Init PROVE BracketBooks
  OBVIOUS
<1>1. /\ tournament = [id \in Tournaments |-> None] /\ node = [id \in Tournaments |-> << >>]
      /\ received = [id \in Tournaments |-> 0] /\ balance = Reserve /\ ledger = 0
      /\ returned = [id \in Tournaments |-> [p \in Bracket!Entrants |-> 0]]
  BY DEF Bracket!Init
<1>2. Created(tournament) = {} /\ OpenOnes(tournament) = {}
  BY <1>1 DEF Created, OpenOnes, Started
<1>3. balance = Reserve + Sum(received, OpenOnes(tournament)) /\ balance \in Int
  <2>1. Sum(received, OpenOnes(tournament)) = 0
    BY <1>2, SumEmpty
  <2>2. balance = Reserve
    BY <1>1
  <2> QED BY <2>1, <2>2, BracketConstants
<1>4. \A i \in Tournaments : Row(tournament[i], node[i], received[i], returned[i])
  BY <1>1 DEF Row, NothingBack
<1>5. tournament \in [Tournaments -> Bracket!Tournament \cup {None}]
  BY <1>1
<1>6. DOMAIN node = Tournaments /\ node = [i \in Tournaments |-> node[i]]
  BY <1>1
<1>7. received \in [Tournaments -> Nat] /\ returned \in [Tournaments -> [Bracket!Entrants -> Int]]
  BY <1>1
<1>8. IsFiniteSet(Created(tournament))
  BY <1>2, FS_EmptySet
<1> QED BY <1>1, <1>3, <1>4, <1>5, <1>6, <1>7, <1>8 DEF BracketBooks, Books

-----------------------------------------------------------------------------
(* The calls.                                                              *)

\* What a call leaves alone is put back as it was.
LEMMA Same ==
  ASSUME NEW S, NEW f, f = [i \in S |-> f[i]], NEW x \in S
  PROVE  f = Put(f, x, f[x])
BY DEF Put

\* Every call keeps the invariant: a tournament is created,
LEMMA InvCreate ==
  ASSUME BracketBooks, NEW id \in Tournaments, NEW n \in PlayerCounts, NEW fee \in Fees,
         Bracket!create_tournament(id, n, fee)
  PROVE  BracketBooks'
<1> DEFINE t2 == [entry_fee |-> fee, player_count |-> n, funded_count |-> 0,
                  state |-> "Registration", champion |-> None, created_ledger |-> ledger]
           nd2 == [at \in Bracket!NodesOf(n) |-> Bracket!Seeded(n, at)]
<1>1. /\ tournament[id] = None
      /\ tournament' = Put(tournament, id, t2) /\ node' = Put(node, id, nd2)
      /\ balance' = balance /\ ledger' = ledger /\ received' = received /\ returned' = returned
  BY DEF Bracket!create_tournament, Bracket!Exists, Put
<1>2. Books(tournament, node, balance, received, returned) /\ ledger \in Nat
  BY DEF BracketBooks
<1>3. /\ received[id] = 0 /\ NothingBack(returned[id]) /\ balance \in Int
      /\ returned[id] \in [Bracket!Entrants -> Int]
  BY <1>1, <1>2, BooksOf
<1>4. Accounts(t2, nd2, 0, returned[id]) /\ Started(t2)
  BY <1>2, <1>3, Opened
<1>5. t2 \in Bracket!Tournament
  BY <1>4 DEF Accounts
<1> HIDE DEF t2, nd2
<1>6. received' = Put(received, id, 0) /\ returned' = Put(returned, id, returned[id])
  <2>1. /\ received = [i \in Tournaments |-> received[i]]
        /\ returned = [i \in Tournaments |-> returned[i]]
    BY <1>2 DEF Books
  <2> QED BY <1>1, <1>3, <2>1, Same
<1>7. balance' = balance - Due(tournament[id], received[id]) + Due(t2, 0)
  <2>1. Due(tournament[id], received[id]) = 0 /\ Due(t2, 0) = 0
    BY <1>1 DEF Due, Started
  <2> QED BY <1>1, <1>3, <2>1
<1>8. Books(tournament', node', balance', received', returned')
  BY <1>1, <1>2, <1>3, <1>4, <1>5, <1>6, <1>7, OneRow
<1> QED BY <1>1, <1>2, <1>8 DEF BracketBooks

\* an entrant pays,
LEMMA InvDeposit ==
  ASSUME BracketBooks, NEW id \in Tournaments, NEW p, Bracket!deposit(id, p)
  PROVE  BracketBooks'
<1> DEFINE t == tournament[id]
           nd == node[id]
           t2 == Entered(t)
           c2 == received[id] + t.entry_fee
<1>1. Books(tournament, node, balance, received, returned) /\ ledger \in Nat
  BY DEF BracketBooks
<1>2. Started(t) /\ t # None
  BY DEF Bracket!deposit, Bracket!Running, Bracket!Exists, Started
<1>3. /\ Accounts(t, nd, received[id], returned[id]) /\ t \in Bracket!Tournament
      /\ received[id] \in Nat /\ returned[id] \in [Bracket!Entrants -> Int] /\ balance \in Int
  BY <1>1, <1>2, BooksOf
<1>4. PICK at \in DOMAIN nd :
        /\ at[1] = 0
        /\ (nd[at].player1 = p /\ ~ nd[at].funded1) \/ (nd[at].player2 = p /\ ~ nd[at].funded2)
        /\ node' = Put(node, id, FilledAt(nd, at, p))
  BY DEF Bracket!deposit, FilledAt, Filled, Put
<1> DEFINE nd2 == FilledAt(nd, at, p)
<1>5. /\ tournament' = Put(tournament, id, t2)
      /\ balance' = balance + t.entry_fee /\ ledger' = ledger
      /\ received' = Put(received, id, c2) /\ returned' = returned
  BY <1>1, <1>3 DEF Bracket!deposit, Entered, Books, Put
<1>6. t.entry_fee \in Nat /\ c2 \in Nat
  BY <1>3 DEF Bracket!Tournament
<1>7. Accounts(t2, nd2, c2, returned[id]) /\ Started(t2)
  <2> HIDE DEF t, nd
  <2> QED BY <1>2, <1>3, <1>4, Entering
<1>8. t2 \in Bracket!Tournament
  BY <1>7 DEF Accounts
<1>9. node' = Put(node, id, nd2)
  BY <1>4
<1>10. returned' = Put(returned, id, returned[id])
  <2>1. returned = [i \in Tournaments |-> returned[i]]
    BY <1>1 DEF Books
  <2> QED BY <1>5, <2>1, Same
<1>11. balance' = balance - Due(t, received[id]) + Due(t2, c2)
  <2>1. Due(t, received[id]) = received[id] /\ Due(t2, c2) = c2
    BY <1>2, <1>7 DEF Due
  <2> QED BY <1>3, <1>5, <1>6, <2>1
<1>12. Books(tournament', node', balance', received', returned')
  <2> HIDE DEF t2, nd2, c2
  <2> QED BY <1>1, <1>3, <1>5, <1>6, <1>7, <1>8, <1>9, <1>10, <1>11, OneRow
<1> QED BY <1>1, <1>5, <1>12 DEF BracketBooks

\* a result that is not the final's is recorded,
LEMMA InvAdvance ==
  ASSUME BracketBooks, NEW id \in Tournaments, NEW w, NEW at \in DOMAIN node[id],
         Bracket!AdvanceWinner(id, at, w)
  PROVE  BracketBooks'
<1> DEFINE t == tournament[id]
           nd == node[id]
           nd2 == PlayedAt(nd, at, w)
<1>1. Books(tournament, node, balance, received, returned) /\ ledger \in Nat
  BY DEF BracketBooks
<1>2. Started(t) /\ t # None
  BY DEF Bracket!AdvanceWinner, Bracket!Reported, Bracket!Running, Bracket!Exists, Started
<1>3. /\ Accounts(t, nd, received[id], returned[id]) /\ t \in Bracket!Tournament
      /\ received[id] \in Nat /\ returned[id] \in [Bracket!Entrants -> Int] /\ balance \in Int
  BY <1>1, <1>2, BooksOf
<1>4. /\ nd[at].status = "AwaitingResult" /\ w \in {nd[at].player1, nd[at].player2}
      /\ at[1] + 1 < Bracket!rounds(t.player_count)
  BY DEF Bracket!AdvanceWinner, Bracket!Reported
<1>5. /\ tournament' = tournament /\ balance' = balance /\ ledger' = ledger
      /\ received' = received /\ returned' = returned
  BY DEF Bracket!AdvanceWinner
<1>6. node' = Put(node, id, nd2)
  BY <1>1 DEF Bracket!AdvanceWinner, Books, Put, PlayedAt
<1>7. Accounts(t, nd2, received[id], returned[id])
  <2>1. at \in DOMAIN nd
    OBVIOUS
  <2> HIDE DEF t, nd
  <2> QED BY <1>2, <1>3, <1>4, <2>1, Playing
<1>8. /\ tournament' = Put(tournament, id, t)
      /\ received' = Put(received, id, received[id])
      /\ returned' = Put(returned, id, returned[id])
  <2>1. /\ returned = [i \in Tournaments |-> returned[i]]
        /\ received = [i \in Tournaments |-> received[i]]
        /\ tournament = [i \in Tournaments |-> tournament[i]]
    BY <1>1 DEF Books
  <2> QED BY <1>5, <2>1, Same
<1>9. balance' = balance - Due(t, received[id]) + Due(t, received[id])
  BY <1>3, <1>5 DEF Due
<1>10. Books(tournament', node', balance', received', returned')
  <2> HIDE DEF nd2, t
  <2> QED BY <1>1, <1>3, <1>6, <1>7, <1>8, <1>9, OneRow DEF t
<1> QED BY <1>1, <1>5, <1>10 DEF BracketBooks

\* the final's is recorded,
LEMMA InvCrown ==
  ASSUME BracketBooks, NEW id \in Tournaments, NEW w, NEW at \in DOMAIN node[id],
         Bracket!CrownChampion(id, at, w)
  PROVE  BracketBooks'
<1> DEFINE t == tournament[id]
           nd == node[id]
           nd2 == CrownedAt(nd, at, w)
           t2 == Crowned(t, w)
           r2 == PaidOut(returned[id], w, Bracket!payout(t))
<1>1. Books(tournament, node, balance, received, returned) /\ ledger \in Nat
  BY DEF BracketBooks
<1>2. Started(t) /\ t # None
  BY DEF Bracket!CrownChampion, Bracket!Reported, Bracket!Running, Bracket!Exists, Started
<1>3. /\ Accounts(t, nd, received[id], returned[id]) /\ t \in Bracket!Tournament
      /\ received[id] \in Nat /\ returned[id] \in [Bracket!Entrants -> Int] /\ balance \in Int
  BY <1>1, <1>2, BooksOf
<1>4. /\ nd[at].status = "AwaitingResult" /\ w \in {nd[at].player1, nd[at].player2}
      /\ at[1] + 1 = Bracket!rounds(t.player_count)
  BY DEF Bracket!CrownChampion, Bracket!Reported
<1>5. /\ balance' = balance - Bracket!payout(t) /\ ledger' = ledger /\ received' = received
      /\ tournament' = Put(tournament, id, t2)
      /\ returned' = Put(returned, id, r2)
  BY <1>1 DEF Bracket!CrownChampion, Crowned, Books, Put, PaidOut
<1>6. node' = Put(node, id, nd2)
  BY <1>1 DEF Bracket!CrownChampion, Books, Put, CrownedAt
<1>7. /\ Accounts(t2, nd2, received[id], r2) /\ ~ Started(t2)
      /\ Bracket!payout(t) = received[id] /\ r2 \in [Bracket!Entrants -> Int]
  <2>1. at \in DOMAIN nd
    OBVIOUS
  <2> HIDE DEF t, nd
  <2> QED BY <1>2, <1>3, <1>4, <2>1, Finishing
<1>8. t2 \in Bracket!Tournament
  BY <1>7 DEF Accounts
<1>9. received' = Put(received, id, received[id])
  <2>1. received = [i \in Tournaments |-> received[i]]
    BY <1>1 DEF Books
  <2> QED BY <1>5, <2>1, Same
<1>10. balance' = balance - Due(t, received[id]) + Due(t2, received[id])
  <2>1. Due(t, received[id]) = received[id] /\ Due(t2, received[id]) = 0
    BY <1>2, <1>7 DEF Due
  <2> QED BY <1>3, <1>5, <1>7, <2>1
<1>11. Books(tournament', node', balance', received', returned')
  <2> HIDE DEF t2, nd2, r2
  <2> QED BY <1>1, <1>3, <1>5, <1>6, <1>7, <1>8, <1>9, <1>10, OneRow
<1> QED BY <1>1, <1>5, <1>11 DEF BracketBooks

\* and the fees go back, by a cancellation or a timeout.
LEMMA InvRefund ==
  ASSUME BracketBooks, NEW id \in Tournaments, Bracket!Running(id), Bracket!RefundAndCancel(id)
  PROVE  BracketBooks'
<1> DEFINE t == tournament[id]
           nd == node[id]
           nd2 == AllUnfunded(nd)
           t2 == Called(t)
           r2 == RefundedAll(returned[id], nd, t.entry_fee)
<1>1. Books(tournament, node, balance, received, returned) /\ ledger \in Nat
  BY DEF BracketBooks
<1>2. Started(t) /\ t # None
  BY DEF Bracket!Running, Bracket!Exists, Started
<1>3. /\ Accounts(t, nd, received[id], returned[id]) /\ t \in Bracket!Tournament
      /\ received[id] \in Nat /\ returned[id] \in [Bracket!Entrants -> Int] /\ balance \in Int
  BY <1>1, <1>2, BooksOf
<1>4. Bracket!Funded(id) = Payers(nd)
  BY DEF Bracket!Funded, Payers
<1>5. /\ balance' = balance - t.entry_fee * Cardinality(Payers(nd))
      /\ ledger' = ledger /\ received' = received
  BY <1>4 DEF Bracket!RefundAndCancel, Bracket!Cardinality, Cardinality
<1>6. tournament' = Put(tournament, id, t2)
  BY <1>1 DEF Bracket!RefundAndCancel, Called, Books, Put
<1>7. returned' = Put(returned, id, r2)
  BY <1>1, <1>4 DEF Bracket!RefundAndCancel, Books, Put, RefundedAll
<1>8. node' = Put(node, id, nd2)
  BY <1>1 DEF Bracket!RefundAndCancel, Books, Put, AllUnfunded, Unfunded
<1>9. /\ Accounts(t2, nd2, received[id], r2) /\ ~ Started(t2)
      /\ t.entry_fee * Cardinality(Payers(nd)) = received[id]
      /\ r2 \in [Bracket!Entrants -> Int]
  <2> HIDE DEF t, nd
  <2> QED BY <1>2, <1>3, Returning
<1>10. t2 \in Bracket!Tournament
  BY <1>9 DEF Accounts
<1>11. received' = Put(received, id, received[id])
  <2>1. received = [i \in Tournaments |-> received[i]]
    BY <1>1 DEF Books
  <2> QED BY <1>5, <2>1, Same
<1>12. balance' = balance - Due(t, received[id]) + Due(t2, received[id])
  <2>1. Due(t, received[id]) = received[id] /\ Due(t2, received[id]) = 0
    BY <1>2, <1>9 DEF Due
  <2> QED BY <1>3, <1>5, <1>9, <2>1
<1>13. Books(tournament', node', balance', received', returned')
  <2> HIDE DEF t2, nd2, r2
  <2> QED BY <1>1, <1>3, <1>6, <1>7, <1>8, <1>9, <1>10, <1>11, <1>12, OneRow
<1> QED BY <1>1, <1>5, <1>13 DEF BracketBooks

\* Every step keeps the invariant.
LEMMA InvStep == BracketBooks /\ [Bracket!Next]_bracketVars => BracketBooks'
<1> SUFFICES ASSUME BracketBooks, [Bracket!Next]_bracketVars PROVE BracketBooks'
  OBVIOUS
<1>1. ASSUME NEW id \in Tournaments, NEW n \in PlayerCounts, NEW fee \in Fees,
             Bracket!create_tournament(id, n, fee)
      PROVE  BracketBooks'
  BY <1>1, InvCreate
<1>2. ASSUME NEW id \in Tournaments, NEW p \in Bracket!Entrants, Bracket!deposit(id, p)
      PROVE  BracketBooks'
  BY <1>2, InvDeposit
<1>3. ASSUME NEW id \in Tournaments, NEW w \in Bracket!Entrants, NEW at \in DOMAIN node[id],
             Bracket!AdvanceWinner(id, at, w)
      PROVE  BracketBooks'
  BY <1>3, InvAdvance
<1>4. ASSUME NEW id \in Tournaments, NEW w \in Bracket!Entrants, NEW at \in DOMAIN node[id],
             Bracket!CrownChampion(id, at, w)
      PROVE  BracketBooks'
  BY <1>4, InvCrown
<1>5. ASSUME NEW id \in Tournaments, Bracket!cancel_tournament(id) PROVE BracketBooks'
  <2>1. Bracket!Running(id) /\ Bracket!RefundAndCancel(id)
    BY <1>5 DEF Bracket!cancel_tournament, Bracket!Running
  <2> QED BY <2>1, InvRefund
<1>6. ASSUME NEW id \in Tournaments, Bracket!claim_timeout(id) PROVE BracketBooks'
  <2>1. Bracket!Running(id) /\ Bracket!RefundAndCancel(id)
    BY <1>6 DEF Bracket!claim_timeout
  <2> QED BY <2>1, InvRefund
<1>7. ASSUME Bracket!CloseLedger PROVE BracketBooks'
  <2>1. /\ tournament' = tournament /\ node' = node /\ balance' = balance
        /\ received' = received /\ returned' = returned /\ ledger' = ledger + 1
    BY <1>7 DEF Bracket!CloseLedger
  <2>2. Books(tournament', node', balance', received', returned')
    BY <2>1 DEF BracketBooks
  <2>3. ledger' \in Nat
    BY <2>1 DEF BracketBooks
  <2> QED BY <2>2, <2>3 DEF BracketBooks
<1>8. CASE UNCHANGED bracketVars
  <2>1. /\ tournament' = tournament /\ node' = node /\ balance' = balance
        /\ received' = received /\ returned' = returned /\ ledger' = ledger
    BY <1>8 DEF bracketVars
  <2> QED BY <2>1 DEF BracketBooks
<1> HIDE DEF BracketBooks
<1> QED BY <1>1, <1>2, <1>3, <1>4, <1>5, <1>6, <1>7, <1>8 DEF Bracket!Next

\* Of each behaviour of the contracts, the bracket's part.
LEMMA BracketPart == Spec => Bracket!Init /\ [][Bracket!Next]_bracketVars
<1>1. Init => Bracket!Init
  BY DEF Init
<1>2. [Next]_vars => [Bracket!Next]_bracketVars
  BY DEF Next, vars, bracketVars
<1> QED BY <1>1, <1>2, PTL DEF Spec

\* Every reachable state of the tournament bracket has balanced books and a
\* bracket filled from its leaves.
THEOREM BracketInv == Spec => []BracketBooks
<1>1. Bracket!Init => BracketBooks
  BY InvInit
<1>2. BracketBooks /\ [Bracket!Next]_bracketVars => BracketBooks'
  BY InvStep
<1> QED BY <1>1, <1>2, BracketPart, PTL

\* The books of a tournament that exists.
LEMMA OneAccount ==
  ASSUME BracketBooks, NEW id \in Tournaments, Bracket!Exists(id)
  PROVE  Accounts(tournament[id], node[id], received[id], returned[id])
         /\ tournament[id] \in Bracket!Tournament
BY BooksOf DEF BracketBooks, Bracket!Exists

\* Balanced books account for every fee.
LEMMA InvFees == BracketBooks => FeesAccountedFor
<1> SUFFICES ASSUME BracketBooks PROVE FeesAccountedFor
  OBVIOUS
<1>1. Bracket!Solvent
  <2>1. {i \in Tournaments : Bracket!Running(i)} = OpenOnes(tournament)
    BY DEF Bracket!Running, Bracket!Exists, OpenOnes, Started
  <2>2. balance = Reserve + Sum(received, OpenOnes(tournament))
    BY DEF BracketBooks, Books
  <2>3. Bracket!MapThenSumSet(LAMBDA x : received[x], OpenOnes(tournament))
          = Sum(received, OpenOnes(tournament))
    BY BracketSumIsSum
  <2> QED BY <2>1, <2>2, <2>3 DEF Bracket!Solvent
<1>2. Bracket!EveryFeeLeaves
  <2>1. ASSUME NEW id \in Tournaments, Bracket!Finished(id)
        PROVE  /\ Bracket!MapThenSumSet(LAMBDA p : returned[id][p], Bracket!Entrants)
                    = received[id]
               /\ tournament[id].state = "Completed" =>
                    returned[id][tournament[id].champion] = received[id]
               /\ tournament[id].state = "Cancelled" =>
                    \A p \in Bracket!Entrants : returned[id][p] \in {0, tournament[id].entry_fee}
    <3> DEFINE t == tournament[id]
               rec == received[id]
               ret == returned[id]
    <3>1. Accounts(t, node[id], rec, ret) /\ t \in Bracket!Tournament
      BY <2>1, OneAccount DEF Bracket!Finished
    <3>2. t.state \in {"Completed", "Cancelled"}
      BY <2>1, <3>1 DEF Bracket!Finished, Bracket!Running, Bracket!Exists, Bracket!Tournament
    <3>3. Bracket!MapThenSumSet(LAMBDA p : ret[p], Bracket!Entrants) = Sum(ret, Bracket!Entrants)
      <4> HIDE DEF ret
      <4> QED BY BracketSumIsSum
    <3> HIDE DEF t, rec, ret
    <3>4. CASE t.state = "Completed"
      <4>1. /\ rec = t.entry_fee * t.player_count
            /\ t.champion \in 0 .. t.player_count - 1
            /\ \A p \in Bracket!Entrants : ret[p] = IF p = t.champion THEN rec ELSE 0
        BY <3>1, <3>4 DEF Accounts
      <4>2. t.player_count \in PlayerCounts
        BY <3>1 DEF Accounts
      <4>3. t.champion \in Bracket!Entrants /\ IsFiniteSet(Bracket!Entrants)
        <5>1. 0 .. t.player_count - 1 \subseteq Bracket!Entrants /\ IsFiniteSet(Bracket!Entrants)
          BY <4>2, EntrantsOf
        <5> QED BY <4>1, <5>1
      <4>4. t.entry_fee \in Nat /\ t.player_count \in Nat
        BY <3>1 DEF Bracket!Tournament
      <4>5. rec \in Nat
        BY <4>1, <4>4, OneMoreFee
      <4>6. Sum(ret, Bracket!Entrants) = rec * Cardinality({t.champion})
        <5>1. {t.champion} \in SUBSET Bracket!Entrants
          BY <4>3
        <5>2. \A p \in Bracket!Entrants : ret[p] = IF p \in {t.champion} THEN rec ELSE 0
          BY <4>1
        <5> QED BY <4>3, <4>5, <5>1, <5>2, SumOfFees
      <4>7. Cardinality({t.champion}) = 1 /\ rec * 1 = rec
        <5>1. Cardinality({t.champion}) = 1
          BY FS_Singleton
        <5>2. \A x \in Nat : x * 1 = x
          OBVIOUS
        <5> QED BY <4>5, <5>1, <5>2
      <4>8. Sum(ret, Bracket!Entrants) = rec /\ ret[t.champion] = rec
        BY <4>1, <4>3, <4>6, <4>7
      <4> QED BY <3>3, <3>4, <4>8 DEF t, rec, ret
    <3>5. CASE t.state = "Cancelled"
      <4>1. /\ Sum(ret, Bracket!Entrants) = rec
            /\ \A p \in Bracket!Entrants : ret[p] \in {0, t.entry_fee}
        BY <3>1, <3>5 DEF Accounts
      <4> QED BY <3>3, <3>5, <4>1 DEF t, rec, ret
    <3> QED BY <3>2, <3>4, <3>5
  <2> QED BY <2>1 DEF Bracket!EveryFeeLeaves
<1> QED BY <1>1, <1>2 DEF FeesAccountedFor

\* In a tree the winner of the final won in every round, and everybody of the
\* first round has paid.
LEMMA InvChampion == BracketBooks => ChampionEarnedIt
<1> SUFFICES ASSUME BracketBooks, NEW id \in Tournaments, Bracket!Exists(id)
             PROVE  /\ \A at \in DOMAIN node[id] : at[1] > 0 =>
                         /\ node[id][at].player1 = node[id][Left(at)].winner
                         /\ node[id][at].player2 = node[id][Right(at)].winner
                    /\ tournament[id].champion # None =>
                         /\ received[id] = tournament[id].entry_fee * tournament[id].player_count
                         /\ \A r \in 0 .. Bracket!rounds(tournament[id].player_count) - 1 :
                              \E at \in DOMAIN node[id] :
                                at[1] = r /\ node[id][at].winner = tournament[id].champion
  BY DEF ChampionEarnedIt, Bracket!ChampionEarnedIt, Left, Right
<1> DEFINE t == tournament[id]
           nd == node[id]
           n == t.player_count
<1>1. Accounts(t, nd, received[id], returned[id])
  BY OneAccount
<1>2. n \in FieldSizes /\ Tree(nd, n)
  BY <1>1, BracketConstants DEF Accounts
<1>3. DOMAIN nd = Bracket!NodesOf(n) /\ \A b \in Bracket!NodesOf(n) : NodeOK(nd, n, b)
  BY <1>2 DEF Tree
<1>4. \A at \in DOMAIN nd : at[1] > 0 =>
        nd[at].player1 = nd[Left(at)].winner /\ nd[at].player2 = nd[Right(at)].winner
  BY <1>3 DEF NodeOK
<1>5. ASSUME t.champion # None
      PROVE  /\ received[id] = t.entry_fee * n
             /\ \A r \in 0 .. Bracket!rounds(n) - 1 :
                  \E at \in DOMAIN nd : at[1] = r /\ nd[at].winner = t.champion
  <2>1. received[id] = t.entry_fee * n /\ t.champion = nd[Final(n)].winner
    BY <1>1, <1>5 DEF Accounts
  <2>2. Final(n) \in Bracket!NodesOf(n) /\ Final(n)[1] = Bracket!rounds(n) - 1
    <3> HIDE DEF n
    <3>1. Bracket!rounds(n) \in 1 .. 6 /\ Count(n, Bracket!rounds(n) - 1) = 1
      BY <1>2, Counts
    <3>2. Bracket!rounds(n) - 1 \in 0 .. Bracket!rounds(n) - 1
          /\ 0 \in 0 .. Count(n, Bracket!rounds(n) - 1) - 1
      BY <3>1
    <3> QED BY <1>2, <3>2, Layout DEF Final
  <2>3. NodeOK(nd, n, Final(n)) /\ nd[Final(n)].winner # None
    BY <1>3, <1>5, <2>1, <2>2
  <2> HIDE DEF t, nd, n
  <2>4. \A r \in 0 .. Bracket!rounds(n) - 1 :
          \E b \in Bracket!NodesOf(n) : b[1] = r /\ nd[b].winner = nd[Final(n)].winner
    BY <2>2, <2>3 DEF NodeOK
  <2> QED BY <1>3, <2>1, <2>4
<1> QED BY <1>4, <1>5

\* The shared balance holds the fees of the tournaments that run, and of one
\* that ended every fee went out once: to the champion, or to each who had paid
\* (contracts/tournament-bracket).
THEOREM FeesAreAccountedFor == Spec => []FeesAccountedFor
BY BracketInv, InvFees, PTL

\* Whoever is champion won a match of every round, and the first of them with
\* its fee paid (contracts/tournament-bracket).
THEOREM ChampionsEarnIt == Spec => []ChampionEarnedIt
BY BracketInv, InvChampion, PTL

-----------------------------------------------------------------------------
(* The oracle's reconciliation.                                            *)

\* The lesser of two numbers.
LEMMA LesserOf ==
  ASSUME NEW a \in Int, NEW b \in Int
  PROVE  /\ Oracle!Min({a, b}) = IF a <= b THEN a ELSE b
         /\ Pages!Min({a, b}) = IF a <= b THEN a ELSE b
<1>1. /\ Oracle!Min({a, b}) \in {a, b} /\ \A y \in {a, b} : Oracle!Min({a, b}) <= y
      /\ Pages!Min({a, b}) \in {a, b} /\ \A y \in {a, b} : Pages!Min({a, b}) <= y
  <2>1. \E x \in {a, b} : \A y \in {a, b} : x <= y
    OBVIOUS
  <2> QED BY <2>1 DEF Oracle!Min, Pages!Min
<1> QED BY <1>1

\* Oracle.
Reading ==
  [start : Nat, seen : SUBSET Oracle!MatchIds, owed : SUBSET Oracle!MatchIds, done : BOOLEAN]

\* What it is owed was recorded before it began, and while that is a prefix of
\* the ids it has seen all of it below where it reads next.
ReaderInv ==
  /\ reader \in Reading
  /\ reader.owed \subseteq Oracle!Recorded
  /\ Oracle!Prefix(reader.owed) =>
       /\ reader.owed \cap (0 .. reader.start - 1) \subseteq reader.seen
       /\ reader.done => reader.owed \subseteq reader.seen

\* The oracle's inductive invariant.
OracleInv ==
  /\ admin \in Addresses \cup {None} /\ pendingAdmin \in Addresses \cup {None}
  /\ result \in [Oracle!MatchIds -> Results \cup {None}]
  /\ admin = None => Oracle!Recorded = {}
  /\ resultCount = Cardinality(Oracle!Recorded)
  /\ reader # None => ReaderInv

\* What is assumed of the constants.
LEMMA OracleConstants ==
  /\ MaxMatchId \in Nat /\ MAX_LIST_LIMIT \in Nat /\ PageLimit \in 1 .. MAX_LIST_LIMIT
  /\ None \notin Addresses /\ None \notin Results
  /\ IsFiniteSet(Oracle!MatchIds) /\ Oracle!MatchIds \subseteq Nat
<1>1. MaxMatchId \in Nat /\ MAX_LIST_LIMIT \in Nat /\ PageLimit \in 1 .. MAX_LIST_LIMIT
      /\ None \notin Addresses /\ None \notin Results
  BY ContractsAssumption DEF Oracle!OracleAssumption
<1>2. IsFiniteSet(0 .. MaxMatchId) /\ 0 .. MaxMatchId \subseteq Nat
  BY <1>1, FS_Interval
<1> QED BY <1>1, <1>2 DEF Oracle!MatchIds

\* The recorded ids are finitely many.
LEMMA RecordedIds ==
  /\ Oracle!Recorded \subseteq Oracle!MatchIds /\ IsFiniteSet(Oracle!Recorded)
  /\ Cardinality(Oracle!Recorded) \in Nat
<1>1. Oracle!Recorded \subseteq Oracle!MatchIds
  BY DEF Oracle!Recorded
<1> QED BY <1>1, OracleConstants, FS_Subset, FS_CardinalityType

\* Nothing is recorded and nobody reads.
LEMMA OracleInitial == Oracle!Init => OracleInv
<1> SUFFICES ASSUME Oracle!Init PROVE OracleInv
  OBVIOUS
<1>1. Oracle!Recorded = {}
  BY DEF Oracle!Init, Oracle!Recorded
<1> QED BY <1>1, FS_EmptySet DEF Oracle!Init, OracleInv

\* What the reader owes depends on the reader and on what is recorded, which only grows.
LEMMA ReaderKept ==
  ASSUME OracleInv, reader' = reader, Oracle!Recorded \subseteq Oracle!Recorded'
  PROVE  (reader # None => ReaderInv)'
<1>1. Oracle!MatchIds' = Oracle!MatchIds /\ Reading' = Reading
  BY DEF Oracle!MatchIds, Reading
<1>2. \A S : Oracle!Prefix(S)' <=> Oracle!Prefix(S)
  BY DEF Oracle!Prefix
<1> QED BY <1>1 DEF OracleInv, ReaderInv, Oracle!Prefix

\* Every step of the oracle keeps the invariant.
LEMMA OracleStep == OracleInv /\ [Oracle!Next]_oracleVars => OracleInv'
<1> SUFFICES ASSUME OracleInv, [Oracle!Next]_oracleVars PROVE OracleInv'
  OBVIOUS
<1>1. CASE UNCHANGED oracleVars
  <2>1. /\ admin' = admin /\ pendingAdmin' = pendingAdmin /\ resultCount' = resultCount
        /\ result' = result /\ reader' = reader
    BY <1>1 DEF oracleVars
  <2>2. Oracle!Recorded' = Oracle!Recorded
    BY <2>1 DEF Oracle!Recorded, Oracle!MatchIds
  <2>3. (reader # None => ReaderInv)'
    BY <2>1, <2>2, ReaderKept
  <2> QED BY <2>1, <2>2, <2>3 DEF OracleInv
<1>2. ASSUME NEW a \in Oracle!Signers,
             Oracle!initialize(a) \/ Oracle!accept_admin(a) \/ Oracle!cancel_admin_transfer(a)
      PROVE  OracleInv'
  <2>1. a \in Addresses
    BY DEF Oracle!Signers
  <2>2. /\ result' = result /\ reader' = reader
        /\ admin' \in Addresses \cup {None} /\ pendingAdmin' \in Addresses \cup {None}
        /\ admin' = None => admin = None
        /\ resultCount' = resultCount \/ (resultCount' = 0 /\ admin = None)
    BY <1>2, <2>1, OracleConstants
       DEF Oracle!initialize, Oracle!accept_admin, Oracle!cancel_admin_transfer, OracleInv
  <2>3. Oracle!Recorded' = Oracle!Recorded
    BY <2>2 DEF Oracle!Recorded, Oracle!MatchIds
  <2>4. (reader # None => ReaderInv)'
    BY <2>2, <2>3, ReaderKept
  <2>5. resultCount' = Cardinality(Oracle!Recorded)
    BY <2>2, FS_EmptySet DEF OracleInv
  <2> QED BY <2>2, <2>3, <2>4, <2>5 DEF OracleInv
<1>3. ASSUME NEW a \in Oracle!Signers, NEW new \in Addresses, Oracle!propose_admin(a, new)
      PROVE  OracleInv'
  <2>1. /\ admin' = admin /\ pendingAdmin' = new /\ resultCount' = resultCount
        /\ result' = result /\ reader' = reader
    BY <1>3 DEF Oracle!propose_admin
  <2>2. Oracle!Recorded' = Oracle!Recorded
    BY <2>1 DEF Oracle!Recorded, Oracle!MatchIds
  <2>3. (reader # None => ReaderInv)'
    BY <2>1, <2>2, ReaderKept
  <2> QED BY <2>1, <2>2, <2>3 DEF OracleInv
<1>4. ASSUME NEW a \in Oracle!Signers, NEW id \in Oracle!MatchIds, NEW r \in Results,
             Oracle!submit_result(a, id, r)
      PROVE  OracleInv'
  <2>1. /\ admin' = admin /\ pendingAdmin' = pendingAdmin /\ resultCount' = resultCount + 1
        /\ result' = [result EXCEPT ![id] = r] /\ reader' = reader
        /\ result[id] = None /\ admin = a
    BY <1>4 DEF Oracle!submit_result
  <2>2. admin # None /\ r # None
    BY <2>1, OracleConstants DEF Oracle!Signers
  <2>3. Oracle!Recorded' = Oracle!Recorded \cup {id} /\ id \notin Oracle!Recorded
    BY <2>1, <2>2 DEF OracleInv, Oracle!Recorded, Oracle!MatchIds
  <2>4. (reader # None => ReaderInv)'
    BY <2>1, <2>3, ReaderKept
  <2>5. Cardinality(Oracle!Recorded') = Cardinality(Oracle!Recorded) + 1
    BY <2>3, RecordedIds, FS_AddElement
  <2>6. result' \in [Oracle!MatchIds -> Results \cup {None}]
    BY <2>1 DEF OracleInv
  <2>7. Oracle!MatchIds' = Oracle!MatchIds
    BY DEF Oracle!MatchIds
  <2> QED BY <2>1, <2>2, <2>4, <2>5, <2>6, <2>7 DEF OracleInv
<1>5. ASSUME Oracle!StartReading \/ Oracle!ReadPage \/ Oracle!StopReading PROVE OracleInv'
  <2>1. /\ admin' = admin /\ pendingAdmin' = pendingAdmin /\ resultCount' = resultCount
        /\ result' = result
    BY <1>5 DEF Oracle!StartReading, Oracle!ReadPage, Oracle!StopReading, Oracle!contract
  <2>2. Oracle!Recorded' = Oracle!Recorded /\ Oracle!MatchIds' = Oracle!MatchIds
        /\ Reading' = Reading
    BY <2>1 DEF Oracle!Recorded, Oracle!MatchIds, Reading
  <2>3. (reader # None => ReaderInv)'
    <3>1. CASE Oracle!StartReading
      <4>1. reader' = [start |-> 0, seen |-> {}, owed |-> Oracle!Recorded, done |-> FALSE]
        BY <3>1 DEF Oracle!StartReading
      <4>2. reader' \in Reading /\ reader'.owed = Oracle!Recorded /\ reader'.start = 0
            /\ reader'.done = FALSE
        BY <4>1, RecordedIds DEF Reading
      <4> QED BY <2>2, <4>2 DEF ReaderInv
    <3>2. CASE Oracle!ReadPage
      <4> DEFINE page == Oracle!list_results(reader.start, PageLimit)
      <4>1. /\ reader # None /\ ~ reader.done
            /\ reader' = IF page = {} THEN [reader EXCEPT !.done = TRUE]
                         ELSE [reader EXCEPT !.start = @ + PageLimit, !.seen = @ \cup page]
        BY <3>2 DEF Oracle!ReadPage
      <4>2. ReaderInv
        BY <4>1 DEF OracleInv
      <4>3. reader \in Reading /\ reader.start \in Nat
        BY <4>2 DEF ReaderInv, Reading
      <4>4. PageLimit \in Nat /\ PageLimit >= 1 /\ PageLimit <= MAX_LIST_LIMIT
            /\ MAX_LIST_LIMIT \in Nat
        BY OracleConstants
      <4>5. resultCount = Cardinality(Oracle!Recorded) /\ resultCount \in Nat
        BY RecordedIds DEF OracleInv
      <4> DEFINE s == reader.start
      <4>6. page = {i \in Oracle!Recorded : s <= i /\ i < s + PageLimit /\ i < resultCount}
        <5>1. Oracle!Min({PageLimit, MAX_LIST_LIMIT}) = PageLimit
          BY <4>4, LesserOf
        <5>2. s + PageLimit \in Int /\ s \in Int
          BY <4>3, <4>4
        <5> HIDE DEF s
        <5> DEFINE e == s + PageLimit
        <5>3. PICK m : m = Oracle!Min({e, resultCount})
          OBVIOUS
        <5>4. m = IF e <= resultCount THEN e ELSE resultCount
          <6> HIDE DEF e
          <6>1. e \in Int
            BY <5>2 DEF e
          <6> QED BY <4>5, <5>3, <6>1, LesserOf
        <5>5. page = Oracle!Recorded \cap (s .. m - 1)
          BY <5>1, <5>3 DEF Oracle!list_results, s
        <5>6. \A i \in Oracle!Recorded : i \in Int
          BY RecordedIds, OracleConstants
        <5>7. \A i \in Oracle!Recorded :
                i \in s .. m - 1 <=> s <= i /\ i < e /\ i < resultCount
          <6> HIDE DEF e
          <6>1. e \in Int
            BY <5>2 DEF e
          <6>2. m \in Int
            BY <4>5, <5>4, <6>1
          <6> QED BY <4>5, <5>2, <5>4, <5>6, <6>1, <6>2
        <5> HIDE DEF page
        <5> QED BY <5>5, <5>7
      <4> HIDE DEF page
      <4>7. ASSUME Oracle!Prefix(reader.owed), NEW i \in reader.owed
            PROVE  /\ i \in Oracle!Recorded /\ i \in Nat /\ i < resultCount
                   /\ \A k \in 0 .. i : k \in reader.owed
        <5>1. reader.owed \subseteq Oracle!Recorded
          BY <4>2 DEF ReaderInv
        <5>2. Cardinality(reader.owed) \in Nat /\ Cardinality(reader.owed) <= resultCount
          BY <5>1, <4>5, RecordedIds, FS_Subset, FS_CardinalityType
        <5>3. reader.owed = 0 .. Cardinality(reader.owed) - 1
          BY <4>7 DEF Oracle!Prefix, Oracle!Cardinality, Cardinality
        <5> DEFINE c == Cardinality(reader.owed)
                   owed == reader.owed
        <5>4. c \in Nat /\ c <= resultCount /\ owed = 0 .. c - 1 /\ i \in owed
              /\ owed \subseteq Oracle!Recorded
          BY <5>1, <5>2, <5>3
        <5> HIDE DEF c, owed
        <5>5. /\ i \in Oracle!Recorded /\ i \in Nat /\ i < resultCount
              /\ \A k \in 0 .. i : k \in owed
          BY <4>5, <5>4
        <5> QED BY <5>5 DEF owed
      <4>8. CASE page = {}
        <5>1. reader' = [reader EXCEPT !.done = TRUE]
          BY <4>1, <4>8
        <5>2. reader' \in Reading /\ reader'.owed = reader.owed /\ reader'.start = reader.start
              /\ reader'.seen = reader.seen
          BY <4>3, <5>1 DEF Reading
        <5>3. ASSUME Oracle!Prefix(reader.owed) PROVE reader.owed \subseteq reader.seen
          <6>1. ASSUME NEW i \in reader.owed, i >= s PROVE FALSE
            <7>1. i \in Nat /\ i < resultCount /\ s \in 0 .. i
              BY <4>3, <4>7, <5>3, <6>1
            <7>2. s \in reader.owed
              BY <4>7, <5>3, <6>1, <7>1
            <7>3. s \in Oracle!Recorded /\ s < resultCount
              BY <4>7, <5>3, <7>2
            <7>4. s < s + PageLimit /\ s <= s
              BY <4>3, <4>4
            <7>5. s \in page
              BY <4>6, <7>3, <7>4
            <7> QED BY <4>8, <7>5
          <6>2. \A i \in reader.owed : i \in Nat /\ ~ (i >= s)
            BY <4>7, <5>3, <6>1
          <6>3. \A i \in reader.owed : i \in 0 .. s - 1
            BY <4>3, <6>2
          <6> QED BY <4>2, <5>3, <6>3 DEF ReaderInv
        <5>4. reader'.owed \subseteq Oracle!Recorded
          BY <4>2, <5>2 DEF ReaderInv
        <5>5. Oracle!Prefix(reader.owed) =>
                 /\ reader'.owed \cap (0 .. reader'.start - 1) \subseteq reader'.seen
                 /\ reader'.done => reader'.owed \subseteq reader'.seen
          BY <5>2, <5>3
        <5> QED BY <2>2, <5>2, <5>4, <5>5 DEF ReaderInv, Oracle!Prefix
      <4>9. CASE page # {}
        <5>1. reader' = [reader EXCEPT !.start = @ + PageLimit, !.seen = @ \cup page]
          BY <4>1, <4>9
        <5>2. page \subseteq Oracle!MatchIds
          BY <4>6, RecordedIds
        <5>3. reader' \in Reading /\ reader'.owed = reader.owed /\ reader'.start = s + PageLimit
              /\ reader'.seen = reader.seen \cup page /\ reader'.done = reader.done
          <6>1. PICK r, k, P : r = reader /\ k = s + PageLimit /\ P = reader.seen \cup page
            OBVIOUS
          <6>2. r \in Reading /\ k \in Nat
            BY <4>3, <4>4, <6>1
          <6>3. P \in SUBSET Oracle!MatchIds
            BY <4>3, <5>2, <6>1 DEF Reading
          <6>4. reader' = [r EXCEPT !.start = k, !.seen = P]
            BY <5>1, <6>1
          <6>5. /\ reader' \in Reading /\ reader'.owed = r.owed /\ reader'.start = k
                /\ reader'.seen = P /\ reader'.done = r.done
            BY <6>2, <6>3, <6>4 DEF Reading
          <6> QED BY <6>1, <6>5
        <5>4. ASSUME Oracle!Prefix(reader.owed), NEW i \in reader.owed,
                     i \in 0 .. s + PageLimit - 1
              PROVE  i \in reader.seen \cup page
          <6>1. CASE i < s
            <7>1. i \in 0 .. s - 1
              BY <4>3, <5>4, <6>1
            <7> QED BY <4>2, <5>4, <7>1 DEF ReaderInv
          <6>2. CASE ~ (i < s)
            <7>1. i \in Oracle!Recorded /\ i < resultCount /\ i \in Nat
              BY <4>7, <5>4
            <7>2. s <= i /\ i < s + PageLimit
              BY <4>3, <4>4, <5>4, <6>2
            <7> QED BY <4>6, <7>1, <7>2
          <6> QED BY <6>1, <6>2
        <5>5. reader'.owed \subseteq Oracle!Recorded
          BY <4>2, <5>3 DEF ReaderInv
        <5>6. Oracle!Prefix(reader.owed) =>
                 /\ reader'.owed \cap (0 .. reader'.start - 1) \subseteq reader'.seen
                 /\ reader'.done => reader'.owed \subseteq reader'.seen
          <6>1. ~ reader'.done
            BY <4>1, <5>3
          <6>2. ASSUME Oracle!Prefix(reader.owed)
                PROVE  reader.owed \cap (0 .. s + PageLimit - 1) \subseteq reader.seen \cup page
            BY <5>4, <6>2
          <6>3. PICK o, k, P : o = reader.owed /\ k = s + PageLimit /\ P = reader.seen \cup page
            OBVIOUS
          <6>4. Oracle!Prefix(o) => o \cap (0 .. k - 1) \subseteq P
            BY <4>3, <4>4, <6>2, <6>3
          <6>5. reader'.owed = o /\ reader'.start = k /\ reader'.seen = P
            BY <5>3, <6>3
          <6>6. Oracle!Prefix(o) =>
                  reader'.owed \cap (0 .. reader'.start - 1) \subseteq reader'.seen
            BY <6>4, <6>5
          <6> QED BY <6>1, <6>3, <6>6
        <5> QED BY <2>2, <5>3, <5>5, <5>6 DEF ReaderInv, Oracle!Prefix
      <4> QED BY <4>8, <4>9
    <3>3. CASE Oracle!StopReading
      BY <3>3 DEF Oracle!StopReading
    <3> QED BY <1>5, <3>1, <3>2, <3>3
  <2> QED BY <2>1, <2>2, <2>3 DEF OracleInv
<1> HIDE DEF OracleInv
<1> QED BY <1>1, <1>2, <1>3, <1>4, <1>5 DEF Oracle!Next

\* Of each behaviour of the contracts, the oracle's part.
LEMMA OraclePart == Spec => Oracle!Init /\ [][Oracle!Next]_oracleVars
<1>1. Init => Oracle!Init
  BY DEF Init
<1>2. [Next]_vars => [Oracle!Next]_oracleVars
  BY DEF Next, vars, oracleVars
<1> QED BY <1>1, <1>2, PTL DEF Spec

\* A reconciliation that ends has seen every result recorded before it began,
\* if their ids were a prefix then, whatever is recorded, replaced or handed
\* over while it reads (contracts/oracle).
THEOREM ReconciliationsMissNothing == Spec => []Oracle!ReconcilerMissesNothing
<1>1. OracleInv => Oracle!ReconcilerMissesNothing
  BY DEF OracleInv, ReaderInv, Oracle!ReconcilerMissesNothing
<1> QED BY <1>1, OraclePart, OracleInitial, OracleStep, PTL

-----------------------------------------------------------------------------
(* The paging of matches.                                                  *)

\* The ids from a to b - 1.
IdsFrom(a, b) == Pages!Ids(a, b)

\* A run is that sequence of ids.
LEMMA RunIs ==
  ASSUME NEW a \in Int, NEW b \in Int
  PROVE  /\ a <= b => IdsFrom(a, b) \in Seq(Int) /\ Len(IdsFrom(a, b)) = b - a
         /\ a >= b => IdsFrom(a, b) = << >>
         /\ \A i \in 1 .. b - a : IdsFrom(a, b)[i] = a + i - 1
<1>1. IdsFrom(a, b) = [i \in 1 .. b - a |-> a + i - 1]
  BY DEF IdsFrom, Pages!Ids
<1>2. ASSUME a <= b PROVE IdsFrom(a, b) \in Seq(Int) /\ Len(IdsFrom(a, b)) = b - a
  <2>1. b - a \in Nat
    BY <1>2
  <2>2. \A i \in 1 .. b - a : a + i - 1 \in Int
    OBVIOUS
  <2>3. IdsFrom(a, b) \in [1 .. b - a -> Int]
    BY <1>1, <2>2
  <2> QED BY <2>1, <2>3, LenProperties, SeqDef
<1>3. ASSUME a >= b PROVE IdsFrom(a, b) = << >>
  <2>1. 1 .. b - a = {}
    BY <1>3
  <2> QED BY <1>1, <2>1
<1>4. \A i \in 1 .. b - a : IdsFrom(a, b)[i] = a + i - 1
  BY <1>1
<1> QED BY <1>2, <1>3, <1>4

LEMMA RunFacts ==
  ASSUME NEW a \in Int, NEW b \in Int, a <= b
  PROVE  IdsFrom(a, b) \in Seq(Int) /\ Len(IdsFrom(a, b)) = b - a
         /\ \A i \in 1 .. b - a : IdsFrom(a, b)[i] = a + i - 1
BY RunIs

\* Runs of ids that follow each other make a run.
LEMMA RunOn ==
  ASSUME NEW a \in Int, NEW b \in Int, NEW c \in Int, a <= b, b <= c
  PROVE  IdsFrom(a, b) \o IdsFrom(b, c) = IdsFrom(a, c)
<1> DEFINE s == IdsFrom(a, b)
           t == IdsFrom(b, c)
           u == IdsFrom(a, c)
<1>1. s \in Seq(Int) /\ Len(s) = b - a /\ \A i \in 1 .. b - a : s[i] = a + i - 1
  BY RunFacts
<1>2. t \in Seq(Int) /\ Len(t) = c - b /\ \A i \in 1 .. c - b : t[i] = b + i - 1
  BY RunFacts
<1>3. u \in Seq(Int) /\ Len(u) = c - a /\ \A i \in 1 .. c - a : u[i] = a + i - 1
  <2>1. a <= c
    OBVIOUS
  <2> QED BY <2>1, RunFacts
<1> HIDE DEF s, t, u
<1>4. /\ s \o t \in Seq(Int) /\ Len(s \o t) = Len(s) + Len(t)
      /\ \A i \in 1 .. Len(s) + Len(t) :
           (s \o t)[i] = IF i <= Len(s) THEN s[i] ELSE t[i - Len(s)]
  BY <1>1, <1>2, ConcatProperties
<1> DEFINE v == s \o t
<1>5. v \in Seq(Int) /\ Len(v) = c - a
      /\ \A i \in 1 .. c - a : v[i] = IF i <= b - a THEN s[i] ELSE t[i - (b - a)]
  <2>1. Len(s) + Len(t) = c - a
    BY <1>1, <1>2
  <2> QED BY <1>1, <1>4, <2>1
<1> HIDE DEF v
<1>6. ASSUME NEW i \in 1 .. c - a PROVE v[i] = u[i]
  <2>1. CASE i <= b - a
    <3>1. v[i] = s[i] /\ i \in 1 .. b - a
      BY <1>5, <2>1
    <3> QED BY <1>1, <1>3, <3>1
  <2>2. CASE ~ (i <= b - a)
    <3> DEFINE j == i - (b - a)
    <3>1. j \in 1 .. c - b /\ b + j - 1 = a + i - 1
      BY <2>2
    <3>2. v[i] = t[j]
      BY <1>5, <2>2
    <3> HIDE DEF j
    <3>3. t[j] = b + j - 1
      BY <1>2, <3>1
    <3> QED BY <1>3, <3>1, <3>2, <3>3
  <2> QED BY <2>1, <2>2
<1>7. v = u
  BY <1>3, <1>5, <1>6, SeqEqual
<1> QED BY <1>7 DEF s, t, u, v

\* What is assumed of the constants.
LEMMA PagesConstants ==
  /\ MAX_LIMIT \in Nat /\ \A l \in PageLimits : l \in 1 .. MAX_LIMIT
  /\ MaxMatches \in Nat /\ MaxU64 \in Nat /\ MaxMatches < MaxU64
BY ContractsAssumption DEF Pages!PagesAssumption

\* Where a page of l that starts at a ends.
PageEnd(a, l, count) == IF a + l <= count THEN a + l ELSE count

\* What a page of each kind returns.
LEMMA PageOf ==
  ASSUME matchCount \in 0 .. MaxMatches, NEW a \in Nat, NEW l \in 1 .. MAX_LIMIT
  PROVE  /\ Pages!list_matches(a, l) = IdsFrom(a, PageEnd(a, l, matchCount))
         /\ a + 1 <= matchCount =>
              Pages!list_matches_after(a, l) = IdsFrom(a + 1, PageEnd(a + 1, l, matchCount))
         /\ a + 1 > matchCount => Pages!list_matches_after(a, l) = << >>
<1>0. /\ MAX_LIMIT \in Int /\ MaxMatches \in Int /\ MaxU64 \in Int /\ MaxMatches < MaxU64
      /\ matchCount \in Int /\ matchCount <= MaxMatches /\ l \in Int /\ l <= MAX_LIMIT
      /\ matchCount >= 0 /\ l >= 1
  BY PagesConstants
<1>1. Pages!Min({l, MAX_LIMIT}) = l
  BY <1>0, LesserOf
<1>2. ASSUME NEW b \in Int, NEW k \in Int, k >= 0
      PROVE  Pages!Min({Pages!Plus(b, k), matchCount}) = PageEnd(b, k, matchCount)
  <2> DEFINE e == b + k
  <2>1. e \in Int
    OBVIOUS
  <2>2. PageEnd(b, k, matchCount) = IF e <= matchCount THEN e ELSE matchCount
    BY DEF PageEnd
  <2>3. Pages!Plus(b, k) = Pages!Min({e, MaxU64})
    BY DEF Pages!Plus
  <2> HIDE DEF e
  <2>4. Pages!Plus(b, k) = IF e <= MaxU64 THEN e ELSE MaxU64
    BY <1>0, <2>1, <2>3, LesserOf
  <2> DEFINE m == Pages!Plus(b, k)
  <2>5. m \in Int
    BY <1>0, <2>1, <2>4
  <2>6. m = IF e <= MaxU64 THEN e ELSE MaxU64
    BY <2>4
  <2> HIDE DEF m
  <2>7. Pages!Min({m, matchCount}) = IF m <= matchCount THEN m ELSE matchCount
    BY <1>0, <2>5, LesserOf
  <2>8. Pages!Min({m, matchCount}) = IF e <= matchCount THEN e ELSE matchCount
    BY <1>0, <2>1, <2>5, <2>6, <2>7
  <2> QED BY <2>2, <2>8 DEF m
<1>3. Pages!list_matches(a, l) = IdsFrom(a, PageEnd(a, l, matchCount))
  <2>1. Pages!Min({Pages!Plus(a, l), matchCount}) = PageEnd(a, l, matchCount)
    BY <1>0, <1>2
  <2> QED BY <1>1, <2>1 DEF Pages!list_matches, IdsFrom
<1> DEFINE start == Pages!Min({Pages!Plus(a, 1), matchCount})
<1>4. start = IF a + 1 <= matchCount THEN a + 1 ELSE matchCount
  <2>1. start = PageEnd(a, 1, matchCount)
    BY <1>2
  <2> QED BY <2>1 DEF PageEnd
<1>5. start \in Int
  BY <1>0, <1>4
<1>6. Pages!list_matches_after(a, l) = IdsFrom(start, PageEnd(start, l, matchCount))
  <2>1. PICK b : b = start
    OBVIOUS
  <2>2. Pages!Min({Pages!Plus(b, l), matchCount}) = PageEnd(b, l, matchCount)
    BY <1>0, <1>2, <1>5, <2>1
  <2>3. Pages!list_matches_after(a, l) =
          Pages!Ids(start, Pages!Min({Pages!Plus(start, Pages!Min({l, MAX_LIMIT})), matchCount}))
    BY DEF Pages!list_matches_after
  <2> HIDE DEF start
  <2> QED BY <1>1, <2>1, <2>2, <2>3 DEF IdsFrom
<1> HIDE DEF start
<1>7. ASSUME a + 1 > matchCount PROVE Pages!list_matches_after(a, l) = << >>
  <2>1. start = matchCount
    BY <1>0, <1>4, <1>7
  <2>2. PageEnd(start, l, matchCount) = matchCount
    BY <1>0, <2>1 DEF PageEnd
  <2>3. IdsFrom(matchCount, matchCount) = << >>
    BY <1>0, RunIs
  <2> QED BY <1>6, <2>1, <2>2, <2>3
<1>8. ASSUME a + 1 <= matchCount
      PROVE  Pages!list_matches_after(a, l) = IdsFrom(a + 1, PageEnd(a + 1, l, matchCount))
  BY <1>0, <1>4, <1>6, <1>8
<1> QED BY <1>3, <1>7, <1>8

\* A loop over the pages.
PageReader == [at : Nat, limit : 1 .. MAX_LIMIT, seen : Seq(Int), from : Nat, owed : Nat,
           done : BOOLEAN]

\* A loop has seen exactly the ids from where it began to where it reads next.
OffsetOK(r, count) ==
  /\ r \in PageReader /\ r.at <= count /\ r.owed <= count
  /\ r.seen = IdsFrom(0, r.at) /\ (r.done => r.at >= r.owed)
CursorOK(r, count) ==
  /\ r \in PageReader /\ r.from <= r.at /\ r.owed <= count
  /\ r.seen = IdsFrom(r.from + 1, r.at + 1) /\ (r.done => r.at + 1 >= r.owed)

\* The paging's inductive invariant.
PagesInv ==
  /\ matchCount \in 0 .. MaxMatches
  /\ offsetReader # None => OffsetOK(offsetReader, matchCount)
  /\ cursorReader # None => CursorOK(cursorReader, matchCount)

\* There is no match and nobody reads.
LEMMA PagesInitial == Pages!Init => PagesInv
BY PagesConstants DEF Pages!Init, PagesInv

\* What a page that starts at id a has.
PageFrom(page, a, l, count) ==
  /\ page = << >> => a >= count
  /\ page # << >> =>
       /\ a < count /\ Len(page) \in Nat \ {0} /\ page[Len(page)] = a + Len(page) - 1
       /\ a + Len(page) = PageEnd(a, l, count) /\ a + Len(page) <= count
       /\ Len(page) < l => a + Len(page) = count

\* A run is such a page.
LEMMA OnePage ==
  ASSUME NEW a \in Nat, NEW l \in 1 .. MAX_LIMIT, NEW count \in Nat
  PROVE  PageFrom(IdsFrom(a, PageEnd(a, l, count)), a, l, count)
<1> DEFINE e == PageEnd(a, l, count)
           page == IdsFrom(a, e)
<1>1. e = IF a + l <= count THEN a + l ELSE count
  BY DEF PageEnd
<1>2. l \in Int /\ l >= 1 /\ e \in Int
  BY <1>1, PagesConstants
<1> HIDE DEF e
<1>3. a >= e => page = << >> /\ a >= count
  <2>1. a >= e => a >= count
    BY <1>1, <1>2
  <2> QED BY <1>2, <2>1, RunIs
<1>4. ASSUME a < e
      PROVE  /\ page # << >> /\ a < count /\ Len(page) \in Nat \ {0}
             /\ page[Len(page)] = a + Len(page) - 1
             /\ a + Len(page) = e /\ a + Len(page) <= count
             /\ Len(page) < l => a + Len(page) = count
  <2>1. page \in Seq(Int) /\ Len(page) = e - a /\ \A i \in 1 .. e - a : page[i] = a + i - 1
    <3>1. a \in Int /\ e \in Int /\ a <= e
      BY <1>2, <1>4
    <3> QED BY ONLY <3>1, RunFacts DEF page
  <2> HIDE DEF page
  <2> DEFINE k == Len(page)
  <2>2. k \in Nat \ {0} /\ a + k = e /\ k \in 1 .. e - a
    BY <1>2, <1>4, <2>1
  <2>3. page[k] = a + k - 1
    BY <2>1, <2>2
  <2>4. page # << >>
    BY <2>1, <2>2, EmptySeq
  <2> HIDE DEF k
  <2>5. a < count /\ a + k <= count /\ (k < l => a + k = count)
    BY <1>1, <1>2, <1>4, <2>2
  <2> QED BY <2>2, <2>3, <2>4, <2>5 DEF k
<1>5. a >= e \/ a < e
  BY <1>2
<1> QED BY <1>3, <1>4, <1>5 DEF e, PageFrom

\* The next page, by offset and by cursor, keeps what a loop has seen a run.
LEMMA ReadsOffset ==
  ASSUME PagesInv, Pages!ReadOffset
  PROVE  OffsetOK(offsetReader', matchCount)
<1> DEFINE r == offsetReader
           page == Pages!list_matches(r.at, r.limit)
<1>1. /\ r # None /\ ~ r.done
      /\ r' = IF page = << >> THEN [r EXCEPT !.done = TRUE]
              ELSE [r EXCEPT !.seen = @ \o page, !.at = page[Len(page)] + 1,
                             !.done = Len(page) < r.limit]
  BY DEF Pages!ReadOffset
<1>2. /\ OffsetOK(r, matchCount) /\ matchCount \in 0 .. MaxMatches /\ matchCount \in Nat
  BY <1>1, PagesConstants DEF PagesInv
<1>3. PICK o : o = r
  OBVIOUS
<1> DEFINE e == PageEnd(o.at, o.limit, matchCount)
           run == IdsFrom(o.at, e)
<1>4. /\ o \in PageReader /\ o.at \in Nat /\ o.limit \in 1 .. MAX_LIMIT /\ o.at <= matchCount
      /\ o.owed <= matchCount /\ o.seen = IdsFrom(0, o.at) /\ o.owed \in Nat
  BY <1>2, <1>3 DEF OffsetOK, PageReader
<1>5. page = run
  BY <1>2, <1>3, <1>4, PageOf
<1>6. /\ run = << >> => o.at >= matchCount
      /\ run # << >> =>
           /\ Len(run) \in Nat \ {0} /\ run[Len(run)] = o.at + Len(run) - 1
           /\ o.at + Len(run) = e /\ e <= matchCount
           /\ Len(run) < o.limit => e = matchCount
  <2>1. PageFrom(run, o.at, o.limit, matchCount)
    BY <1>2, <1>4, OnePage
  <2>2. o.at + Len(run) <= matchCount => e <= matchCount \/ o.at + Len(run) # e
    OBVIOUS
  <2> HIDE DEF run
  <2> QED BY <2>1, <2>2 DEF PageFrom
<1> HIDE DEF e, run, page
<1>7. CASE run = << >>
  <2>1. r' = [o EXCEPT !.done = TRUE]
    BY <1>1, <1>3, <1>5, <1>7
  <2>2. /\ r' \in PageReader /\ r'.at = o.at /\ r'.owed = o.owed /\ r'.seen = o.seen
    BY <1>4, <2>1 DEF PageReader
  <2>3. o.at >= o.owed
    BY <1>2, <1>4, <1>6, <1>7
  <2> QED BY <1>4, <2>2, <2>3 DEF OffsetOK
<1>8. CASE run # << >>
  <2> DEFINE n == Len(run)
             s == o.seen \o run
             b == n < o.limit
  <2>1. n \in Nat \ {0} /\ run[n] + 1 = e /\ e = o.at + n /\ e <= matchCount /\ e \in Nat
        /\ (b => e = matchCount)
    <3>1. n \in Nat \ {0} /\ run[n] = o.at + n - 1 /\ o.at + n = e /\ e <= matchCount
          /\ (b => e = matchCount)
      BY <1>6, <1>8
    <3> HIDE DEF n, b
    <3> QED BY <1>4, <3>1
  <2>2. s = IdsFrom(0, e)
    <3>1. PICK x : x = o.at
      OBVIOUS
    <3>2. x \in Int /\ e \in Int /\ 0 \in Int /\ x <= e /\ 0 <= x
      <4> HIDE DEF n
      <4> QED BY <1>4, <2>1, <3>1
    <3>3. IdsFrom(0, x) \o IdsFrom(x, e) = IdsFrom(0, e)
      BY <3>2, RunOn
    <3> QED BY <1>4, <3>1, <3>3 DEF run
  <2>3. s \in Seq(Int)
    <3>1. 0 \in Int /\ e \in Int /\ 0 <= e
      BY <2>1
    <3>2. IdsFrom(0, e) \in Seq(Int)
      BY <3>1, RunFacts
    <3> QED BY <2>2, <3>2
  <2>4. r' = [o EXCEPT !.seen = s, !.at = e, !.done = b]
    BY <1>1, <1>3, <1>5, <1>8, <2>1
  <2>5. b \in BOOLEAN
    OBVIOUS
  <2> HIDE DEF s, b, n
  <2>6. /\ r' \in PageReader /\ r'.at = e /\ r'.owed = o.owed /\ r'.seen = s /\ r'.done = b
    BY <1>4, <2>1, <2>3, <2>4, <2>5 DEF PageReader
  <2>7. b => e >= o.owed
    BY <1>2, <1>4, <2>1
  <2> QED BY <1>4, <2>1, <2>2, <2>6, <2>7 DEF OffsetOK
<1> QED BY <1>7, <1>8

LEMMA ReadsCursor ==
  ASSUME PagesInv, Pages!ReadCursor
  PROVE  CursorOK(cursorReader', matchCount)
<1> DEFINE r == cursorReader
           page == Pages!list_matches_after(r.at, r.limit)
<1>1. /\ r # None /\ ~ r.done
      /\ r' = IF page = << >> THEN [r EXCEPT !.done = TRUE]
              ELSE [r EXCEPT !.seen = @ \o page, !.at = page[Len(page)]]
  BY DEF Pages!ReadCursor
<1>2. /\ CursorOK(r, matchCount) /\ matchCount \in 0 .. MaxMatches /\ matchCount \in Nat
  BY <1>1, PagesConstants DEF PagesInv
<1>3. PICK o : o = r
  OBVIOUS
<1> DEFINE a == o.at + 1
           e == PageEnd(a, o.limit, matchCount)
           run == IdsFrom(a, e)
<1>4. /\ o \in PageReader /\ o.at \in Nat /\ o.limit \in 1 .. MAX_LIMIT /\ o.from \in Nat
      /\ o.from <= o.at /\ o.owed <= matchCount /\ o.seen = IdsFrom(o.from + 1, a)
      /\ o.owed \in Nat
      /\ a \in Nat /\ o.done = FALSE
  BY <1>1, <1>2, <1>3 DEF CursorOK, PageReader
<1>5. /\ a <= matchCount => page = run
      /\ a > matchCount => page = << >>
  BY <1>2, <1>3, <1>4, PageOf
<1>6. /\ run = << >> => a >= matchCount
      /\ run # << >> =>
           /\ Len(run) \in Nat \ {0} /\ run[Len(run)] = a + Len(run) - 1
           /\ a + Len(run) = e
  <2>1. PageFrom(run, a, o.limit, matchCount)
    <3> HIDE DEF a
    <3> QED BY <1>2, <1>4, OnePage
  <2> HIDE DEF a, run
  <2> QED BY <2>1 DEF PageFrom
<1> HIDE DEF a, e, run, page
<1>7. CASE page = << >>
  <2>1. r' = [o EXCEPT !.done = TRUE]
    BY <1>1, <1>3, <1>7
  <2>2. /\ r' \in PageReader /\ r'.at = o.at /\ r'.owed = o.owed /\ r'.seen = o.seen
        /\ r'.from = o.from
    BY <1>4, <2>1 DEF PageReader
  <2>3. a >= matchCount
    BY <1>2, <1>4, <1>5, <1>6, <1>7
  <2>4. a >= o.owed
    BY <1>2, <1>4, <2>3
  <2> QED BY <1>4, <2>2, <2>4 DEF CursorOK, a
<1>8. CASE page # << >>
  <2>0. page = run /\ run # << >>
    BY <1>2, <1>4, <1>5, <1>8
  <2> DEFINE n == Len(run)
             s == o.seen \o run
             k == run[n]
  <2>1. n \in Nat \ {0} /\ k + 1 = e /\ k \in Nat /\ e \in Nat /\ a <= e /\ k >= o.at
    <3>1. n \in Nat \ {0} /\ k = a + n - 1 /\ a + n = e
      BY <1>6, <2>0
    <3>2. a = o.at + 1
      BY DEF a
    <3> HIDE DEF n, k
    <3> QED BY <1>4, <3>1, <3>2
  <2>2. s = IdsFrom(o.from + 1, e)
    <3>1. o.from + 1 <= a /\ o.from + 1 \in Int /\ a \in Int /\ e \in Int /\ a <= e
      BY <1>4, <2>1 DEF a
    <3>2. PICK f : f = o.from + 1
      OBVIOUS
    <3>3. IdsFrom(f, a) \o IdsFrom(a, e) = IdsFrom(f, e)
      BY <3>1, <3>2, RunOn
    <3> QED BY <1>4, <3>2, <3>3 DEF run
  <2>3. s \in Seq(Int)
    <3>1. PICK f : f = o.from + 1
      OBVIOUS
    <3>2. f \in Int /\ e \in Int /\ f <= e
      BY <1>4, <2>1, <3>1 DEF a
    <3>3. IdsFrom(f, e) \in Seq(Int)
      BY <3>2, RunFacts
    <3> QED BY <2>2, <3>1, <3>3
  <2>4. r' = [o EXCEPT !.seen = s, !.at = k]
    BY <1>1, <1>3, <2>0
  <2> HIDE DEF s, k, n
  <2>6. /\ r' \in PageReader /\ r'.at = k /\ r'.owed = o.owed /\ r'.seen = s /\ r'.done = o.done
        /\ r'.from = o.from
    BY <1>4, <2>1, <2>3, <2>4 DEF PageReader
  <2>7. o.from <= k /\ s = IdsFrom(o.from + 1, k + 1)
    BY <1>4, <2>1, <2>2
  <2> QED BY <1>4, <2>6, <2>7 DEF CursorOK
<1> QED BY <1>7, <1>8

\* A loop begins with nothing seen.
LEMMA BeginsIs ==
  ASSUME PagesInv, NEW l \in PageLimits, NEW a \in Nat
  PROVE  LET r == Pages!Begins(a, l) IN
         /\ r \in PageReader /\ r.at = a /\ r.from = a /\ r.seen = << >> /\ r.owed = matchCount
         /\ ~ r.done /\ matchCount \in Nat
<1>1. matchCount \in Nat /\ l \in 1 .. MAX_LIMIT /\ << >> \in Seq(Int)
  BY PagesConstants, EmptySeq DEF PagesInv
<1> QED BY <1>1 DEF Pages!Begins, PageReader

\* Every step of the paging keeps the invariant.
LEMMA PagesStep == PagesInv /\ [Pages!Next]_pagesVars => PagesInv'
<1> SUFFICES ASSUME PagesInv, [Pages!Next]_pagesVars PROVE PagesInv'
  OBVIOUS
<1>0. matchCount \in 0 .. MaxMatches /\ MaxMatches \in Nat /\ MaxU64 \in Nat
  BY PagesConstants DEF PagesInv
<1>1. CASE UNCHANGED pagesVars
  BY <1>1 DEF PagesInv, pagesVars
<1>2. ASSUME Pages!CreateMatch PROVE PagesInv'
  <2>1. /\ matchCount' = matchCount + 1 /\ matchCount' \in 0 .. MaxMatches
        /\ offsetReader' = offsetReader /\ cursorReader' = cursorReader
    BY <1>0, <1>2 DEF Pages!CreateMatch
  <2>2. ASSUME NEW r, OffsetOK(r, matchCount) PROVE OffsetOK(r, matchCount')
    <3>1. r \in PageReader /\ r.at \in Nat /\ r.owed \in Nat
      BY <2>2 DEF OffsetOK, PageReader
    <3> QED BY <1>0, <2>1, <2>2, <3>1 DEF OffsetOK
  <2>3. ASSUME NEW r, CursorOK(r, matchCount) PROVE CursorOK(r, matchCount')
    <3>1. r \in PageReader /\ r.owed \in Nat
      BY <2>3 DEF CursorOK, PageReader
    <3> QED BY <1>0, <2>1, <2>3, <3>1 DEF CursorOK
  <2> QED BY <2>1, <2>2, <2>3 DEF PagesInv
<1>3. ASSUME Pages!ReadOffset PROVE PagesInv'
  <2>1. matchCount' = matchCount /\ cursorReader' = cursorReader
    BY <1>3 DEF Pages!ReadOffset
  <2>2. OffsetOK(offsetReader', matchCount)
    BY <1>3, ReadsOffset
  <2> QED BY <2>1, <2>2 DEF PagesInv
<1>4. ASSUME Pages!ReadCursor PROVE PagesInv'
  <2>1. matchCount' = matchCount /\ offsetReader' = offsetReader
    BY <1>4 DEF Pages!ReadCursor
  <2>2. CursorOK(cursorReader', matchCount)
    BY <1>4, ReadsCursor
  <2> QED BY <2>1, <2>2 DEF PagesInv
<1>5. ASSUME NEW l \in PageLimits, Pages!StartOffset(l) PROVE PagesInv'
  <2>1. matchCount' = matchCount /\ cursorReader' = cursorReader
        /\ offsetReader' = Pages!Begins(0, l)
    BY <1>5 DEF Pages!StartOffset
  <2>2. IdsFrom(0, 0) = << >>
    BY RunIs
  <2>3. OffsetOK(offsetReader', matchCount)
    <3>1. PICK r : r = Pages!Begins(0, l)
      OBVIOUS
    <3>2. /\ r \in PageReader /\ r.at = 0 /\ r.seen = << >> /\ r.owed = matchCount
          /\ ~ r.done /\ matchCount \in Nat
      BY <3>1, BeginsIs
    <3>3. OffsetOK(r, matchCount)
      BY <2>2, <3>2 DEF OffsetOK
    <3> QED BY <2>1, <3>1, <3>3
  <2> QED BY <2>1, <2>3 DEF PagesInv
<1>6. ASSUME NEW l \in PageLimits, NEW c \in 0 .. matchCount \cup {MaxU64},
             Pages!StartCursor(c, l)
      PROVE  PagesInv'
  <2>0. c \in Nat
    BY <1>0
  <2>1. matchCount' = matchCount /\ offsetReader' = offsetReader
        /\ cursorReader' = Pages!Begins(c, l)
    BY <1>6 DEF Pages!StartCursor
  <2>2. IdsFrom(c + 1, c + 1) = << >>
    <3>1. PICK x : x = c + 1
      OBVIOUS
    <3>2. x \in Int
      BY <2>0, <3>1
    <3>3. IdsFrom(x, x) = << >>
      BY <3>2, RunIs
    <3> QED BY <3>1, <3>3
  <2>3. CursorOK(cursorReader', matchCount)
    <3>1. PICK r : r = Pages!Begins(c, l)
      OBVIOUS
    <3>2. /\ r \in PageReader /\ r.at = c /\ r.from = c /\ r.seen = << >> /\ r.owed = matchCount
          /\ ~ r.done /\ matchCount \in Nat
      BY <2>0, <3>1, BeginsIs
    <3>3. CursorOK(r, matchCount)
      BY <2>0, <2>2, <3>2 DEF CursorOK
    <3> QED BY <2>1, <3>1, <3>3
  <2> QED BY <2>1, <2>3 DEF PagesInv
<1> HIDE DEF PagesInv
<1> QED BY <1>1, <1>2, <1>3, <1>4, <1>5, <1>6 DEF Pages!Next

\* Of each behaviour of the contracts, the paging's part.
LEMMA PagesPart == Spec => Pages!Init /\ [][Pages!Next]_pagesVars
<1>1. Init => Pages!Init
  BY DEF Init
<1>2. [Next]_vars => [Pages!Next]_pagesVars
  BY DEF Next, vars, pagesVars
<1> QED BY <1>1, <1>2, PTL DEF Spec

\* Who has seen a run up to what it is owed has missed nothing.
LEMMA RunComplete ==
  ASSUME NEW r \in PageReader, NEW f \in Nat, NEW e \in Nat, f <= e, r.seen = IdsFrom(f, e),
         r.done => e >= r.owed
  PROVE  Pages!Complete(r, f)
<1>1. r.seen \in Seq(Int) /\ Len(r.seen) = e - f /\ DOMAIN r.seen = 1 .. e - f
      /\ \A i \in 1 .. e - f : r.seen[i] = f + i - 1
  <2>1. f \in Int /\ e \in Int /\ f <= e
    OBVIOUS
  <2>2. IdsFrom(f, e) \in Seq(Int) /\ Len(IdsFrom(f, e)) = e - f
        /\ \A i \in 1 .. e - f : IdsFrom(f, e)[i] = f + i - 1
    BY ONLY <2>1, RunFacts
  <2>3. DOMAIN IdsFrom(f, e) = 1 .. e - f
    BY <2>2, LenProperties
  <2> QED BY <2>2, <2>3
<1>2. f + Len(r.seen) = e
  BY <1>1
<1> QED BY <1>1, <1>2 DEF Pages!Complete

\* A loop over list_matches or list_matches_after that ends has seen each match
\* there was when it began exactly once and in order, whatever is created while
\* it reads (contracts/escrow).
THEOREM MatchPagesMissNothing == Spec => []Pages!PagesMissNothing
<1>1. PagesInv => Pages!PagesMissNothing
  <2> SUFFICES ASSUME PagesInv PROVE Pages!PagesMissNothing
    OBVIOUS
  <2>1. ASSUME offsetReader # None PROVE Pages!Complete(offsetReader, 0)
    <3>1. PICK r : r = offsetReader
      OBVIOUS
    <3>2. OffsetOK(r, matchCount)
      BY <2>1, <3>1 DEF PagesInv
    <3>3. /\ r \in PageReader /\ r.at \in Nat /\ r.seen = IdsFrom(0, r.at)
          /\ (r.done => r.at >= r.owed)
      BY <3>2 DEF OffsetOK, PageReader
    <3>4. Pages!Complete(r, 0)
      <4>1. PICK e : e = r.at
        OBVIOUS
      <4>2. e \in Nat /\ 0 \in Nat /\ 0 <= e /\ r.seen = IdsFrom(0, e) /\ (r.done => e >= r.owed)
        BY <3>3, <4>1
      <4> QED BY ONLY <3>3, <4>2, RunComplete
    <3> QED BY <3>1, <3>4
  <2>2. ASSUME cursorReader # None PROVE Pages!Complete(cursorReader, cursorReader.from + 1)
    <3>1. PICK r : r = cursorReader
      OBVIOUS
    <3>2. CursorOK(r, matchCount)
      BY <2>2, <3>1 DEF PagesInv
    <3>3. r \in PageReader /\ r.at \in Nat /\ r.from \in Nat /\ r.from <= r.at
          /\ r.seen = IdsFrom(r.from + 1, r.at + 1) /\ (r.done => r.at + 1 >= r.owed)
      BY <3>2 DEF CursorOK, PageReader
    <3>4. Pages!Complete(r, r.from + 1)
      <4>1. PICK f, e : f = r.from + 1 /\ e = r.at + 1
        OBVIOUS
      <4>2. e \in Nat /\ f \in Nat /\ f <= e /\ r.seen = IdsFrom(f, e) /\ (r.done => e >= r.owed)
        BY <3>3, <4>1
      <4>3. Pages!Complete(r, f)
        BY ONLY <3>3, <4>2, RunComplete
      <4> QED BY <4>1, <4>3
    <3> QED BY <3>1, <3>4
  <2> QED BY <2>1, <2>2 DEF Pages!PagesMissNothing
<1> QED BY <1>1, PagesPart, PagesInitial, PagesStep, PTL

-----------------------------------------------------------------------------
(* The names of the registry, and their pages.                             *)

\* The first n values of s are numbers, each larger than the one before.
Ascends(s, n) ==
  /\ n \in Nat /\ \A i \in 1 .. n : s[i] \in Nat
  /\ \A i, j \in 1 .. n : i < j => s[i] < s[j]

\* t is s with x put behind its first k values, and s without its k-th value.
OneMore(s, t, n, k, x) ==
  /\ k \in 0 .. n /\ t[k + 1] = x
  /\ \A i \in 1 .. k : t[i] = s[i]
  /\ \A i \in k + 2 .. n + 1 : t[i] = s[i - 1]
OneLess(s, t, n, k) ==
  /\ k \in 1 .. n
  /\ \A i \in 1 .. k - 1 : t[i] = s[i]
  /\ \A i \in k .. n - 1 : t[i] = s[i + 1]

\* The first k values of s are smaller than x, and the others are not.
Below(s, n, k, x) ==
  /\ k \in 0 .. n
  /\ \A i \in 1 .. k : s[i] < x
  /\ \A i \in k + 1 .. n : s[i] >= x

\* The first n values of s.
Among(s, n) == {s[i] : i \in 1 .. n}

\* The places up to which all values are smaller than x.
Lower(s, n, x) == {i \in 1 .. n : \A j \in 1 .. i : s[j] < x}

\* Values that ascend are all different.
LEMMA AscendingSize ==
  ASSUME NEW s, NEW n, Ascends(s, n)
  PROVE  IsFiniteSet(Among(s, n)) /\ Cardinality(Among(s, n)) = n
<1>1. n \in Nat
  BY DEF Ascends
<1>2. \A i, j \in 1 .. n : s[i] = s[j] => i = j
  BY DEF Ascends
<1> DEFINE f == [i \in 1 .. n |-> s[i]]
<1>3. f \in [1 .. n -> Among(s, n)]
  BY DEF Among
<1>4. \A y \in Among(s, n) : \E i \in 1 .. n : f[i] = y
  BY DEF Among
<1>5. \A i, j \in 1 .. n : f[i] = f[j] => i = j
  BY <1>2
<1> HIDE DEF f
<1>6. f \in Bijection(1 .. n, Among(s, n))
  BY <1>3, <1>4, <1>5 DEF Bijection, Injection, Surjection, IsInjective
<1>7. ExistsBijection(1 .. n, Among(s, n))
  BY <1>6 DEF ExistsBijection
<1>8. IsFiniteSet(1 .. n) /\ Cardinality(1 .. n) = n
  BY <1>1, FS_Interval
<1> QED BY <1>7, <1>8, FS_Bijection

\* The values smaller than x are the first ones.
LEMMA BelowIs ==
  ASSUME NEW s, NEW n, Ascends(s, n), NEW x \in Nat
  PROVE  \E k \in 0 .. n : Below(s, n, k, x) /\ Lower(s, n, x) = 1 .. k
<1>0. n \in Nat /\ \A i \in 1 .. n : s[i] \in Nat
  BY DEF Ascends
<1> DEFINE T == {j \in 1 .. n + 1 : j = n + 1 \/ s[j] >= x}
<1>1. T \subseteq Nat /\ T # {}
  BY <1>0
<1>2. PICK m \in T : \A y \in T : m <= y
  BY <1>0, <1>1, LeastNat
<1> DEFINE k == m - 1
<1>3. k \in 0 .. n /\ m = k + 1
  BY <1>0, <1>2
<1>4. \A i \in 1 .. k : s[i] < x
  BY <1>0, <1>2, <1>3
<1>5. \A i \in k + 1 .. n : s[i] >= x
  <2> SUFFICES ASSUME NEW i \in k + 1 .. n PROVE s[i] >= x
    OBVIOUS
  <2>1. s[m] >= x
    BY <1>0, <1>2, <1>3
  <2>2. CASE i = m
    BY <2>1, <2>2
  <2>3. CASE m < i
    <3>1. s[m] < s[i] /\ s[m] \in Nat /\ s[i] \in Nat
      BY <1>0, <1>3, <2>3 DEF Ascends
    <3> QED BY <2>1, <3>1
  <2> QED BY <1>0, <1>3, <2>2, <2>3
<1> HIDE DEF k, T
<1>6. ASSUME NEW i \in 1 .. n PROVE (\A j \in 1 .. i : s[j] < x) <=> i \in 1 .. k
  BY <1>0, <1>3, <1>4, <1>5
<1>7. {i \in 1 .. n : \A j \in 1 .. i : s[j] < x} = 1 .. k
  BY <1>0, <1>3, <1>6
<1> QED BY <1>3, <1>4, <1>5, <1>7 DEF Below, Lower

\* What InsertAt and RemoveAt build.
PutIn(s, k, x) == SubSeq(s, 1, k) \o <<x>> \o SubSeq(s, k + 1, Len(s))
LEMMA OneIn ==
  ASSUME NEW S, NEW s \in Seq(S), NEW k \in 0 .. Len(s), NEW x \in S, NEW t, t = PutIn(s, k, x)
  PROVE  t \in Seq(S) /\ Len(t) = Len(s) + 1 /\ OneMore(s, t, Len(s), k, x)
<1> DEFINE a == SubSeq(s, 1, k)
           b == SubSeq(s, k + 1, Len(s))
<1>0. Len(s) \in Nat /\ \A i \in 1 .. Len(s) : s[i] \in S
  OBVIOUS
<1>1. a \in Seq(S) /\ Len(a) = k /\ \A i \in 1 .. k : a[i] = s[i]
  <2>1. \A i \in 1 .. k : s[i] \in S
    BY <1>0
  <2>2. /\ a \in Seq(S) /\ Len(a) = IF 1 <= k THEN k - 1 + 1 ELSE 0
        /\ \A i \in 1 .. k - 1 + 1 : a[i] = s[1 + i - 1]
    BY <2>1, SubSeqProperties
  <2> HIDE DEF a
  <2> QED BY <2>2
<1>2. b \in Seq(S) /\ Len(b) = Len(s) - k /\ \A i \in 1 .. Len(s) - k : b[i] = s[k + i]
  <2>1. \A i \in k + 1 .. Len(s) : s[i] \in S
    BY <1>0
  <2>2. /\ b \in Seq(S) /\ Len(b) = IF k + 1 <= Len(s) THEN Len(s) - (k + 1) + 1 ELSE 0
        /\ \A i \in 1 .. Len(s) - (k + 1) + 1 : b[i] = s[(k + 1) + i - 1]
    BY <1>0, <2>1, SubSeqProperties
  <2> HIDE DEF b
  <2> QED BY <1>0, <2>2
<1>3. t = a \o <<x>> \o b
  BY DEF PutIn
<1> HIDE DEF a, b
<1> DEFINE c == a \o <<x>>
<1>4. c \in Seq(S) /\ Len(c) = k + 1 /\ c[k + 1] = x /\ \A i \in 1 .. k : c[i] = s[i]
  BY <1>1
<1>5. t = c \o b
  BY <1>3
<1> HIDE DEF c
<1> DEFINE n == Len(s)
<1>6. /\ t \in Seq(S) /\ Len(t) = k + 1 + (n - k)
      /\ \A i \in 1 .. k + 1 + (n - k) : t[i] = IF i <= k + 1 THEN c[i] ELSE b[i - (k + 1)]
  <2>1. /\ c \o b \in Seq(S) /\ Len(c \o b) = Len(c) + Len(b)
        /\ \A i \in 1 .. Len(c) + Len(b) :
             (c \o b)[i] = IF i <= Len(c) THEN c[i] ELSE b[i - Len(c)]
    BY <1>2, <1>4, ConcatProperties
  <2> QED BY <1>2, <1>4, <1>5, <2>1
<1>7. n \in Nat /\ k \in 0 .. n /\ \A i \in 1 .. n - k : b[i] = s[k + i]
  BY <1>0, <1>2
<1> HIDE DEF n
<1>8. ASSUME NEW i \in k + 2 .. n + 1 PROVE t[i] = s[i - 1]
  <2>1. k \in Int /\ n \in Int /\ i \in Int /\ 0 <= k /\ k <= n /\ k + 2 <= i /\ i <= n + 1
    BY <1>7
  <2>2. /\ i - (k + 1) \in 1 .. n - k /\ k + (i - (k + 1)) = i - 1
        /\ i \in 1 .. k + 1 + (n - k) /\ ~ i <= k + 1
    BY <2>1
  <2> QED BY <1>6, <1>7, <2>2
<1>9. /\ k + 1 + (n - k) = n + 1 /\ \A i \in 1 .. k : i \in 1 .. k + 1 + (n - k) /\ i <= k + 1
      /\ k + 1 \in 1 .. k + 1 + (n - k)
  BY <1>7
<1>10. t \in Seq(S) /\ Len(t) = n + 1
  BY <1>6, <1>9
<1>11. t[k + 1] = x /\ \A i \in 1 .. k : t[i] = s[i]
  <2>1. ASSUME NEW i \in 1 .. k + 1 PROVE t[i] = c[i]
    <3>1. i \in 1 .. k + 1 + (n - k) /\ i <= k + 1
      BY <1>7
    <3> QED BY <1>6, <3>1
  <2>2. \A i \in 1 .. k : i \in 1 .. k + 1
    BY <1>7
  <2>3. k + 1 \in 1 .. k + 1
    BY <1>7
  <2> QED BY <1>4, <2>1, <2>2, <2>3
<1> QED BY <1>7, <1>8, <1>10, <1>11 DEF n, OneMore

LEMMA OneOut ==
  ASSUME NEW s \in Seq(Nat), NEW k \in 1 .. Len(s),
         NEW t, t = SubSeq(s, 1, k - 1) \o SubSeq(s, k + 1, Len(s))
  PROVE  t \in Seq(Nat) /\ Len(t) = Len(s) - 1 /\ OneLess(s, t, Len(s), k)
<1> DEFINE a == SubSeq(s, 1, k - 1)
           b == SubSeq(s, k + 1, Len(s))
<1>0. Len(s) \in Nat /\ \A i \in 1 .. Len(s) : s[i] \in Nat
  OBVIOUS
<1>1. a \in Seq(Nat) /\ Len(a) = k - 1 /\ \A i \in 1 .. k - 1 : a[i] = s[i]
  <2>1. \A i \in 1 .. k - 1 : s[i] \in Nat
    BY <1>0
  <2>2. /\ a \in Seq(Nat) /\ Len(a) = IF 1 <= k - 1 THEN k - 1 - 1 + 1 ELSE 0
        /\ \A i \in 1 .. k - 1 - 1 + 1 : a[i] = s[1 + i - 1]
    BY <2>1, SubSeqProperties
  <2> HIDE DEF a
  <2> QED BY <2>2
<1>2. b \in Seq(Nat) /\ Len(b) = Len(s) - k /\ \A i \in 1 .. Len(s) - k : b[i] = s[k + i]
  <2>1. \A i \in k + 1 .. Len(s) : s[i] \in Nat
    BY <1>0
  <2>2. /\ b \in Seq(Nat) /\ Len(b) = IF k + 1 <= Len(s) THEN Len(s) - (k + 1) + 1 ELSE 0
        /\ \A i \in 1 .. Len(s) - (k + 1) + 1 : b[i] = s[(k + 1) + i - 1]
    BY <1>0, <2>1, SubSeqProperties
  <2> HIDE DEF b
  <2> QED BY <1>0, <2>2
<1>3. t = a \o b
  OBVIOUS
<1> HIDE DEF a, b
<1> DEFINE n == Len(s)
<1>4. /\ t \in Seq(Nat) /\ Len(t) = k - 1 + (n - k)
      /\ \A i \in 1 .. k - 1 + (n - k) : t[i] = IF i <= k - 1 THEN a[i] ELSE b[i - (k - 1)]
  <2>1. /\ a \o b \in Seq(Nat) /\ Len(a \o b) = Len(a) + Len(b)
        /\ \A i \in 1 .. Len(a) + Len(b) :
             (a \o b)[i] = IF i <= Len(a) THEN a[i] ELSE b[i - Len(a)]
    BY <1>1, <1>2, ConcatProperties
  <2> QED BY <1>1, <1>2, <1>3, <2>1
<1>5. n \in Nat /\ k \in 1 .. n /\ \A i \in 1 .. n - k : b[i] = s[k + i]
  BY <1>0, <1>2
<1> HIDE DEF n
<1>6. ASSUME NEW i \in k .. n - 1 PROVE t[i] = s[i + 1]
  <2>1. /\ i - (k - 1) \in 1 .. n - k /\ k + (i - (k - 1)) = i + 1
        /\ i \in 1 .. k - 1 + (n - k) /\ ~ i <= k - 1
    BY <1>5
  <2> QED BY <1>4, <1>5, <2>1
<1>7. /\ k - 1 + (n - k) = n - 1
      /\ \A i \in 1 .. k - 1 : i \in 1 .. k - 1 + (n - k) /\ i <= k - 1
  BY <1>5
<1>8. /\ t \in Seq(Nat) /\ Len(t) = n - 1
      /\ \A i \in 1 .. k - 1 : t[i] = s[i]
      /\ \A i \in k .. n - 1 : t[i] = s[i + 1]
  BY <1>1, <1>4, <1>6, <1>7
<1> QED BY <1>5, <1>8 DEF n, OneLess

\* One more value at its place, or one less, leaves the values ascending.
LEMMA InsertedAscends ==
  ASSUME NEW s, NEW n, Ascends(s, n), NEW x \in Nat, x \notin Among(s, n),
         NEW k, Below(s, n, k, x), NEW t, OneMore(s, t, n, k, x)
  PROVE  Ascends(t, n + 1) /\ Among(t, n + 1) = Among(s, n) \cup {x}
<1>1. /\ n \in Nat /\ \A i \in 1 .. n : s[i] \in Nat
      /\ \A i, j \in 1 .. n : i < j => s[i] < s[j]
      /\ k \in 0 .. n /\ \A i \in 1 .. k : s[i] < x
      /\ \A i \in k + 1 .. n : s[i] >= x
      /\ t[k + 1] = x /\ \A i \in 1 .. k : t[i] = s[i]
      /\ \A i \in k + 2 .. n + 1 : t[i] = s[i - 1]
  BY DEF Ascends, Below, OneMore
<1>2. \A i \in k + 1 .. n : s[i] > x
  BY <1>1 DEF Among
<1>3. ASSUME NEW i \in 1 .. n + 1, NEW j \in 1 .. n + 1, i < j PROVE t[i] < t[j]
  <2>1. CASE j <= k
    BY <1>1, <1>3, <2>1
  <2>2. CASE i > k + 1
    <3>1. /\ t[i] = s[i - 1] /\ t[j] = s[j - 1]
          /\ i - 1 \in 1 .. n /\ j - 1 \in 1 .. n /\ i - 1 < j - 1
      BY <1>1, <1>3, <2>2
    <3> QED BY <1>1, <3>1
  <2>3. CASE i <= k /\ j > k
    <3>1. t[i] = s[i] /\ s[i] < x /\ s[i] \in Nat
      BY <1>1, <2>3
    <3>2. t[j] = x \/ (t[j] = s[j - 1] /\ j - 1 \in k + 1 .. n)
      BY <1>1, <2>3
    <3> QED BY <1>1, <1>2, <3>1, <3>2
  <2>4. CASE i = k + 1
    <3>1. t[i] = x /\ t[j] = s[j - 1] /\ j - 1 \in k + 1 .. n
      BY <1>1, <1>3, <2>4
    <3> QED BY <1>1, <1>2, <3>1
  <2> QED BY <1>1, <2>1, <2>2, <2>3, <2>4
<1>4. Ascends(t, n + 1)
  <2>1. ASSUME NEW i \in 1 .. n + 1 PROVE t[i] \in Nat
    <3>1. i \in 1 .. k \/ i = k + 1 \/ (i \in k + 2 .. n + 1 /\ i - 1 \in 1 .. n)
      BY <1>1
    <3> QED BY <1>1, <3>1
  <2> QED BY <1>1, <1>3, <2>1 DEF Ascends
<1>5. ASSUME NEW y \in Among(t, n + 1) PROVE y \in Among(s, n) \cup {x}
  <2>1. PICK i \in 1 .. n + 1 : y = t[i]
    BY <1>1 DEF Among
  <2>2. y = x \/ \E j \in 1 .. n : y = s[j]
    <3>1. CASE i <= k
      BY <1>1, <2>1, <3>1
    <3>2. CASE i = k + 1
      BY <1>1, <2>1, <3>2
    <3>3. CASE i > k + 1
      <4>1. t[i] = s[i - 1] /\ i - 1 \in 1 .. n
        BY <1>1, <3>3
      <4> QED BY <1>1, <2>1, <4>1
    <3> QED BY <1>1, <3>1, <3>2, <3>3
  <2> QED BY <1>1, <2>2 DEF Among
<1>6. ASSUME NEW y \in Among(s, n) \cup {x} PROVE y \in Among(t, n + 1)
  <2>1. CASE y = x
    BY <1>1, <2>1 DEF Among
  <2>2. ASSUME NEW j \in 1 .. n, y = s[j] PROVE y \in Among(t, n + 1)
    <3>1. CASE j <= k
      BY <1>1, <2>2, <3>1 DEF Among
    <3>2. CASE j > k
      <4>1. j + 1 \in k + 2 .. n + 1 /\ j + 1 - 1 = j /\ j + 1 \in 1 .. n + 1
        BY <1>1, <3>2
      <4>2. t[j + 1] = s[j]
        BY <1>1, <4>1
      <4> QED BY <1>1, <2>2, <4>1, <4>2 DEF Among
    <3> QED BY <1>1, <3>1, <3>2
  <2> QED BY <1>1, <2>1, <2>2 DEF Among
<1> QED BY <1>1, <1>4, <1>5, <1>6

LEMMA RemovedAscends ==
  ASSUME NEW s, NEW n, Ascends(s, n), NEW k, NEW t, OneLess(s, t, n, k)
  PROVE  Ascends(t, n - 1) /\ Among(t, n - 1) = Among(s, n) \ {s[k]}
<1>1. /\ n \in Nat /\ \A i \in 1 .. n : s[i] \in Nat
      /\ \A i, j \in 1 .. n : i < j => s[i] < s[j]
      /\ k \in 1 .. n /\ \A i \in 1 .. k - 1 : t[i] = s[i]
      /\ \A i \in k .. n - 1 : t[i] = s[i + 1]
  BY DEF Ascends, OneLess
<1>2. ASSUME NEW i \in 1 .. n - 1
      PROVE  \/ i < k /\ t[i] = s[i] /\ i \in 1 .. n
             \/ i >= k /\ t[i] = s[i + 1] /\ i + 1 \in 1 .. n
  BY <1>1
<1>3. ASSUME NEW i \in 1 .. n - 1, NEW j \in 1 .. n - 1, i < j PROVE t[i] < t[j]
  <2>1. CASE i < k /\ t[i] = s[i] /\ i \in 1 .. n
    BY <1>1, <1>2, <1>3, <2>1
  <2>2. CASE i >= k /\ t[i] = s[i + 1] /\ i + 1 \in 1 .. n
    BY <1>1, <1>2, <1>3, <2>2
  <2> QED BY <1>1, <1>2, <2>1, <2>2
<1>4. Ascends(t, n - 1)
  <2>1. n - 1 \in Nat /\ \A i \in 1 .. n - 1 : t[i] \in Nat
    BY <1>1, <1>2
  <2> QED BY <1>3, <2>1 DEF Ascends
<1>5. \A i, j \in 1 .. n : s[i] = s[j] => i = j
  BY <1>1
<1>6. ASSUME NEW y \in Among(t, n - 1) PROVE y \in Among(s, n) \ {s[k]}
  <2>1. PICK i \in 1 .. n - 1 : y = t[i]
    BY <1>1 DEF Among
  <2>2. \E j \in 1 .. n : y = s[j] /\ j # k
    BY <1>1, <1>2, <2>1
  <2> QED BY <1>1, <1>5, <2>2 DEF Among
<1>7. ASSUME NEW y \in Among(s, n), y # s[k] PROVE y \in Among(t, n - 1)
  <2>1. PICK j \in 1 .. n : y = s[j]
    BY <1>1 DEF Among
  <2>2. CASE j < k
    BY <1>1, <2>1, <2>2 DEF Among
  <2>3. CASE j > k
    <3>1. j - 1 \in k .. n - 1 /\ j - 1 + 1 = j /\ j - 1 \in 1 .. n - 1
      BY <1>1, <2>3
    <3>2. t[j - 1] = s[j]
      BY <1>1, <3>1
    <3> QED BY <1>1, <2>1, <3>1, <3>2 DEF Among
  <2> QED BY <1>1, <1>7, <2>1, <2>2, <2>3
<1> QED BY <1>1, <1>4, <1>6, <1>7

\* Where pages of one size begin.
LEMMA Steps ==
  ASSUME NEW i \in Nat, NEW step \in Nat \ {0}
  PROVE  /\ i * step \in Nat /\ (i + 1) * step = i * step + step /\ i <= i * step
<1>1. i * step \in Nat /\ (i + 1) * step = i * step + step
  OBVIOUS
<1>2. i * step = i * (step - 1) + i /\ i * (step - 1) \in Nat
  <2>1. \A a, b \in Nat : a * b \in Nat /\ a * (b + 1) = a * b + a
    OBVIOUS
  <2>2. step - 1 \in Nat /\ step - 1 + 1 = step
    OBVIOUS
  <2> QED BY <2>1, <2>2
<1> QED BY <1>1, <1>2

\* How many values the first i pages have, the i-th page, and all of the first
\* i.
Upto(i, step, n) == IF i * step <= n THEN i * step ELSE n
PageAt(s, i, step) == SubSeq(s, (i - 1) * step + 1, Upto(i, step, Len(s)))
Firsts(s, i, step) == SubSeq(s, 1, Upto(i, step, Len(s)))

\* Each page goes on where the pages before it ended, and the last one is at
\* the end.
LEMMA NextPage ==
  ASSUME NEW S, NEW s \in Seq(S), NEW step \in Nat \ {0}, NEW i \in Nat \ {0}
  PROVE  /\ i = 1 => Firsts(s, i, step) = PageAt(s, i, step)
         /\ i # 1 => Firsts(s, i, step) = Firsts(s, i - 1, step) \o PageAt(s, i, step)
         /\ i >= Len(s) => Firsts(s, i, step) = s
<1> DEFINE n == Len(s)
           a == (i - 1) * step
           b == i * step
<1>1. n \in Nat /\ i \in Nat \ {0}
  OBVIOUS
<1>2. a \in Nat /\ b \in Nat /\ b = a + step /\ i <= b
  <2>1. i - 1 \in Nat /\ i - 1 + 1 = i /\ i \in Nat
    BY <1>1
  <2>2. a \in Nat /\ (i - 1 + 1) * step = a + step /\ b \in Nat /\ i <= b
    BY <2>1, Steps
  <2> QED BY <2>1, <2>2
<1>3. /\ Upto(i, step, n) = (IF b <= n THEN b ELSE n)
      /\ Upto(i - 1, step, n) = (IF a <= n THEN a ELSE n)
      /\ i = 1 => a = 0
  BY <1>1, Steps DEF Upto
<1>4. /\ Firsts(s, i, step) = SubSeq(s, 1, Upto(i, step, n))
      /\ Firsts(s, i - 1, step) = SubSeq(s, 1, Upto(i - 1, step, n))
      /\ PageAt(s, i, step) = SubSeq(s, a + 1, Upto(i, step, n))
  BY DEF Firsts, PageAt
<1>5. SubSeq(s, 1, n) = s
  BY SubSeqFull
<1> DEFINE e == IF b <= n THEN b ELSE n
<1>6. ASSUME i # 1, a <= n PROVE Firsts(s, i, step) = Firsts(s, i - 1, step) \o PageAt(s, i, step)
  <2>1. a \in 0 .. n /\ e \in a .. n
    BY <1>1, <1>2, <1>6
  <2>2. 1 \in 1 .. n + 1 /\ a \in 1 - 1 .. n
    BY <1>1, <2>1
  <2> HIDE DEF e, a
  <2>3. SubSeq(s, 1, a) \o SubSeq(s, a + 1, e) = SubSeq(s, 1, e)
    BY <2>1, <2>2, ConcatAdjacentSubSeq
  <2>4. Upto(i, step, n) = e /\ Upto(i - 1, step, n) = a
    BY <1>3, <1>6 DEF e
  <2> QED BY <1>4, <2>3, <2>4
<1>7. ASSUME i # 1, a > n PROVE Firsts(s, i, step) = Firsts(s, i - 1, step) \o PageAt(s, i, step)
  <2> HIDE DEF a, b, e
  <2>1. Upto(i, step, n) = n /\ Upto(i - 1, step, n) = n /\ n < a + 1
    BY <1>1, <1>2, <1>3, <1>7
  <2>2. SubSeq(s, a + 1, n) = << >>
    BY <1>1, <1>2, <2>1, SubSeqEmpty
  <2>3. s \o << >> = s
    OBVIOUS
  <2> QED BY <1>4, <1>5, <2>1, <2>2, <2>3
<1>8. ASSUME i = 1 PROVE Firsts(s, i, step) = PageAt(s, i, step)
  <2> HIDE DEF a
  <2>1. a + 1 = 1
    BY <1>3, <1>8
  <2> QED BY <1>4, <2>1
<1>9. ASSUME i >= n PROVE Firsts(s, i, step) = s
  <2> HIDE DEF a, b, e
  <2>1. Upto(i, step, n) = n
    BY <1>1, <1>2, <1>3, <1>9
  <2> QED BY <1>4, <1>5, <2>1
<1> QED BY <1>1, <1>2, <1>6, <1>7, <1>8, <1>9

\* The recursion of FlattenSeq.
Joined(g, p, i) == IF i = 1 THEN p[i] ELSE g[i - 1] \o p[i]
Flattens(g, p) == g = [i \in 1 .. Len(p) |-> Joined(g, p, i)]

\* As many pages as there are values, or more, read them all.
LEMMA PagesFlatten ==
  ASSUME NEW S, NEW s \in Seq(S), NEW step \in Nat \ {0}, NEW n \in Nat, n >= Len(s),
         NEW pages, pages = [i \in 1 .. n |-> PageAt(s, i, step)]
  PROVE  Registry!FlattenSeq(pages) = s
<1>1. Len(pages) = n /\ \A i \in 1 .. n : i \in Nat \ {0} /\ pages[i] = PageAt(s, i, step)
  OBVIOUS
<1>2. CASE n = 0
  <2>1. pages = << >> /\ s = << >>
    BY <1>2, <1>1
  <2> QED BY <1>1, <1>2, <2>1 DEF Registry!FlattenSeq
<1>3. CASE n # 0
  <2>1. \E g : Flattens(g, pages)
    <3> DEFINE h == [i \in 1 .. n |-> Firsts(s, i, step)]
    <3>1. ASSUME NEW i \in 1 .. n
          PROVE  h[i] = IF i = 1 THEN pages[i] ELSE h[i - 1] \o pages[i]
      <4>1. CASE i = 1
        <5>1. Firsts(s, i, step) = PageAt(s, i, step)
          BY <4>1, NextPage
        <5> QED BY <1>1, <4>1, <5>1
      <4>2. CASE i # 1
        <5>1. Firsts(s, i, step) = Firsts(s, i - 1, step) \o PageAt(s, i, step)
          BY <4>2, NextPage
        <5>2. i - 1 \in 1 .. n
          BY <1>1, <4>2
        <5> QED BY <1>1, <4>2, <5>1, <5>2
      <4> QED BY <4>1, <4>2
    <3>2. h = [i \in 1 .. Len(pages) |-> h[i]]
      BY <1>1
    <3> HIDE DEF h
    <3>3. \A i \in 1 .. Len(pages) : h[i] = Joined(h, pages, i)
      BY <1>1, <3>1 DEF Joined
    <3>4. Flattens(h, pages)
      BY <3>2, <3>3 DEF Flattens
    <3> QED BY <3>4
  <2>2. ASSUME NEW g, Flattens(g, pages) PROVE g[n] = s
    <3> DEFINE Bad == {i \in 1 .. n : g[i] # Firsts(s, i, step)}
    <3>1. \A i \in 1 .. n : g[i] = IF i = 1 THEN pages[i] ELSE g[i - 1] \o pages[i]
      BY <1>1, <2>2 DEF Flattens, Joined
    <3>2. ASSUME Bad # {} PROVE FALSE
      <4>1. Bad \subseteq Nat
        BY <1>1
      <4>2. PICK m \in Bad : \A y \in Bad : m <= y
        BY <3>2, <4>1, LeastNat
      <4>3. m \in 1 .. n /\ g[m] # Firsts(s, m, step) /\ pages[m] = PageAt(s, m, step)
        BY <1>1, <4>2
      <4>4. CASE m = 1
        <5>1. Firsts(s, m, step) = PageAt(s, m, step)
          BY <4>3, <4>4, NextPage
        <5> QED BY <3>1, <4>3, <4>4, <5>1
      <4>5. CASE m # 1
        <5>1. Firsts(s, m, step) = Firsts(s, m - 1, step) \o PageAt(s, m, step)
          BY <4>3, <4>5, NextPage
        <5>2. m - 1 \in 1 .. n /\ m - 1 < m
          BY <1>1, <4>3, <4>5
        <5>3. g[m - 1] = Firsts(s, m - 1, step)
          <6>1. m - 1 \notin Bad
            BY <1>1, <4>2, <4>3, <5>2
          <6> QED BY <5>2, <6>1
        <5> QED BY <3>1, <4>3, <4>5, <5>1, <5>3
      <4> QED BY <4>4, <4>5
    <3>3. n \in 1 .. n
      BY <1>1, <1>3
    <3>4. g[n] = Firsts(s, n, step)
      BY <3>2, <3>3
    <3>5. Firsts(s, n, step) = s
      BY <3>3, NextPage
    <3> QED BY <3>4, <3>5
  <2>3. Registry!FlattenSeq(pages) = (CHOOSE g : Flattens(g, pages))[n]
    BY <1>1, <1>3 DEF Registry!FlattenSeq, Flattens, Joined
  <2>4. Flattens((CHOOSE g : Flattens(g, pages)), pages)
    BY <2>1
  <2> QED BY <2>2, <2>3, <2>4
<1> QED BY <1>2, <1>3

\* The names are those of the registrations, ascending.
NamesOf(s, reg) ==
  /\ s \in Seq(Nat) /\ Ascends(s, Len(s))
  /\ Among(s, Len(s)) = {x \in Symbols : reg[x] # None}

\* The registry's inductive invariant.
RegistryInv ==
  /\ DOMAIN registration = Symbols /\ registration = [s \in Symbols |-> registration[s]]
  /\ NamesOf(names, registration)
  /\ registrationCount = Len(names)

\* What is assumed of the constants.
LEMMA RegistryConstants ==
  Symbols \subseteq Nat /\ None \notin ContractAddresses /\ MAX_PAGE_SIZE \in Nat \ {0}
  BY ContractsAssumption DEF Registry!RegistryAssumption

\* The lesser and the greater of two numbers.
LEMMA RegistryBounds ==
  ASSUME NEW a \in Int, NEW b \in Int
  PROVE  /\ Registry!Min({a, b}) = IF a <= b THEN a ELSE b
         /\ Registry!Max({a, b}) = IF a >= b THEN a ELSE b
<1>1. /\ Registry!Min({a, b}) \in {a, b} /\ \A y \in {a, b} : Registry!Min({a, b}) <= y
      /\ Registry!Max({a, b}) \in {a, b} /\ \A y \in {a, b} : Registry!Max({a, b}) >= y
  <2>1. /\ \E x \in {a, b} : \A y \in {a, b} : x <= y
        /\ \E x \in {a, b} : \A y \in {a, b} : x >= y
    OBVIOUS
  <2> QED BY <2>1 DEF Registry!Min, Registry!Max
<1> QED BY <1>1

\* Nothing is registered.
LEMMA RegistryInitial == Registry!Init => RegistryInv
<1> SUFFICES ASSUME Registry!Init PROVE RegistryInv
  OBVIOUS
<1>1. registration = [s \in Symbols |-> None] /\ registrationCount = 0 /\ names = << >>
  BY DEF Registry!Init
<1>2. names \in Seq(Nat) /\ Len(names) = 0 /\ 1 .. Len(names) = {}
  BY <1>1
<1>3. Ascends(names, Len(names)) /\ Among(names, Len(names)) = {}
  BY <1>2 DEF Ascends, Among
<1>4. {x \in Symbols : registration[x] # None} = {}
  BY <1>1
<1> QED BY <1>1, <1>2, <1>3, <1>4 DEF RegistryInv, NamesOf

\* A registration puts its name at its place among the names,
LEMMA Registering ==
  ASSUME RegistryInv, NEW c, NEW s \in Symbols, NEW a \in ContractAddresses,
         Registry!register_contract(c, s, a)
  PROVE  RegistryInv'
<1> DEFINE n == Len(names)
<1>1. /\ registration[s] = None /\ registration' = [registration EXCEPT ![s] = a]
      /\ names' = Registry!InsertAt(names, Registry!Position(s), s)
      /\ registrationCount' = registrationCount + 1
  BY DEF Registry!register_contract
<1>2. /\ names \in Seq(Nat) /\ n \in Nat /\ DOMAIN names = 1 .. n
      /\ \A i \in 1 .. n : names[i] \in Nat
      /\ Ascends(names, n) /\ s \in Nat /\ a # None
      /\ Among(names, n) = {x \in Symbols : registration[x] # None}
  BY RegistryConstants DEF RegistryInv, NamesOf
<1>3. s \notin Among(names, n)
  BY <1>1, <1>2
<1>4. PICK k \in 0 .. n : Below(names, n, k, s) /\ Lower(names, n, s) = 1 .. k
  BY <1>2, BelowIs
<1>5. Registry!Position(s) = 1 + k
  <2>1. Cardinality(1 .. k) = k
    BY <1>2, FS_Interval
  <2>2. Registry!Position(s) = 1 + Cardinality(Lower(names, n, s))
    BY <1>2 DEF Lower, Registry!Position, Registry!Cardinality, Cardinality
  <2> QED BY <1>4, <2>1, <2>2
<1>6. names' = PutIn(names, k, s)
  <2>1. (1 + k) - 1 = k /\ 1 + k = k + 1
    BY <1>2
  <2> QED BY <1>1, <1>5, <2>1 DEF Registry!InsertAt, PutIn
<1>7. names' \in Seq(Nat) /\ Len(names') = n + 1 /\ OneMore(names, names', n, k, s)
  BY <1>2, <1>6, OneIn
<1>8. Ascends(names', n + 1) /\ Among(names', n + 1) = Among(names, n) \cup {s}
  BY <1>2, <1>3, <1>4, <1>7, InsertedAscends
<1>9. {x \in Symbols : registration'[x] # None}
        = {x \in Symbols : registration[x] # None} \cup {s}
  BY <1>1, <1>2 DEF RegistryInv
<1>10. registration' = [x \in Symbols |-> registration'[x]] /\ DOMAIN registration' = Symbols
  BY <1>1 DEF RegistryInv
<1>11. NamesOf(names', registration')
  BY <1>2, <1>7, <1>8, <1>9 DEF NamesOf
<1> QED BY <1>1, <1>7, <1>10, <1>11 DEF RegistryInv

\* and a deregistration takes it out.
LEMMA Deregistering ==
  ASSUME RegistryInv, NEW c, NEW s \in Symbols, Registry!deregister_contract(c, s)
  PROVE  RegistryInv'
<1> DEFINE n == Len(names)
<1>1. /\ registration[s] # None /\ registration' = [registration EXCEPT ![s] = None]
      /\ names' = Registry!RemoveFirst(names, s)
      /\ registrationCount' = Registry!Max({registrationCount - 1, 0})
  BY DEF Registry!deregister_contract
<1>2. /\ names \in Seq(Nat) /\ n \in Nat /\ DOMAIN names = 1 .. n
      /\ \A i \in 1 .. n : names[i] \in Nat
      /\ Ascends(names, n) /\ registrationCount = n
      /\ Among(names, n) = {x \in Symbols : registration[x] # None}
  BY RegistryConstants DEF RegistryInv, NamesOf
<1>3. PICK k \in 1 .. n : names[k] = s
  BY <1>1, <1>2 DEF Among
<1>4. \A i \in 1 .. n : names[i] = s <=> i = k
  BY <1>2, <1>3 DEF Ascends
<1>5. names' = SubSeq(names, 1, k - 1) \o SubSeq(names, k + 1, n)
  <2>1. {i \in 1 .. n : names[i] = s} = {k}
    BY <1>4
  <2>2. Registry!Min({k}) = k
    BY DEF Registry!Min
  <2>3. Registry!SelectInSeq(names, LAMBDA v : v = s) = k
    BY <2>1, <2>2 DEF Registry!SelectInSeq
  <2>4. names' = Registry!RemoveAt(names, k)
    BY <1>1, <1>3, <2>3 DEF Registry!RemoveFirst
  <2> QED BY <2>4 DEF Registry!RemoveAt
<1>6. names' \in Seq(Nat) /\ Len(names') = n - 1 /\ OneLess(names, names', n, k)
  BY <1>2, <1>5, OneOut
<1>7. Ascends(names', n - 1) /\ Among(names', n - 1) = Among(names, n) \ {s}
  BY <1>2, <1>3, <1>6, RemovedAscends
<1>8. {x \in Symbols : registration'[x] # None} = {x \in Symbols : registration[x] # None} \ {s}
  BY <1>1 DEF RegistryInv
<1>9. registration' = [x \in Symbols |-> registration'[x]] /\ DOMAIN registration' = Symbols
  BY <1>1 DEF RegistryInv
<1>10. NamesOf(names', registration')
  BY <1>2, <1>6, <1>7, <1>8 DEF NamesOf
<1>11. registrationCount' = Len(names')
  <2>1. n \in 1 .. n
    BY <1>2, <1>3
  <2>2. n - 1 \in Int /\ 0 \in Int /\ n - 1 >= 0
    BY <1>2, <2>1
  <2> HIDE DEF n
  <2> QED BY <1>1, <1>2, <1>6, <2>2, RegistryBounds
<1> QED BY <1>9, <1>10, <1>11 DEF RegistryInv

\* Every step of the registry keeps the invariant.
LEMMA RegistryStep == RegistryInv /\ [Registry!Next]_registryVars => RegistryInv'
<1> SUFFICES ASSUME RegistryInv, [Registry!Next]_registryVars PROVE RegistryInv'
  OBVIOUS
<1>1. ASSUME registration' = registration, names' = names,
             registrationCount' = registrationCount
      PROVE  RegistryInv'
  BY <1>1 DEF RegistryInv, NamesOf
<1>2. ASSUME NEW c, NEW s \in Symbols, NEW a \in ContractAddresses,
             Registry!update_contract(c, s, a)
      PROVE  RegistryInv'
  <2>1. /\ registration[s] # None /\ registration' = [registration EXCEPT ![s] = a]
        /\ names' = names /\ registrationCount' = registrationCount /\ a # None
    BY <1>2, RegistryConstants DEF Registry!update_contract
  <2>2. {x \in Symbols : registration'[x] # None} = {x \in Symbols : registration[x] # None}
    BY <2>1 DEF RegistryInv
  <2>3. registration' = [x \in Symbols |-> registration'[x]] /\ DOMAIN registration' = Symbols
    BY <2>1 DEF RegistryInv
  <2>4. NamesOf(names', registration')
    BY <2>1, <2>2 DEF RegistryInv, NamesOf
  <2> QED BY <2>1, <2>3, <2>4 DEF RegistryInv
<1>3. CASE UNCHANGED registryVars
  BY <1>1, <1>3 DEF registryVars
<1>4. CASE Registry!Next
  <2>1. PICK c \in {Admin, Stranger} :
          \/ \E b \in BOOLEAN : Registry!SetPaused(c, b)
          \/ \E s \in Symbols, a \in ContractAddresses :
               Registry!register_contract(c, s, a) \/ Registry!update_contract(c, s, a)
          \/ \E s \in Symbols : Registry!deregister_contract(c, s)
          \/ Registry!submit_event(c)
    BY <1>4 DEF Registry!Next
  <2>2. CASE \E b \in BOOLEAN : Registry!SetPaused(c, b)
    BY <1>1, <2>2 DEF Registry!SetPaused
  <2>3. CASE \E s \in Symbols, a \in ContractAddresses :
               Registry!register_contract(c, s, a) \/ Registry!update_contract(c, s, a)
    BY <1>2, <2>3, Registering
  <2>4. CASE \E s \in Symbols : Registry!deregister_contract(c, s)
    BY <2>4, Deregistering
  <2>5. CASE Registry!submit_event(c)
    BY <1>1, <2>5 DEF Registry!submit_event
  <2> QED BY <2>1, <2>2, <2>3, <2>4, <2>5
<1> QED BY <1>3, <1>4

\* Of each behaviour of the contracts, the registry's part.
LEMMA RegistryPart == Spec => Registry!Init /\ [][Registry!Next]_registryVars
<1>1. Init => Registry!Init
  BY DEF Init
<1>2. [Next]_vars => [Registry!Next]_registryVars
  BY DEF Next, vars, registryVars
<1> QED BY <1>1, <1>2, PTL DEF Spec

\* Ascending names are paged as the property says.
LEMMA NamesPaged == RegistryInv => Registry!NamesAreRegistrations
<1> SUFFICES ASSUME RegistryInv PROVE Registry!NamesAreRegistrations
  OBVIOUS
<1> DEFINE n == Len(names)
<1>1. /\ names \in Seq(Nat) /\ n \in Nat /\ \A i \in 1 .. n : names[i] \in Nat
      /\ DOMAIN names = 1 .. n /\ Ascends(names, n) /\ registrationCount = n
      /\ Among(names, n) = Registry!Registered
  BY DEF RegistryInv, NamesOf, Registry!Registered
<1>2. registrationCount = Registry!Cardinality(Registry!Registered)
  <2> HIDE DEF n
  <2>1. Cardinality(Among(names, n)) = n
    BY <1>1, AscendingSize
  <2>2. Registry!Cardinality(Registry!Registered) = Cardinality(Registry!Registered)
    BY DEF Registry!Cardinality, Cardinality
  <2> QED BY <1>1, <2>1, <2>2
<1>3. ASSUME NEW limit \in 1 .. MAX_PAGE_SIZE + 1
      PROVE  LET step == Registry!Min({limit, MAX_PAGE_SIZE})
                 all == Registry!FlattenSeq([i \in 1 .. registrationCount |->
                                               Registry!list_names((i - 1) * step, limit)])
             IN  /\ Registry!ToSet(all) = Registry!Registered
                 /\ \A i, j \in DOMAIN all : i < j => all[i] < all[j]
  <2> DEFINE step == Registry!Min({limit, MAX_PAGE_SIZE})
             pages == [i \in 1 .. registrationCount |->
                         Registry!list_names((i - 1) * step, limit)]
  <2>1. step \in Nat \ {0}
    <3>1. limit \in Int /\ MAX_PAGE_SIZE \in Nat \ {0} /\ limit >= 1
      BY RegistryConstants
    <3>2. step = IF limit <= MAX_PAGE_SIZE THEN limit ELSE MAX_PAGE_SIZE
      BY <3>1, RegistryBounds
    <3> QED BY <3>1, <3>2
  <2>2. ASSUME NEW i \in 1 .. n
        PROVE  Registry!list_names((i - 1) * step, limit) = PageAt(names, i, step)
    <3>1. i - 1 \in Nat /\ i - 1 + 1 = i /\ i \in Nat
      BY <1>1
    <3> DEFINE a == (i - 1) * step
               b == i * step
    <3>2. a \in Nat /\ (i - 1 + 1) * step = a + step /\ b \in Nat
      BY <2>1, <3>1, Steps
    <3>3. b = a + step
      BY <3>1, <3>2
    <3>4. Registry!list_names(a, limit) = SubSeq(names, a + 1, Registry!Min({n, a + step}))
      BY DEF Registry!list_names
    <3>5. PageAt(names, i, step) = SubSeq(names, a + 1, IF b <= n THEN b ELSE n)
      BY DEF PageAt, Upto
    <3> HIDE DEF step, a, b, n
    <3>6. Registry!Min({n, a + step}) = IF n <= a + step THEN n ELSE a + step
      BY <1>1, <2>1, <3>2, RegistryBounds
    <3>7. Registry!Min({n, a + step}) = IF b <= n THEN b ELSE n
      BY <1>1, <2>1, <3>2, <3>3, <3>6
    <3>8. Registry!list_names(a, limit) = PageAt(names, i, step)
      BY <3>4, <3>5, <3>7
    <3> QED BY <3>8 DEF a
  <2>3. pages = [i \in 1 .. n |-> PageAt(names, i, step)]
    <3> HIDE DEF step
    <3> QED BY <1>1, <2>2
  <2> HIDE DEF step, pages
  <2>4. Registry!FlattenSeq(pages) = names
    BY <1>1, <2>1, <2>3, PagesFlatten
  <2>5. Registry!ToSet(names) = Registry!Registered
    BY <1>1 DEF Registry!ToSet, Among
  <2>6. \A i, j \in DOMAIN names : i < j => names[i] < names[j]
    BY <1>1 DEF Ascends
  <2> QED BY <2>4, <2>5, <2>6 DEF step, pages
<1> QED BY <1>2, <1>3 DEF Registry!NamesAreRegistrations

\* The pages of list_names are the registered names, each once and in ascending
\* order, and registration_count counts them (contracts/contract-registry).
THEOREM NamesArePaged == Spec => []Registry!NamesAreRegistrations
BY RegistryPart, RegistryInitial, RegistryStep, NamesPaged, PTL

\* Whoever pages through the oracle's results, the matches or the registered
\* names misses nothing (contracts/oracle, escrow, contract-registry).
THEOREM PagingsMissNothing == Spec => []ReadersMissNothing
<1>1. /\ Oracle!ReconcilerMissesNothing /\ Pages!PagesMissNothing
      /\ Registry!NamesAreRegistrations
      => ReadersMissNothing
  BY DEF ReadersMissNothing
<1> QED BY <1>1, ReconciliationsMissNothing, MatchPagesMissNothing, NamesArePaged, PTL

-----------------------------------------------------------------------------
(* The leaderboard's tallies.                                              *)

\* The columns of the players' records.
WinsOf(st) == [p \in Players |-> st[p].wins]
LossesOf(st) == [p \in Players |-> st[p].losses]
DrawsOf(st) == [p \in Players |-> st[p].draws]
PlayedOf(st) == [p \in Players |-> st[p].wins + st[p].losses + st[p].draws]

\* A total of the contract's properties is the sum of a column.
LEMMA TotalsAreSums ==
  ASSUME IsFiniteSet(Players)
  PROVE  /\ Board!Total(LAMBDA s : s.wins) = Sum(WinsOf(stats), Players)
         /\ Board!Total(LAMBDA s : s.losses) = Sum(LossesOf(stats), Players)
         /\ Board!Total(LAMBDA s : s.draws) = Sum(DrawsOf(stats), Players)
         /\ Board!Total(Board!matches_played) = Sum(PlayedOf(stats), Players)
<1>0. \A s \in SUBSET Players : s # {} => Pick(s) \in Players
  BY DEF Pick
<1>1. Board!Total(LAMBDA s : s.wins) = Sum(WinsOf(stats), Players)
  <2> DEFINE P(g) == g = [s \in SUBSET Players |->
                 IF s = {} THEN 0 ELSE stats[Pick(s)].wins + g[s \ {Pick(s)}]]
             f == WinsOf(stats)
  <2>1. Board!Total(LAMBDA s : s.wins) = (CHOOSE g : P(g))[Players]
    BY DEF Board!Total, Board!MapThenSumSet, Board!MapThenFoldSet, Pick
  <2>2. \A s \in SUBSET Players : s # {} => f[Pick(s)] = stats[Pick(s)].wins
    BY <1>0 DEF WinsOf
  <2> HIDE DEF f
  <2>3. ASSUME NEW g PROVE P(g) <=> Sums(g, f, Players)
    BY <2>2 DEF Sums
  <2>4. \E g : P(g)
    BY <2>3, SumsExist
  <2> HIDE DEF P
  <2>5. P(CHOOSE g : P(g))
    BY <2>4
  <2>6. Sums((CHOOSE g : P(g)), f, Players)
    BY <2>3, <2>5
  <2> QED BY <2>1, <2>6, SumOfSums DEF f
<1>2. Board!Total(LAMBDA s : s.losses) = Sum(LossesOf(stats), Players)
  <2> DEFINE P(g) == g = [s \in SUBSET Players |->
                 IF s = {} THEN 0 ELSE stats[Pick(s)].losses + g[s \ {Pick(s)}]]
             f == LossesOf(stats)
  <2>1. Board!Total(LAMBDA s : s.losses) = (CHOOSE g : P(g))[Players]
    BY DEF Board!Total, Board!MapThenSumSet, Board!MapThenFoldSet, Pick
  <2>2. \A s \in SUBSET Players : s # {} => f[Pick(s)] = stats[Pick(s)].losses
    BY <1>0 DEF LossesOf
  <2> HIDE DEF f
  <2>3. ASSUME NEW g PROVE P(g) <=> Sums(g, f, Players)
    BY <2>2 DEF Sums
  <2>4. \E g : P(g)
    BY <2>3, SumsExist
  <2> HIDE DEF P
  <2>5. P(CHOOSE g : P(g))
    BY <2>4
  <2>6. Sums((CHOOSE g : P(g)), f, Players)
    BY <2>3, <2>5
  <2> QED BY <2>1, <2>6, SumOfSums DEF f
<1>3. Board!Total(LAMBDA s : s.draws) = Sum(DrawsOf(stats), Players)
  <2> DEFINE P(g) == g = [s \in SUBSET Players |->
                 IF s = {} THEN 0 ELSE stats[Pick(s)].draws + g[s \ {Pick(s)}]]
             f == DrawsOf(stats)
  <2>1. Board!Total(LAMBDA s : s.draws) = (CHOOSE g : P(g))[Players]
    BY DEF Board!Total, Board!MapThenSumSet, Board!MapThenFoldSet, Pick
  <2>2. \A s \in SUBSET Players : s # {} => f[Pick(s)] = stats[Pick(s)].draws
    BY <1>0 DEF DrawsOf
  <2> HIDE DEF f
  <2>3. ASSUME NEW g PROVE P(g) <=> Sums(g, f, Players)
    BY <2>2 DEF Sums
  <2>4. \E g : P(g)
    BY <2>3, SumsExist
  <2> HIDE DEF P
  <2>5. P(CHOOSE g : P(g))
    BY <2>4
  <2>6. Sums((CHOOSE g : P(g)), f, Players)
    BY <2>3, <2>5
  <2> QED BY <2>1, <2>6, SumOfSums DEF f
<1>4. Board!Total(Board!matches_played) = Sum(PlayedOf(stats), Players)
  <2> DEFINE P(g) == g = [s \in SUBSET Players |->
                 IF s = {} THEN 0
                 ELSE (stats[Pick(s)].wins + stats[Pick(s)].losses + stats[Pick(s)].draws)
                        + g[s \ {Pick(s)}]]
             f == PlayedOf(stats)
  <2>1. Board!Total(Board!matches_played) = (CHOOSE g : P(g))[Players]
    BY DEF Board!Total, Board!MapThenSumSet, Board!MapThenFoldSet, Pick, Board!matches_played
  <2>2. \A s \in SUBSET Players : s # {} =>
          f[Pick(s)] = stats[Pick(s)].wins + stats[Pick(s)].losses + stats[Pick(s)].draws
    BY <1>0 DEF PlayedOf
  <2> HIDE DEF f
  <2>3. ASSUME NEW g PROVE P(g) <=> Sums(g, f, Players)
    BY <2>2 DEF Sums
  <2>4. \E g : P(g)
    BY <2>3, SumsExist
  <2> HIDE DEF P
  <2>5. P(CHOOSE g : P(g))
    BY <2>4
  <2>6. Sums((CHOOSE g : P(g)), f, Players)
    BY <2>3, <2>5
  <2> QED BY <2>1, <2>6, SumOfSums DEF f
<1> QED BY <1>1, <1>2, <1>3, <1>4

\* A player's record.
PlayerRecords == [wins : Nat, losses : Nat, draws : Nat, earnings : Nat]

\* The tallies of n results: each win is a loss of somebody's, draws come in
\* pairs, and everybody's matches add up to two for each result.
Tallies(st, n) ==
  /\ st \in [Players -> PlayerRecords]
  /\ Sum(WinsOf(st), Players) = Sum(LossesOf(st), Players)
  /\ Sum(DrawsOf(st), Players) % 2 = 0
  /\ Sum(PlayedOf(st), Players) = 2 * n

\* A result changes the records of two players, each by what d says of wins,
\* losses and draws.
Moved(st, new, a, b, da, db) ==
  /\ new \in [Players -> PlayerRecords]
  /\ \A y \in Players \ {a, b} : new[y] = st[y]
  /\ new[a].wins = st[a].wins + da[1] /\ new[b].wins = st[b].wins + db[1]
  /\ new[a].losses = st[a].losses + da[2] /\ new[b].losses = st[b].losses + db[2]
  /\ new[a].draws = st[a].draws + da[3] /\ new[b].draws = st[b].draws + db[3]

\* The columns of records of numbers.
LEMMA ColumnTypes ==
  ASSUME NEW st \in [Players -> PlayerRecords]
  PROVE  \A y \in Players : /\ WinsOf(st)[y] = st[y].wins /\ st[y].wins \in Int
                            /\ LossesOf(st)[y] = st[y].losses /\ st[y].losses \in Int
                            /\ DrawsOf(st)[y] = st[y].draws /\ st[y].draws \in Int
                            /\ PlayedOf(st)[y] = st[y].wins + st[y].losses + st[y].draws
                            /\ PlayedOf(st)[y] \in Int
  BY DEF PlayerRecords, WinsOf, LossesOf, DrawsOf, PlayedOf

\* What a result does to the sums of the columns.
LEMMA ColumnsMove ==
  ASSUME IsFiniteSet(Players), NEW st \in [Players -> PlayerRecords], NEW new,
         NEW a \in Players, NEW b \in Players, a # b,
         NEW da \in Int \X Int \X Int, NEW db \in Int \X Int \X Int,
         Moved(st, new, a, b, da, db)
  PROVE  /\ Sum(WinsOf(st), Players) \in Int /\ Sum(LossesOf(st), Players) \in Int
         /\ Sum(DrawsOf(st), Players) \in Int /\ Sum(PlayedOf(st), Players) \in Int
         /\ Sum(WinsOf(new), Players) = Sum(WinsOf(st), Players) + da[1] + db[1]
         /\ Sum(LossesOf(new), Players) = Sum(LossesOf(st), Players) + da[2] + db[2]
         /\ Sum(DrawsOf(new), Players) = Sum(DrawsOf(st), Players) + da[3] + db[3]
         /\ Sum(PlayedOf(new), Players)
              = Sum(PlayedOf(st), Players) + da[1] + da[2] + da[3] + db[1] + db[2] + db[3]
<1>1. /\ da[1] \in Int /\ da[2] \in Int /\ da[3] \in Int
      /\ db[1] \in Int /\ db[2] \in Int /\ db[3] \in Int
  OBVIOUS
<1>2. /\ new \in [Players -> PlayerRecords] /\ \A y \in Players \ {a, b} : new[y] = st[y]
      /\ new[a].wins = st[a].wins + da[1] /\ new[b].wins = st[b].wins + db[1]
      /\ new[a].losses = st[a].losses + da[2] /\ new[b].losses = st[b].losses + db[2]
      /\ new[a].draws = st[a].draws + da[3] /\ new[b].draws = st[b].draws + db[3]
  BY DEF Moved
<1>3. /\ \A y \in Players : /\ WinsOf(st)[y] = st[y].wins /\ st[y].wins \in Int
                            /\ LossesOf(st)[y] = st[y].losses /\ st[y].losses \in Int
                            /\ DrawsOf(st)[y] = st[y].draws /\ st[y].draws \in Int
                            /\ PlayedOf(st)[y] = st[y].wins + st[y].losses + st[y].draws
                            /\ PlayedOf(st)[y] \in Int
      /\ \A y \in Players : /\ WinsOf(new)[y] = new[y].wins /\ new[y].wins \in Int
                            /\ LossesOf(new)[y] = new[y].losses /\ new[y].losses \in Int
                            /\ DrawsOf(new)[y] = new[y].draws /\ new[y].draws \in Int
                            /\ PlayedOf(new)[y] = new[y].wins + new[y].losses + new[y].draws
                            /\ PlayedOf(new)[y] \in Int
  BY <1>2, ColumnTypes
<1>4. /\ Sum(WinsOf(st), Players) \in Int
      /\ Sum(WinsOf(new), Players) = Sum(WinsOf(st), Players) + da[1] + db[1]
  <2> DEFINE f == WinsOf(st)  g == WinsOf(new)
  <2>1. /\ \A y \in Players : f[y] \in Int /\ g[y] \in Int
        /\ \A y \in Players \ {a, b} : g[y] = f[y]
        /\ g[a] - f[a] = da[1] /\ g[b] - f[b] = db[1]
    BY <1>1, <1>2, <1>3
  <2> HIDE DEF f, g
  <2>2. /\ Sum(f, Players) \in Int
        /\ Sum(g, Players) = Sum(f, Players) + (g[a] - f[a]) + (g[b] - f[b])
    BY <2>1, SumChangeTwo
  <2> QED BY <2>1, <2>2 DEF f, g
<1>5. /\ Sum(LossesOf(st), Players) \in Int
      /\ Sum(LossesOf(new), Players) = Sum(LossesOf(st), Players) + da[2] + db[2]
  <2> DEFINE f == LossesOf(st)  g == LossesOf(new)
  <2>1. /\ \A y \in Players : f[y] \in Int /\ g[y] \in Int
        /\ \A y \in Players \ {a, b} : g[y] = f[y]
        /\ g[a] - f[a] = da[2] /\ g[b] - f[b] = db[2]
    BY <1>1, <1>2, <1>3
  <2> HIDE DEF f, g
  <2>2. /\ Sum(f, Players) \in Int
        /\ Sum(g, Players) = Sum(f, Players) + (g[a] - f[a]) + (g[b] - f[b])
    BY <2>1, SumChangeTwo
  <2> QED BY <2>1, <2>2 DEF f, g
<1>6. /\ Sum(DrawsOf(st), Players) \in Int
      /\ Sum(DrawsOf(new), Players) = Sum(DrawsOf(st), Players) + da[3] + db[3]
  <2> DEFINE f == DrawsOf(st)  g == DrawsOf(new)
  <2>1. /\ \A y \in Players : f[y] \in Int /\ g[y] \in Int
        /\ \A y \in Players \ {a, b} : g[y] = f[y]
        /\ g[a] - f[a] = da[3] /\ g[b] - f[b] = db[3]
    BY <1>1, <1>2, <1>3
  <2> HIDE DEF f, g
  <2>2. /\ Sum(f, Players) \in Int
        /\ Sum(g, Players) = Sum(f, Players) + (g[a] - f[a]) + (g[b] - f[b])
    BY <2>1, SumChangeTwo
  <2> QED BY <2>1, <2>2 DEF f, g
<1>7. /\ Sum(PlayedOf(st), Players) \in Int
      /\ Sum(PlayedOf(new), Players)
           = Sum(PlayedOf(st), Players) + da[1] + da[2] + da[3] + db[1] + db[2] + db[3]
  <2> DEFINE f == PlayedOf(st)  g == PlayedOf(new)
  <2>1. \A y \in Players \ {a, b} : g[y] = f[y]
    BY <1>2, <1>3
  <2>2. /\ \A y \in Players : f[y] \in Int /\ g[y] \in Int
        /\ g[a] - f[a] = da[1] + da[2] + da[3] /\ g[b] - f[b] = db[1] + db[2] + db[3]
    BY <1>1, <1>2, <1>3
  <2> HIDE DEF f, g
  <2>3. /\ Sum(f, Players) \in Int
        /\ Sum(g, Players) = Sum(f, Players) + (g[a] - f[a]) + (g[b] - f[b])
    BY <2>1, <2>2, SumChangeTwo
  <2>4. Sum(g, Players) = Sum(f, Players) + da[1] + da[2] + da[3] + db[1] + db[2] + db[3]
    BY <1>1, <2>2, <2>3
  <2> QED BY <2>3, <2>4 DEF f, g
<1> QED BY <1>4, <1>5, <1>6, <1>7

\* One more result, decided or drawn, keeps the tallies.
LEMMA WonTallied ==
  ASSUME IsFiniteSet(Players), NEW st, NEW n \in Nat, Tallies(st, n), NEW new,
         NEW a \in Players, NEW b \in Players, a # b,
         Moved(st, new, a, b, <<1, 0, 0>>, <<0, 1, 0>>)
  PROVE  Tallies(new, n + 1)
<1> DEFINE da == <<1, 0, 0>>  db == <<0, 1, 0>>
<1>1. st \in [Players -> PlayerRecords] /\ new \in [Players -> PlayerRecords]
  BY DEF Tallies, Moved
<1>2. da \in Int \X Int \X Int /\ db \in Int \X Int \X Int
  OBVIOUS
<1>3. /\ da[1] = 1 /\ da[2] = 0 /\ da[3] = 0 /\ db[1] = 0 /\ db[2] = 1 /\ db[3] = 0
      /\ Moved(st, new, a, b, da, db)
  OBVIOUS
<1> HIDE DEF da, db
<1>4. /\ Sum(WinsOf(st), Players) \in Int /\ Sum(LossesOf(st), Players) \in Int
      /\ Sum(DrawsOf(st), Players) \in Int /\ Sum(PlayedOf(st), Players) \in Int
      /\ Sum(WinsOf(new), Players) = Sum(WinsOf(st), Players) + da[1] + db[1]
      /\ Sum(LossesOf(new), Players) = Sum(LossesOf(st), Players) + da[2] + db[2]
      /\ Sum(DrawsOf(new), Players) = Sum(DrawsOf(st), Players) + da[3] + db[3]
      /\ Sum(PlayedOf(new), Players)
           = Sum(PlayedOf(st), Players) + da[1] + da[2] + da[3] + db[1] + db[2] + db[3]
  BY <1>1, <1>2, <1>3, ColumnsMove
<1> QED BY <1>1, <1>3, <1>4 DEF Tallies

LEMMA DrawTallied ==
  ASSUME IsFiniteSet(Players), NEW st, NEW n \in Nat, Tallies(st, n), NEW new,
         NEW a \in Players, NEW b \in Players, a # b,
         Moved(st, new, a, b, <<0, 0, 1>>, <<0, 0, 1>>)
  PROVE  Tallies(new, n + 1)
<1> DEFINE da == <<0, 0, 1>>  db == <<0, 0, 1>>
<1>1. st \in [Players -> PlayerRecords] /\ new \in [Players -> PlayerRecords]
  BY DEF Tallies, Moved
<1>2. da \in Int \X Int \X Int /\ db \in Int \X Int \X Int
  OBVIOUS
<1>3. /\ da[1] = 0 /\ da[2] = 0 /\ da[3] = 1 /\ db[1] = 0 /\ db[2] = 0 /\ db[3] = 1
      /\ Moved(st, new, a, b, da, db)
  OBVIOUS
<1> HIDE DEF da, db
<1>4. /\ Sum(WinsOf(st), Players) \in Int /\ Sum(LossesOf(st), Players) \in Int
      /\ Sum(DrawsOf(st), Players) \in Int /\ Sum(PlayedOf(st), Players) \in Int
      /\ Sum(WinsOf(new), Players) = Sum(WinsOf(st), Players) + da[1] + db[1]
      /\ Sum(LossesOf(new), Players) = Sum(LossesOf(st), Players) + da[2] + db[2]
      /\ Sum(DrawsOf(new), Players) = Sum(DrawsOf(st), Players) + da[3] + db[3]
      /\ Sum(PlayedOf(new), Players)
           = Sum(PlayedOf(st), Players) + da[1] + da[2] + da[3] + db[1] + db[2] + db[3]
  BY <1>1, <1>2, <1>3, ColumnsMove
<1> QED BY <1>1, <1>3, <1>4 DEF Tallies

LEMMA Zeros ==
  ASSUME IsFiniteSet(Players), NEW f, \A y \in Players : f[y] = 0
  PROVE  Sum(f, Players) = 0
<1>1. \A y \in Players : f[y] \in Nat
  OBVIOUS
<1> QED BY <1>1, SumOfZeros

\* Before the first result all tallies are zero.
LEMMA NothingTallied ==
  ASSUME IsFiniteSet(Players)
  PROVE  Tallies([p \in Players |-> Board!empty], 0)
<1> DEFINE st == [p \in Players |-> Board!empty]
<1>1. /\ st \in [Players -> PlayerRecords]
      /\ \A y \in Players : st[y].wins = 0 /\ st[y].losses = 0 /\ st[y].draws = 0
  BY DEF Board!empty, PlayerRecords
<1> HIDE DEF st
<1>2. \A y \in Players : /\ WinsOf(st)[y] = 0 /\ LossesOf(st)[y] = 0 /\ DrawsOf(st)[y] = 0
                         /\ PlayedOf(st)[y] = 0
  BY <1>1 DEF WinsOf, LossesOf, DrawsOf, PlayedOf
<1>3. /\ Sum(WinsOf(st), Players) = 0 /\ Sum(LossesOf(st), Players) = 0
      /\ Sum(DrawsOf(st), Players) = 0 /\ Sum(PlayedOf(st), Players) = 0
  BY <1>2, Zeros
<1>4. Tallies(st, 0)
  BY <1>1, <1>3 DEF Tallies
<1> QED BY <1>4 DEF st

\* The leaderboard's inductive invariant.
BoardInv ==
  /\ recorded \in Nat
  /\ Tallies(stats, recorded)
  /\ boardCount = IF recorded <= MaxU32 THEN recorded ELSE MaxU32

\* What is assumed of the constants.
LEMMA BoardConstants ==
  IsFiniteSet(Players) /\ MaxU32 \in Nat /\ Payouts \subseteq Nat
  /\ Players \subseteq Nat /\ MAX_PAGE_SIZE \in Nat \ {0}
<1>1. IsFiniteSet(Players)
  BY ContractsAssumption DEF Board!LeaderboardAssumption, Board!IsFiniteSet, IsFiniteSet
<1> QED BY <1>1, ContractsAssumption DEF Board!LeaderboardAssumption

\* The lesser of two numbers.
LEMMA BoardLesser ==
  ASSUME NEW a \in Int, NEW b \in Int
  PROVE  Board!Min({a, b}) = IF a <= b THEN a ELSE b
<1>1. Board!Min({a, b}) \in {a, b} /\ \A y \in {a, b} : Board!Min({a, b}) <= y
  <2>1. \E x \in {a, b} : \A y \in {a, b} : x <= y
    OBVIOUS
  <2> QED BY <2>1 DEF Board!Min
<1> QED BY <1>1

\* No result is recorded.
LEMMA BoardInitial == Board!Init => BoardInv
<1> SUFFICES ASSUME Board!Init PROVE BoardInv
  OBVIOUS
<1>1. recorded = 0 /\ stats = [p \in Players |-> Board!empty] /\ boardCount = 0
  BY DEF Board!Init
<1>2. Tallies(stats, 0)
  BY <1>1, BoardConstants, NothingTallied
<1> QED BY <1>1, <1>2, BoardConstants DEF BoardInv

\* The records after a won player's and a lost player's result.
WonBy(st, a, b, payout) ==
  [st EXCEPT ![a] = Board!Won(@, payout), ![b] = Board!Lost(@)]

\* What record_result does to the records.
LEMMA WonMoves ==
  ASSUME NEW st \in [Players -> PlayerRecords], NEW a \in Players, NEW b \in Players, a # b,
         NEW payout \in Nat
  PROVE  Moved(st, WonBy(st, a, b, payout), a, b, <<1, 0, 0>>, <<0, 1, 0>>)
<1> DEFINE new == WonBy(st, a, b, payout)
           x == Board!Won(st[a], payout)
           y == Board!Lost(st[b])
<1>1. st[a] \in PlayerRecords /\ st[b] \in PlayerRecords
  OBVIOUS
<1>2. /\ x \in PlayerRecords /\ x.wins = st[a].wins + 1
      /\ x.losses = st[a].losses + 0 /\ x.draws = st[a].draws + 0
  <2>1. PICK w \in Nat, l \in Nat, d \in Nat, e \in Nat :
          st[a] = [wins |-> w, losses |-> l, draws |-> d, earnings |-> e]
    BY <1>1 DEF PlayerRecords
  <2> DEFINE r == [wins |-> w, losses |-> l, draws |-> d, earnings |-> e]
  <2>2. x = [r EXCEPT !.wins = r.wins + 1, !.earnings = r.earnings + payout]
    BY <2>1 DEF Board!Won
  <2>3. x = [wins |-> w + 1, losses |-> l, draws |-> d, earnings |-> e + payout]
    BY <2>2
  <2> HIDE DEF x
  <2> QED BY <2>1, <2>3 DEF PlayerRecords
<1>3. /\ y \in PlayerRecords /\ y.wins = st[b].wins + 0
      /\ y.losses = st[b].losses + 1 /\ y.draws = st[b].draws + 0
  BY <1>1 DEF Board!Lost, PlayerRecords
<1> HIDE DEF x, y
<1>4. new = [st EXCEPT ![a] = x, ![b] = y]
  BY DEF x, y, WonBy
<1> HIDE DEF new
<1>5. /\ new \in [Players -> PlayerRecords] /\ new[a] = x /\ new[b] = y
      /\ \A z \in Players \ {a, b} : new[z] = st[z]
  BY <1>2, <1>3, <1>4
<1>6. Moved(st, new, a, b, <<1, 0, 0>>, <<0, 1, 0>>)
  BY <1>2, <1>3, <1>5 DEF Moved
<1> QED BY <1>6 DEF new

DrawnBy(st, a, b) == [st EXCEPT ![a] = Board!Drew(@), ![b] = Board!Drew(@)]
LEMMA DrawMoves ==
  ASSUME NEW st \in [Players -> PlayerRecords], NEW a \in Players, NEW b \in Players, a # b
  PROVE  Moved(st, DrawnBy(st, a, b), a, b, <<0, 0, 1>>, <<0, 0, 1>>)
<1> DEFINE new == DrawnBy(st, a, b)
           x == Board!Drew(st[a])
           y == Board!Drew(st[b])
<1>1. st[a] \in PlayerRecords /\ st[b] \in PlayerRecords
  OBVIOUS
<1>2. /\ x \in PlayerRecords /\ x.wins = st[a].wins + 0
      /\ x.losses = st[a].losses + 0 /\ x.draws = st[a].draws + 1
  BY <1>1 DEF Board!Drew, PlayerRecords
<1>3. /\ y \in PlayerRecords /\ y.wins = st[b].wins + 0
      /\ y.losses = st[b].losses + 0 /\ y.draws = st[b].draws + 1
  BY <1>1 DEF Board!Drew, PlayerRecords
<1> HIDE DEF x, y
<1>4. new = [st EXCEPT ![a] = x, ![b] = y]
  BY DEF x, y, DrawnBy
<1> HIDE DEF new
<1>5. /\ new \in [Players -> PlayerRecords] /\ new[a] = x /\ new[b] = y
      /\ \A z \in Players \ {a, b} : new[z] = st[z]
  BY <1>2, <1>3, <1>4
<1>6. Moved(st, new, a, b, <<0, 0, 1>>, <<0, 0, 1>>)
  BY <1>2, <1>3, <1>5 DEF Moved
<1> QED BY <1>6 DEF new

\* Every step of the leaderboard keeps the invariant.
LEMMA BoardStep == BoardInv /\ [Board!Next]_boardVars => BoardInv'
<1> SUFFICES ASSUME BoardInv, [Board!Next]_boardVars PROVE BoardInv'
  OBVIOUS
<1>0. /\ recorded \in Nat /\ Tallies(stats, recorded) /\ stats \in [Players -> PlayerRecords]
      /\ boardCount = IF recorded <= MaxU32 THEN recorded ELSE MaxU32
  BY DEF BoardInv, Tallies
<1>1. ASSUME stats' = stats, recorded' = recorded, boardCount' = boardCount
      PROVE  BoardInv'
  BY <1>0, <1>1 DEF BoardInv, Tallies, WinsOf, LossesOf, DrawsOf, PlayedOf
<1>2. ASSUME NEW s, NEW p1 \in Players, NEW p2 \in Players, NEW o \in Board!Outcomes,
             NEW payout \in Payouts, Board!record_result(s, p1, p2, o, payout)
      PROVE  BoardInv'
  <2>1. /\ p1 # p2 /\ stats' = Board!After(p1, p2, o, payout)
        /\ boardCount' = Board!Saturated(boardCount) /\ recorded' = recorded + 1
    BY <1>2 DEF Board!record_result
  <2>2. payout \in Nat /\ MaxU32 \in Nat /\ IsFiniteSet(Players)
    BY BoardConstants
  <2>3. CASE o = "Player1Won"
    <3>1. stats' = WonBy(stats, p1, p2, payout)
      BY <2>1, <2>3 DEF Board!After, WonBy
    <3>2. Moved(stats, stats', p1, p2, <<1, 0, 0>>, <<0, 1, 0>>)
      BY <1>0, <2>1, <2>2, <3>1, WonMoves
    <3>3. Tallies(stats', recorded + 1)
      BY <1>0, <2>1, <2>2, <3>2, WonTallied
    <3> QED BY <1>0, <2>1, <2>2, <3>3, BoardLesser DEF BoardInv, Board!Saturated
  <2>4. CASE o = "Player2Won"
    <3>1. stats' = WonBy(stats, p2, p1, payout)
      BY <2>1, <2>4 DEF Board!After, WonBy
    <3>2. Moved(stats, stats', p2, p1, <<1, 0, 0>>, <<0, 1, 0>>)
      BY <1>0, <2>1, <2>2, <3>1, WonMoves
    <3>3. Tallies(stats', recorded + 1)
      BY <1>0, <2>1, <2>2, <3>2, WonTallied
    <3> QED BY <1>0, <2>1, <2>2, <3>3, BoardLesser DEF BoardInv, Board!Saturated
  <2>5. CASE o = "Draw"
    <3>1. stats' = DrawnBy(stats, p1, p2)
      BY <2>1, <2>5 DEF Board!After, DrawnBy
    <3>2. Moved(stats, stats', p1, p2, <<0, 0, 1>>, <<0, 0, 1>>)
      BY <1>0, <2>1, <2>2, <3>1, DrawMoves
    <3>3. Tallies(stats', recorded + 1)
      BY <1>0, <2>1, <2>2, <3>2, DrawTallied
    <3> QED BY <1>0, <2>1, <2>2, <3>3, BoardLesser DEF BoardInv, Board!Saturated
  <2> QED BY <2>3, <2>4, <2>5 DEF Board!Outcomes
<1>3. CASE UNCHANGED boardVars
  BY <1>1, <1>3 DEF boardVars
<1>4. CASE Board!Next
  BY <1>1, <1>2, <1>4 DEF Board!Next, Board!add_source, Board!remove_source, Board!set_paused
<1> QED BY <1>3, <1>4

\* Of each behaviour of the contracts, the leaderboard's part.
LEMMA BoardPart == Spec => Board!Init /\ [][Board!Next]_boardVars
<1>1. Init => Board!Init
  BY DEF Init
<1>2. [Next]_vars => [Board!Next]_boardVars
  BY DEF Next, vars, boardVars
<1> QED BY <1>1, <1>2, PTL DEF Spec

\* Tallies that add up are the property's balance.
LEMMA BoardBalances == BoardInv => Board!BooksBalance
<1> SUFFICES ASSUME BoardInv PROVE Board!BooksBalance
  OBVIOUS
<1>1. boardCount = Board!Min({recorded, MaxU32})
  BY BoardConstants, BoardLesser DEF BoardInv
<1>2. /\ Board!Total(LAMBDA s : s.wins) = Board!Total(LAMBDA s : s.losses)
      /\ Board!Total(LAMBDA s : s.draws) % 2 = 0
      /\ Board!Total(Board!matches_played) = 2 * recorded
  BY BoardConstants, TotalsAreSums DEF BoardInv, Tallies
<1> QED BY <1>1, <1>2 DEF Board!BooksBalance

\* Over all players wins are losses, draws are paired, matches are two for each
\* recorded result, and ResultCount counts those until it saturates
\* (contracts/leaderboard).
THEOREM ResultsBalance == Spec => []Board!BooksBalance
BY BoardPart, BoardInitial, BoardStep, BoardBalances, PTL

-----------------------------------------------------------------------------
(* The leaderboard's ranking.                                              *)

\* A row of the board, and whether it comes before another.
Rows == [player : Players, stats : PlayerRecords]
Before(a, b) == Board!ranks_after(b, a)

\* The order of rows is total over different players.
LEMMA RowsAreOrdered ==
  ASSUME NEW a \in Rows, NEW b \in Rows
  PROVE  /\ a.player # b.player => Before(a, b) \/ Before(b, a)
         /\ Before(a, b) => ~ Before(b, a)
         /\ \A c \in Rows : Before(a, b) /\ Before(b, c) => Before(a, c)
<1>1. \A r \in Rows : r.player \in Int /\ r.stats.wins \in Int /\ r.stats.earnings \in Int
  <2>1. \A q \in PlayerRecords : q.wins \in Int /\ q.earnings \in Int
    BY DEF PlayerRecords
  <2>2. Players \subseteq Int
    BY BoardConstants
  <2> HIDE DEF PlayerRecords
  <2> QED BY <2>1, <2>2 DEF Rows
<1>2. \A r, s \in Rows :
        Before(r, s) <=> \/ s.stats.wins < r.stats.wins
                         \/ s.stats.wins = r.stats.wins /\ s.stats.earnings < r.stats.earnings
                         \/ /\ s.stats.wins = r.stats.wins
                            /\ s.stats.earnings = r.stats.earnings
                            /\ s.player > r.player
  BY DEF Before, Board!ranks_after
<1>3. a.player # b.player => Before(a, b) \/ Before(b, a)
  BY <1>1, <1>2
<1>4. Before(a, b) => ~ Before(b, a)
  BY <1>1, <1>2
<1>5. ASSUME NEW c \in Rows, Before(a, b), Before(b, c) PROVE Before(a, c)
  BY <1>1, <1>2, <1>5
<1> QED BY <1>3, <1>4, <1>5

\* What a sequence of rows holds, and that it is sorted.
RowsOf(board) == {board[i] : i \in 1 .. Len(board)}
Ranked(board) ==
  /\ board \in Seq(Rows)
  /\ \A i, j \in 1 .. Len(board) : i < j => Before(board[i], board[j])

\* Where a row goes: the greatest place of a row that it does not precede.
Passed(board, row) == {j \in DOMAIN board : ~ Board!ranks_after(board[j], row)}

LEMMA GreatestPlace ==
  ASSUME NEW board \in Seq(Rows), NEW row, NEW k, k = Board!Max(Passed(board, row) \cup {0})
  PROVE  /\ k \in 0 .. Len(board) /\ (k = 0 \/ k \in Passed(board, row))
         /\ \A j \in Passed(board, row) : j <= k
<1> DEFINE S == Passed(board, row) \cup {0}
<1>1. Len(board) \in Nat /\ DOMAIN board = 1 .. Len(board)
  BY LenProperties
<1>2. S \subseteq 0 .. Len(board) /\ 0 \in S
  BY <1>1 DEF Passed
<1>3. IsFiniteSet(S)
  <2>1. IsFiniteSet(0 .. Len(board))
    BY <1>1, FS_Interval
  <2> HIDE DEF S
  <2> QED BY <1>2, <2>1, FS_Subset
<1>4. \E x \in S : \A y \in S : y <= x
  <2>1. S \subseteq Int /\ S # {}
    BY <1>1, <1>2
  <2> HIDE DEF S
  <2> QED BY <1>3, <2>1, LeastAndGreatest
<1>5. k \in S /\ \A y \in S : y <= k
  <2>1. k = Board!Max(S)
    OBVIOUS
  <2> HIDE DEF S
  <2>2. \E x \in S : \A y \in S : x >= y
    BY <1>1, <1>2, <1>4
  <2>3. k \in S /\ \A y \in S : k >= y
    BY <2>1, <2>2 DEF Board!Max
  <2> QED BY <1>1, <1>2, <2>3
<1> QED BY <1>2, <1>5

LEMMA BoardInsertAt ==
  ASSUME NEW s, NEW k \in Nat, NEW x
  PROVE  Board!InsertAt(s, k + 1, x) = PutIn(s, k, x)
<1>1. PICK i : i = k + 1
  OBVIOUS
<1>2. Board!InsertAt(s, i, x) = SubSeq(s, 1, i - 1) \o <<x>> \o SubSeq(s, i, Len(s))
  BY DEF Board!InsertAt
<1>3. i - 1 = k
  BY <1>1
<1> QED BY <1>1, <1>2, <1>3 DEF PutIn

\* A row is put at its place, whatever the order of the others.
LEMMA InsertedIs ==
  ASSUME NEW board \in Seq(Rows), NEW row \in Rows, NEW r, r = Board!Inserted(board, row)
  PROVE  \E k \in 0 .. Len(board) :
           /\ k = Board!Max(Passed(board, row) \cup {0})
           /\ r \in Seq(Rows) /\ Len(r) = Len(board) + 1
           /\ OneMore(board, r, Len(board), k, row)
<1>1. PICK k : k = Board!Max(Passed(board, row) \cup {0})
  OBVIOUS
<1>2. k \in 0 .. Len(board) /\ k \in Int
  <2>1. k \in 0 .. Len(board)
    BY <1>1, GreatestPlace
  <2> QED BY <2>1
<1>3. r = Board!InsertAt(board, k + 1, row)
  BY <1>1 DEF Board!Inserted, Passed
<1>4. r = PutIn(board, k, row)
  <2>1. k \in Nat
    BY <1>2
  <2> QED BY <1>3, <2>1, BoardInsertAt
<1>5. r \in Seq(Rows) /\ Len(r) = Len(board) + 1 /\ OneMore(board, r, Len(board), k, row)
  BY <1>2, <1>4, OneIn
<1> QED BY <1>1, <1>2, <1>5

\* A sorted board stays sorted.
LEMMA InsertedRanks ==
  ASSUME NEW board, Ranked(board), NEW row \in Rows,
         \A i \in 1 .. Len(board) : board[i].player # row.player,
         NEW r, r = Board!Inserted(board, row)
  PROVE  Ranked(r) /\ RowsOf(r) = RowsOf(board) \cup {row} /\ Len(r) = Len(board) + 1
<1>1. PICK k \in 0 .. Len(board) :
           /\ k = Board!Max(Passed(board, row) \cup {0})
           /\ r \in Seq(Rows) /\ Len(r) = Len(board) + 1
           /\ OneMore(board, r, Len(board), k, row)
  BY InsertedIs DEF Ranked
<1>2. PICK n : n = Len(board)
  OBVIOUS
<1>3. /\ n \in Nat /\ DOMAIN board = 1 .. n /\ k \in 0 .. n
      /\ \A i \in 1 .. n : board[i] \in Rows /\ board[i].player # row.player
      /\ \A i, j \in 1 .. n : i < j => Before(board[i], board[j])
      /\ k = 0 \/ k \in Passed(board, row)
      /\ \A j \in Passed(board, row) : j <= k
  BY <1>1, <1>2, GreatestPlace, LenProperties, ElementOfSeq DEF Ranked
<1>4. ASSUME NEW i \in 1 .. n, i <= k PROVE Before(board[i], row)
  <2>1. k \in 1 .. n /\ ~ Before(row, board[k])
    BY <1>3, <1>4 DEF Passed, Before
  <2>2. Before(board[k], row)
    BY <1>3, <2>1, RowsAreOrdered
  <2>3. i = k \/ Before(board[i], board[k])
    BY <1>3, <1>4, <2>1
  <2> QED BY <1>3, <2>1, <2>2, <2>3, RowsAreOrdered
<1>5. ASSUME NEW i \in 1 .. n, i > k PROVE Before(row, board[i])
  <2>1. i \notin Passed(board, row)
    BY <1>3, <1>5
  <2> QED BY <1>3, <2>1 DEF Passed, Before
<1>6. /\ r[k + 1] = row /\ \A i \in 1 .. k : r[i] = board[i]
      /\ \A i \in k + 2 .. n + 1 : r[i] = board[i - 1]
      /\ r \in Seq(Rows) /\ Len(r) = n + 1
  BY <1>1, <1>2 DEF OneMore
<1>7. ASSUME NEW i \in 1 .. n + 1, NEW j \in 1 .. n + 1, i < j PROVE Before(r[i], r[j])
  <2>1. CASE j <= k
    BY <1>3, <1>6, <1>7, <2>1
  <2>2. CASE i > k + 1
    <3>1. /\ r[i] = board[i - 1] /\ r[j] = board[j - 1]
          /\ i - 1 \in 1 .. n /\ j - 1 \in 1 .. n /\ i - 1 < j - 1
      BY <1>3, <1>6, <1>7, <2>2
    <3> QED BY <1>3, <3>1
  <2>3. CASE i <= k /\ j > k
    <3>1. r[i] = board[i] /\ Before(board[i], row) /\ i \in 1 .. n
      BY <1>3, <1>4, <1>6, <2>3
    <3>2. j = k + 1 \/ (j - 1 \in 1 .. n /\ j - 1 > k /\ r[j] = board[j - 1])
      BY <1>3, <1>6, <2>3
    <3>3. CASE j = k + 1
      BY <1>6, <3>1, <3>3
    <3>4. CASE j - 1 \in 1 .. n /\ j - 1 > k /\ r[j] = board[j - 1]
      <4>1. Before(row, board[j - 1])
        BY <1>5, <3>4
      <4> QED BY <1>3, <3>1, <3>4, <4>1, RowsAreOrdered
    <3> QED BY <3>2, <3>3, <3>4
  <2>4. CASE i = k + 1
    <3>1. r[i] = row /\ r[j] = board[j - 1] /\ j - 1 \in 1 .. n /\ j - 1 > k
      BY <1>3, <1>6, <1>7, <2>4
    <3> QED BY <1>5, <3>1
  <2> QED BY <1>3, <2>1, <2>2, <2>3, <2>4
<1>8. ASSUME NEW y \in RowsOf(r) PROVE y \in RowsOf(board) \cup {row}
  <2>1. PICK i \in 1 .. n + 1 : y = r[i]
    BY <1>6 DEF RowsOf
  <2>2. \/ i <= k /\ i \in 1 .. n /\ r[i] = board[i]
        \/ r[i] = row
        \/ i - 1 \in 1 .. n /\ r[i] = board[i - 1]
    BY <1>3, <1>6
  <2> QED BY <1>2, <2>1, <2>2 DEF RowsOf
<1>9. ASSUME NEW y \in RowsOf(board) \cup {row} PROVE y \in RowsOf(r)
  <2>1. CASE y = row
    <3>1. k + 1 \in 1 .. n + 1
      BY <1>3
    <3> QED BY <1>6, <2>1, <3>1 DEF RowsOf
  <2>2. CASE y \in RowsOf(board)
    <3>1. PICK j \in 1 .. n : y = board[j]
      BY <1>2, <2>2 DEF RowsOf
    <3>2. CASE j <= k
      <4>1. j \in 1 .. n + 1 /\ r[j] = y
        BY <1>3, <1>6, <3>1, <3>2
      <4> QED BY <1>6, <4>1 DEF RowsOf
    <3>3. CASE j > k
      <4>1. j + 1 \in k + 2 .. n + 1 /\ j + 1 - 1 = j /\ j + 1 \in 1 .. n + 1
        BY <1>3, <3>3
      <4>2. r[j + 1] = y
        BY <1>6, <3>1, <4>1
      <4> QED BY <1>6, <4>1, <4>2 DEF RowsOf
    <3> QED BY <1>3, <3>2, <3>3
  <2> QED BY <2>1, <2>2
<1>10. Ranked(r)
  BY <1>6, <1>7 DEF Ranked
<1> QED BY <1>1, <1>8, <1>9, <1>10

\* Whoever has played is in the roster, nobody twice.
NoneTwice(r) == \A i, j \in 1 .. Len(r) : r[i] = r[j] => i = j
InRoster(r, p) == \E i \in 1 .. Len(r) : r[i] = p
RosterRight(r, st) ==
  /\ st \in [Players -> PlayerRecords] /\ r \in Seq(Players) /\ NoneTwice(r)
  /\ \A p \in Players : Board!matches_played(st[p]) > 0 => InRoster(r, p)

LEMMA JoinsRoster ==
  ASSUME NEW r \in Seq(Players), NoneTwice(r),
         NEW p \in Players, NEW t, t = Board!add_to_roster(r, p)
  PROVE  /\ t \in Seq(Players) /\ NoneTwice(t)
         /\ InRoster(t, p) /\ \A q : InRoster(r, q) => InRoster(t, q)
<1>1. Len(r) \in Nat /\ DOMAIN r = 1 .. Len(r) /\ \A i \in 1 .. Len(r) : r[i] \in Players
  BY LenProperties, ElementOfSeq
<1>2. Board!ToSet(r) = {r[i] : i \in 1 .. Len(r)}
  BY <1>1 DEF Board!ToSet
<1>3. CASE p \in Board!ToSet(r)
  <2>1. t = r
    BY <1>3 DEF Board!add_to_roster
  <2>2. InRoster(r, p)
    BY <1>2, <1>3 DEF InRoster
  <2> QED BY <2>1, <2>2
<1>4. CASE p \notin Board!ToSet(r)
  <2>1. t = Append(r, p)
    BY <1>4 DEF Board!add_to_roster
  <2>2. PICK n \in Nat : n = Len(r)
    BY <1>1
  <2>3. /\ t \in Seq(Players) /\ Len(t) = n + 1 /\ t[n + 1] = p
        /\ \A i \in 1 .. n : t[i] = r[i] /\ r[i] # p
    BY <1>2, <1>4, <2>1, <2>2
  <2>4. ASSUME NEW i \in 1 .. n + 1, NEW j \in 1 .. n + 1, t[i] = t[j] PROVE i = j
    <3>1. (i \in 1 .. n \/ i = n + 1) /\ (j \in 1 .. n \/ j = n + 1)
      BY <2>2
    <3> QED BY <2>2, <2>3, <2>4, <3>1 DEF NoneTwice
  <2>5. n + 1 \in 1 .. n + 1 /\ \A i \in 1 .. n : i \in 1 .. n + 1
    BY <2>2
  <2> QED BY <2>2, <2>3, <2>4, <2>5 DEF NoneTwice, InRoster
<1> QED BY <1>3, <1>4

\* Only the two players' records change when a result is recorded.
LEMMA OthersKeepRecords ==
  ASSUME NEW p1 \in Players, NEW p2 \in Players, NEW o \in Board!Outcomes,
         NEW payout \in Payouts, stats \in [Players -> PlayerRecords],
         NEW new, new = Board!After(p1, p2, o, payout)
  PROVE  \A p \in Players \ {p1, p2} : new[p] = stats[p]
<1>1. CASE o = "Player1Won"
  <2>1. new = [stats EXCEPT ![p1] = Board!Won(@, payout), ![p2] = Board!Lost(@)]
    BY <1>1 DEF Board!After
  <2> QED BY <2>1
<1>2. CASE o = "Player2Won"
  <2>1. new = [stats EXCEPT ![p2] = Board!Won(@, payout), ![p1] = Board!Lost(@)]
    BY <1>2 DEF Board!After
  <2> QED BY <2>1
<1>3. CASE o = "Draw"
  <2>1. new = [stats EXCEPT ![p1] = Board!Drew(@), ![p2] = Board!Drew(@)]
    BY <1>3 DEF Board!After
  <2> QED BY <2>1
<1> QED BY <1>1, <1>2, <1>3 DEF Board!Outcomes

LEMMA RosterStep ==
  ASSUME RosterRight(roster, stats), stats' \in [Players -> PlayerRecords],
         [Board!Next]_boardVars
  PROVE  RosterRight(roster', stats')
<1>1. CASE roster' = roster /\ stats' = stats
  BY <1>1
<1>2. ASSUME NEW s, NEW p1 \in Players, NEW p2 \in Players, NEW o \in Board!Outcomes,
             NEW payout \in Payouts, Board!record_result(s, p1, p2, o, payout)
      PROVE  RosterRight(roster', stats')
  <2>1. /\ stats' = Board!After(p1, p2, o, payout)
        /\ roster' = Board!add_to_roster(Board!add_to_roster(roster, p1), p2)
    BY <1>2 DEF Board!record_result
  <2>2. \A p \in Players \ {p1, p2} : stats'[p] = stats[p]
    BY <2>1, OthersKeepRecords DEF RosterRight
  <2>3. PICK r : r = Board!add_to_roster(roster, p1)
    OBVIOUS
  <2>4. /\ r \in Seq(Players) /\ NoneTwice(r)
        /\ InRoster(r, p1) /\ \A q : InRoster(roster, q) => InRoster(r, q)
    <3>1. roster \in Seq(Players) /\ NoneTwice(roster)
      BY DEF RosterRight
    <3> QED BY <2>3, <3>1, JoinsRoster
  <2>5. PICK t : t = roster'
    OBVIOUS
  <2>6. /\ t \in Seq(Players) /\ NoneTwice(t)
        /\ InRoster(t, p2) /\ \A q : InRoster(r, q) => InRoster(t, q)
    <3>1. t = Board!add_to_roster(r, p2)
      BY <2>1, <2>3, <2>5
    <3> QED BY <2>4, <3>1, JoinsRoster
  <2>7. ASSUME NEW p \in Players, Board!matches_played(stats'[p]) > 0
        PROVE  InRoster(t, p)
    <3>1. CASE p \in {p1, p2}
      BY <2>4, <2>6, <3>1
    <3>2. CASE p \notin {p1, p2}
      <4>1. Board!matches_played(stats[p]) > 0
        BY <2>2, <2>7, <3>2
      <4>2. InRoster(roster, p)
        BY <4>1 DEF RosterRight
      <4> QED BY <2>4, <2>6, <4>2
    <3> QED BY <3>1, <3>2
  <2> QED BY <2>5, <2>6, <2>7 DEF RosterRight
<1>3. CASE UNCHANGED boardVars
  BY <1>1, <1>3 DEF boardVars
<1>4. CASE Board!Next
  BY <1>1, <1>2, <1>4 DEF Board!Next, Board!add_source, Board!remove_source, Board!set_paused
<1> QED BY <1>3, <1>4

\* Nobody has played when the roster is empty.
LEMMA EmptyRoster == RosterRight(<< >>, [p \in Players |-> Board!empty])
<1>1. Len(<< >>) = 0 /\ << >> \in Seq(Players) /\ 1 .. 0 = {}
  OBVIOUS
<1>2. Board!empty \in PlayerRecords /\ Board!matches_played(Board!empty) = 0
  BY DEF Board!empty, PlayerRecords, Board!matches_played
<1> QED BY <1>1, <1>2 DEF RosterRight, NoneTwice, InRoster

\* The filter of the module.
LEMMA BoardSizes == \A S : Board!Cardinality(S) = Cardinality(S)
BY DEF Board!Cardinality, Cardinality, Board!IsFiniteSet, IsFiniteSet
LEMMA BoardFilters ==
  ASSUME NEW s, NEW kept PROVE Board!Filtered(s, kept) = Filtered(s, kept)
<1>1. \A i : Board!Place(kept, i) = Place(kept, i)
  BY BoardSizes DEF Board!Place, Place
<1> QED BY <1>1, BoardSizes DEF Board!Filtered, Filtered

\* The rows of those who have played, in the roster's order.
RosterRows == [i \in DOMAIN roster |-> [player |-> roster[i], stats |-> stats[roster[i]]]]
HasPlayed == {i \in DOMAIN RosterRows : Board!matches_played(RosterRows[i].stats) > 0}
PlayedRows == Filtered(RosterRows, HasPlayed)
Ranks == {p \in Players : Board!matches_played(stats[p]) > 0}

LEMMA PlayedRowsAre ==
  ASSUME RosterRight(roster, stats)
  PROVE  /\ PlayedRows \in Seq(Rows)
         /\ \A i, j \in 1 .. Len(PlayedRows) :
              PlayedRows[i].player = PlayedRows[j].player => i = j
         /\ \A i \in 1 .. Len(PlayedRows) : PlayedRows[i].stats = stats[PlayedRows[i].player]
         /\ {PlayedRows[i].player : i \in 1 .. Len(PlayedRows)} = Ranks
<1> DEFINE n == Len(roster)
<1>1. /\ n \in Nat /\ DOMAIN roster = 1 .. n /\ \A i \in 1 .. n : roster[i] \in Players
      /\ stats \in [Players -> PlayerRecords]
      /\ \A i, j \in 1 .. n : roster[i] = roster[j] => i = j
  BY LenProperties, ElementOfSeq DEF RosterRight, NoneTwice
<1>2. PICK rows : rows = RosterRows
  OBVIOUS
<1>3. /\ rows = [i \in 1 .. n |-> rows[i]]
      /\ \A i \in 1 .. n : rows[i] \in Rows /\ rows[i].player = roster[i]
                           /\ rows[i].stats = stats[roster[i]]
  BY <1>1, <1>2 DEF RosterRows, Rows
<1>4. rows \in Seq(Rows) /\ DOMAIN rows = 1 .. n
  BY <1>1, <1>3
<1>5. PICK kept : kept = HasPlayed
  OBVIOUS
<1>6. kept = {i \in 1 .. n : Board!matches_played(stats[roster[i]]) > 0}
  BY <1>2, <1>3, <1>4, <1>5 DEF HasPlayed
<1>7. PICK r : r = PlayedRows
  OBVIOUS
<1>8. /\ r \in Seq(Rows) /\ Len(r) \in Nat
      /\ \A i \in 1 .. Len(r) : Place(kept, i) \in kept /\ r[i] = rows[Place(kept, i)]
      /\ \A i, j \in 1 .. Len(r) : Place(kept, i) = Place(kept, j) => i = j
      /\ \A k \in kept : \E i \in 1 .. Len(r) : Place(kept, i) = k /\ r[i] = rows[k]
  <2>1. kept \in SUBSET DOMAIN rows /\ r = Filtered(rows, kept)
    BY <1>2, <1>4, <1>5, <1>6, <1>7 DEF PlayedRows
  <2> QED BY <1>4, <2>1, FilterKeeps
<1>9. \A i \in 1 .. Len(r) : /\ Place(kept, i) \in 1 .. n
                             /\ r[i].player = roster[Place(kept, i)]
                             /\ r[i].stats = stats[r[i].player]
                             /\ Board!matches_played(stats[r[i].player]) > 0
  <2> HIDE DEF n
  <2>1. ASSUME NEW i \in 1 .. Len(r)
        PROVE  /\ Place(kept, i) \in 1 .. n
               /\ r[i].player = roster[Place(kept, i)]
               /\ r[i].stats = stats[r[i].player]
               /\ Board!matches_played(stats[r[i].player]) > 0
    <3>1. PICK k : k = Place(kept, i)
      OBVIOUS
    <3>2. k \in kept /\ r[i] = rows[k]
      BY <1>8, <3>1
    <3>3. k \in 1 .. n /\ Board!matches_played(stats[roster[k]]) > 0
      BY <1>6, <3>2
    <3>4. r[i].player = roster[k] /\ r[i].stats = stats[roster[k]]
      BY <1>3, <3>2, <3>3
    <3> QED BY <3>1, <3>3, <3>4
  <2> QED BY <2>1
<1>10. \A i, j \in 1 .. Len(r) : r[i].player = r[j].player => i = j
  BY <1>1, <1>8, <1>9
<1>11. {r[i].player : i \in 1 .. Len(r)} \subseteq Ranks
  BY <1>1, <1>9 DEF Ranks
<1>12. ASSUME NEW p \in Ranks PROVE p \in {r[i].player : i \in 1 .. Len(r)}
  <2>1. p \in Players /\ Board!matches_played(stats[p]) > 0
    BY DEF Ranks
  <2>2. PICK k \in 1 .. n : roster[k] = p
    BY <2>1 DEF RosterRight, InRoster
  <2>3. k \in kept
    BY <1>6, <2>1, <2>2
  <2>4. PICK i \in 1 .. Len(r) : r[i] = rows[k]
    BY <1>8, <2>3
  <2> QED BY <1>3, <2>2, <2>4
<1> QED BY <1>7, <1>8, <1>9, <1>10, <1>11, <1>12

\* Sorting: the recursion of Board, and what it has done after i rows.
Sorts(f, rows) ==
  f = [i \in 0 .. Len(rows) |-> IF i = 0 THEN << >> ELSE Board!Inserted(f[i - 1], rows[i])]
FirstRows(rows, i) == {rows[k] : k \in 1 .. i}
SortedTo(board, rows, i) ==
  Ranked(board) /\ Len(board) = i /\ RowsOf(board) = FirstRows(rows, i)

LEMMA SortsOne ==
  ASSUME NEW rows \in Seq(Rows),
         \A i, j \in 1 .. Len(rows) : rows[i].player = rows[j].player => i = j,
         NEW i \in 1 .. Len(rows), NEW board, SortedTo(board, rows, i - 1),
         NEW r, r = Board!Inserted(board, rows[i])
  PROVE  SortedTo(r, rows, i)
<1>1. /\ Len(rows) \in Nat /\ i \in Nat /\ rows[i] \in Rows
      /\ \A k \in 1 .. i - 1 : k \in 1 .. Len(rows) /\ k # i
      /\ i - 1 + 1 = i
  OBVIOUS
<1>2. \A k \in 1 .. Len(board) : board[k].player # rows[i].player
  <2>1. ASSUME NEW k \in 1 .. Len(board) PROVE board[k].player # rows[i].player
    <3>1. board[k] \in FirstRows(rows, i - 1)
      BY DEF SortedTo, RowsOf
    <3>2. PICK l \in 1 .. i - 1 : board[k] = rows[l]
      BY <3>1 DEF FirstRows
    <3> QED BY <1>1, <3>2
  <2> QED BY <2>1
<1>3. Ranked(r) /\ RowsOf(r) = RowsOf(board) \cup {rows[i]} /\ Len(r) = Len(board) + 1
  BY <1>1, <1>2, InsertedRanks DEF SortedTo
<1>4. FirstRows(rows, i) = FirstRows(rows, i - 1) \cup {rows[i]}
  <2>1. 1 .. i = (1 .. i - 1) \cup {i}
    BY <1>1
  <2> QED BY <2>1 DEF FirstRows
<1> QED BY <1>1, <1>3, <1>4 DEF SortedTo

LEMMA SortRight ==
  ASSUME NEW rows \in Seq(Rows),
         \A i, j \in 1 .. Len(rows) : rows[i].player = rows[j].player => i = j,
         NEW r, r = (CHOOSE f : Sorts(f, rows))[Len(rows)]
  PROVE  SortedTo(r, rows, Len(rows))
<1> DEFINE n == Len(rows)
           X == Seq(Rows)
           next(i, l) == Board!Inserted(l, rows[i])
           step == [i \in 1 .. n |-> [l \in X |-> next(i, l)]]
<1>1. n \in Nat /\ << >> \in X /\ \A i \in 1 .. n : rows[i] \in Rows
  OBVIOUS
<1>2. ASSUME NEW i \in 1 .. n, NEW l \in X PROVE next(i, l) \in X
  <2>1. PICK q : q = Board!Inserted(l, rows[i])
    OBVIOUS
  <2>2. q \in Seq(Rows)
    BY <1>1, <2>1, InsertedIs
  <2> QED BY <2>1, <2>2
<1>3. step \in [1 .. n -> [X -> X]]
  <2> HIDE DEF next, X
  <2> QED BY <1>2
<1>4. PICK g \in [0 .. n -> X] : Iterates(g, << >>, step, n)
  <2> HIDE DEF step, X
  <2> QED BY <1>1, <1>3, IterationExists
<1>5. Sorts(g, rows)
  <2>1. g[0] = << >>
    BY <1>4 DEF Iterates
  <2>2. ASSUME NEW i \in 1 .. n PROVE g[i] = next(i, g[i - 1])
    <3>1. i - 1 \in 0 .. n
      BY <1>1
    <3>2. g[i - 1] \in X
      BY <1>4, <3>1
    <3>3. g[i] = step[i][g[i - 1]]
      BY <1>4 DEF Iterates
    <3> HIDE DEF X, next
    <3> QED BY <3>2, <3>3
  <2>3. ASSUME NEW i \in 0 .. n PROVE g[i] = IF i = 0 THEN << >> ELSE next(i, g[i - 1])
    <3>1. i = 0 \/ i \in 1 .. n
      BY <1>1
    <3> HIDE DEF next
    <3> QED BY <2>1, <2>2, <3>1
  <2>4. g = [i \in 0 .. n |-> g[i]]
    BY <1>4
  <2>5. g = [i \in 0 .. n |-> IF i = 0 THEN << >> ELSE next(i, g[i - 1])]
    <3> HIDE DEF next, X
    <3> QED BY <2>3, <2>4
  <2> QED BY <2>5 DEF Sorts
<1>6. PICK a : a = CHOOSE f : Sorts(f, rows)
  OBVIOUS
<1>7. Sorts(a, rows)
  BY <1>5, <1>6
<1>8. /\ a[0] = << >>
      /\ \A i \in 1 .. n : a[i] = next(i, a[i - 1])
  <2>1. \A i \in 0 .. n : a[i] = IF i = 0 THEN << >> ELSE next(i, a[i - 1])
    BY <1>7 DEF Sorts
  <2>2. 0 \in 0 .. n /\ \A i \in 1 .. n : i \in 0 .. n /\ i # 0
    BY <1>1
  <2> HIDE DEF next
  <2> QED BY <2>1, <2>2
<1> DEFINE Bad == {i \in 0 .. n : ~ SortedTo(a[i], rows, i)}
<1>9. ASSUME Bad # {} PROVE FALSE
  <2>1. PICK i \in Bad : \A j \in Bad : i <= j
    <3>1. Bad \subseteq Nat
      BY <1>1
    <3> HIDE DEF Bad
    <3> QED BY <1>9, <3>1, LeastNat
  <2>2. i \in 0 .. n /\ ~ SortedTo(a[i], rows, i)
    BY <2>1
  <2>3. CASE i = 0
    <3>1. << >> \in Seq(Rows) /\ Len(<< >>) = 0 /\ 1 .. 0 = {}
      OBVIOUS
    <3>2. SortedTo(<< >>, rows, 0)
      BY <3>1 DEF SortedTo, Ranked, RowsOf, FirstRows
    <3> QED BY <1>8, <2>2, <2>3, <3>2
  <2>4. CASE i # 0
    <3>1. i \in 1 .. n /\ i - 1 \in 0 .. n /\ i - 1 < i
      BY <1>1, <2>2, <2>4
    <3>2. i - 1 \notin Bad
      BY <1>1, <2>1, <2>2, <3>1
    <3>3. SortedTo(a[i - 1], rows, i - 1)
      BY <3>1, <3>2
    <3>4. PICK board : board = a[i - 1]
      OBVIOUS
    <3>5. PICK q : q = a[i]
      OBVIOUS
    <3>6. q = Board!Inserted(board, rows[i])
      BY <1>8, <3>1, <3>4, <3>5
    <3>7. SortedTo(board, rows, i - 1)
      BY <3>3, <3>4
    <3>8. SortedTo(q, rows, i)
      BY <3>1, <3>6, <3>7, SortsOne
    <3> QED BY <2>2, <3>5, <3>8
  <2> QED BY <2>3, <2>4
<1>10. n \in 0 .. n
  BY <1>1
<1>11. SortedTo(a[n], rows, n)
  BY <1>9, <1>10
<1> QED BY <1>6, <1>11

\* The board is the rows of those who have played, in their order.
LEMMA BoardIsSorted ==
  ASSUME RosterRight(roster, stats)
  PROVE  SortedTo(Board!Board, PlayedRows, Len(PlayedRows))
<1>1. Board!Board = (CHOOSE f : Sorts(f, PlayedRows))[Len(PlayedRows)]
  BY BoardFilters DEF Board!Board, Sorts, PlayedRows, HasPlayed, RosterRows
<1> QED BY <1>1, PlayedRowsAre, SortRight

\* A ranked board of players: each of those who have played once, the better before.
LEMMA BoardRanks ==
  ASSUME RosterRight(roster, stats), NEW board, board = Board!Board
  PROVE  /\ board \in Seq(Rows) /\ Len(board) \in Nat /\ DOMAIN board = 1 .. Len(board)
         /\ {board[i].player : i \in 1 .. Len(board)} = Ranks
         /\ \A i, j \in 1 .. Len(board) :
              i < j => Board!Better(board[i].player, board[j].player)
         /\ \A i, j \in 1 .. Len(board) : board[i].player = board[j].player => i = j
<1>1. PICK played : played = PlayedRows
  OBVIOUS
<1>2. /\ \A i \in 1 .. Len(played) : played[i].stats = stats[played[i].player]
      /\ {played[i].player : i \in 1 .. Len(played)} = Ranks
  BY <1>1, PlayedRowsAre
<1>3. SortedTo(board, played, Len(played))
  BY <1>1, BoardIsSorted
<1>4. /\ board \in Seq(Rows)
      /\ \A i, j \in 1 .. Len(board) : i < j => Before(board[i], board[j])
      /\ {board[i] : i \in 1 .. Len(board)} = {played[i] : i \in 1 .. Len(played)}
  BY <1>3 DEF SortedTo, Ranked, RowsOf, FirstRows
<1>5. Len(board) \in Nat /\ DOMAIN board = 1 .. Len(board) /\ \A i \in 1 .. Len(board) : board[i] \in Rows
  BY <1>4, LenProperties, ElementOfSeq
<1>6. \A i \in 1 .. Len(board) : \E k \in 1 .. Len(played) : board[i] = played[k]
  BY <1>4
<1>7. \A k \in 1 .. Len(played) : \E i \in 1 .. Len(board) : board[i] = played[k]
  BY <1>4
<1>8. \A i \in 1 .. Len(board) : board[i].stats = stats[board[i].player]
  BY <1>2, <1>6
<1>9. {board[i].player : i \in 1 .. Len(board)} = Ranks
  <2>1. {board[i].player : i \in 1 .. Len(board)} = {played[i].player : i \in 1 .. Len(played)}
    BY <1>6, <1>7
  <2> QED BY <1>2, <2>1
<1>10. ASSUME NEW i \in 1 .. Len(board), NEW j \in 1 .. Len(board), i < j
       PROVE  Board!Better(board[i].player, board[j].player)
  <2>1. Board!ranks_after(board[j], board[i])
    BY <1>4, <1>10 DEF Before
  <2>2. PICK a, b : a = board[i] /\ b = board[j]
    OBVIOUS
  <2>3. a.stats = stats[a.player] /\ b.stats = stats[b.player] /\ a \in Rows /\ b \in Rows
    BY <1>5, <1>8, <2>2
  <2>4. \A r \in Rows : r.player \in Players
    BY DEF Rows
  <2>5. \A r \in Rows : r.stats.wins \in Int /\ r.stats.earnings \in Int
    BY DEF Rows, PlayerRecords
  <2>6. /\ a.stats.wins \in Int /\ a.stats.earnings \in Int
        /\ b.stats.wins \in Int /\ b.stats.earnings \in Int
        /\ a.player \in Int /\ b.player \in Int
    <3>1. \A p \in Players : p \in Int
      BY BoardConstants
    <3> QED BY <2>3, <2>4, <2>5, <3>1
  <2>7. Board!ranks_after(b, a)
    BY <2>1, <2>2
  <2>8. Board!Better(a.player, b.player)
    BY <2>3, <2>6, <2>7 DEF Board!Better, Board!ranks_after
  <2> QED BY <2>2, <2>8
<1>11. ASSUME NEW i \in 1 .. Len(board), NEW j \in 1 .. Len(board),
              board[i].player = board[j].player
       PROVE  i = j
  <2>1. PICK a : a = board[i]
    OBVIOUS
  <2>2. board[j] = a /\ a \in Rows
    BY <1>5, <1>8, <1>11, <2>1 DEF Rows
  <2>3. ~ Before(a, a)
    BY <2>2, RowsAreOrdered
  <2> QED BY <1>4, <1>5, <2>1, <2>2, <2>3
<1> QED BY <1>4, <1>5, <1>9, <1>10, <1>11

\* There are no more rows than players.
LEMMA BoardFits ==
  ASSUME RosterRight(roster, stats)
  PROVE  Len(Board!Board) <= Cardinality(Players) /\ Cardinality(Players) \in Nat
<1>1. PICK board : board = Board!Board
  OBVIOUS
<1>2. PICK n : n = Len(board)
  OBVIOUS
<1>3. /\ n \in Nat /\ \A i \in 1 .. n : board[i].player \in Players
      /\ \A i, j \in 1 .. n : board[i].player = board[j].player => i = j
  <2>1. \A r \in Rows : r.player \in Players
    BY DEF Rows
  <2>2. board \in Seq(Rows) /\ n \in Nat
        /\ \A i, j \in 1 .. n : board[i].player = board[j].player => i = j
    BY <1>1, <1>2, BoardRanks
  <2>3. \A i \in 1 .. n : board[i] \in Rows
    BY <1>2, <2>2, ElementOfSeq
  <2> QED BY <2>1, <2>2, <2>3
<1>4. PICK f : f = [i \in 1 .. n |-> board[i].player]
  OBVIOUS
<1>5. f \in Injection(1 .. n, Players)
  BY <1>3, <1>4 DEF Injection, IsInjective
<1>6. Cardinality(1 .. n) = n
  BY <1>3, FS_Interval
<1>7. Cardinality(1 .. n) <= Cardinality(Players) /\ Cardinality(Players) \in Nat
  BY <1>5, BoardConstants, FS_Injection, FS_CardinalityType
<1> QED BY <1>1, <1>2, <1>6, <1>7

\* The two modules' FlattenSeq.
LEMMA FlattensAgree == \A p : Board!FlattenSeq(p) = Registry!FlattenSeq(p)
BY DEF Board!FlattenSeq, Registry!FlattenSeq

LEMMA BoardPaged ==
  ASSUME RosterRight(roster, stats)
  PROVE  Board!PagesAreTheRanking
<1> DEFINE board == Board!Board
           c == Board!Cardinality(Players) + 1
<1>1. /\ board \in Seq(Rows) /\ Len(board) \in Nat /\ DOMAIN board = 1 .. Len(board)
      /\ {board[i].player : i \in 1 .. Len(board)} = Ranks
      /\ \A i, j \in 1 .. Len(board) :
           i < j => Board!Better(board[i].player, board[j].player)
  BY BoardRanks
<1>2. /\ c \in Nat /\ c >= Len(board)
      /\ MAX_PAGE_SIZE \in Nat \ {0}
  BY <1>1, BoardFits, BoardSizes, BoardConstants
<1> HIDE DEF board, c
<1>3. ASSUME NEW limit \in 1 .. c
      PROVE  LET step == Board!Min({limit, MAX_PAGE_SIZE})
                 rows == Board!FlattenSeq([i \in 1 .. c |->
                           Board!get_leaderboard(limit, (i - 1) * step)])
             IN  /\ {rows[i].player : i \in DOMAIN rows} = Ranks
                 /\ \A i, j \in DOMAIN rows :
                      i < j => Board!Better(rows[i].player, rows[j].player)
  <2> DEFINE step == Board!Min({limit, MAX_PAGE_SIZE})
             pages == [i \in 1 .. c |-> Board!get_leaderboard(limit, (i - 1) * step)]
             n == Len(board)
  <2>1. step \in Nat \ {0}
    <3>1. limit \in Int /\ limit >= 1 /\ MAX_PAGE_SIZE \in Int /\ MAX_PAGE_SIZE >= 1
      BY <1>2
    <3>2. step = IF limit <= MAX_PAGE_SIZE THEN limit ELSE MAX_PAGE_SIZE
      BY <3>1, BoardLesser
    <3> QED BY <3>1, <3>2
  <2>2. ASSUME NEW i \in 1 .. c
        PROVE  Board!get_leaderboard(limit, (i - 1) * step) = PageAt(board, i, step)
    <3>1. i - 1 \in Nat /\ i - 1 + 1 = i /\ i \in Nat
      BY <1>2
    <3> DEFINE a == (i - 1) * step
               b == i * step
    <3>2. a \in Nat /\ (i - 1 + 1) * step = a + step /\ b \in Nat
      BY <2>1, <3>1, Steps
    <3>3. b = a + step
      BY <3>1, <3>2
    <3>4. Board!get_leaderboard(limit, a) = SubSeq(board, a + 1, Board!Min({n, a + step}))
      BY DEF Board!get_leaderboard, board
    <3>5. PageAt(board, i, step) = SubSeq(board, a + 1, IF b <= n THEN b ELSE n)
      BY DEF PageAt, Upto
    <3>6. n \in Nat
      BY <1>1
    <3> HIDE DEF step, a, b, n
    <3>7. Board!Min({n, a + step}) = IF n <= a + step THEN n ELSE a + step
      BY <2>1, <3>2, <3>6, BoardLesser
    <3>8. Board!Min({n, a + step}) = IF b <= n THEN b ELSE n
      BY <2>1, <3>2, <3>3, <3>6, <3>7
    <3>9. Board!get_leaderboard(limit, a) = PageAt(board, i, step)
      BY <3>4, <3>5, <3>8
    <3> QED BY <3>9 DEF a
  <2>3. pages = [i \in 1 .. c |-> PageAt(board, i, step)]
    <3> HIDE DEF step
    <3> QED BY <2>2
  <2> HIDE DEF step, pages
  <2>4. Board!FlattenSeq(pages) = board
    <3>1. Registry!FlattenSeq(pages) = board
      BY <1>1, <1>2, <2>1, <2>3, PagesFlatten
    <3> QED BY <3>1, FlattensAgree
  <2> QED BY <1>1, <2>4 DEF step, pages
<1> QED BY <1>3 DEF Board!PagesAreTheRanking, Ranks, c

\* The books and the roster together are inductive.
LEMMA RosterInit == Board!Init => RosterRight(roster, stats)
BY EmptyRoster DEF Board!Init

LEMMA RosterNext ==
  BoardInv /\ BoardInv' /\ RosterRight(roster, stats) /\ [Board!Next]_boardVars
    => RosterRight(roster, stats)'
BY RosterStep DEF BoardInv, Tallies

\* Pages of get_leaderboard of any size, one behind the other, are the players
\* who have played, each once, in the order of wins, earnings and address
\* (contracts/leaderboard).
THEOREM PagesRankThePlayers == Spec => []Board!PagesAreTheRanking
<1>1. RosterRight(roster, stats) => Board!PagesAreTheRanking
  BY BoardPaged
<1> QED BY <1>1, BoardPart, BoardInitial, BoardStep, RosterInit, RosterNext, PTL

\* The leaderboard's books balance and its pages are the ranking of them
\* (contracts/leaderboard).
THEOREM BoardStaysRight == Spec => []BoardIsRight
<1>1. Board!BooksBalance /\ Board!PagesAreTheRanking => BoardIsRight
  BY DEF BoardIsRight
<1> QED BY <1>1, ResultsBalance, PagesRankThePlayers, PTL
=============================================================================
