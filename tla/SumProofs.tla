----------------------------- MODULE SumProofs ------------------------------
(***************************************************************************)
(* Sums over finite sets and filters of sequences, for the proofs about    *)
(* balances, fees, counts and windows.  The library's induction takes an   *)
(* operator as a parameter, which the provers cannot instantiate: every    *)
(* fact about sums is proved here from a smallest counterexample, by the   *)
(* well-foundedness of the natural numbers.                                *)
(***************************************************************************)
EXTENDS Integers, Sequences, FiniteSets, FiniteSetsExt, Filters, FiniteSetTheorems,
        SequenceTheorems, WellFoundedInduction, TLAPS

\* A set of natural numbers has a least one, and a set of subsets of a finite set a smallest.
LEMMA LeastNat ==
  ASSUME NEW T, T \subseteq Nat, T # {}
  PROVE  \E x \in T : \A y \in T : x <= y
<1>1. PICK x \in T : \A y \in T : ~ (<<y, x>> \in OpToRel(<, Nat))
  BY NatLessThanWellFounded, WFMin
<1>2. \A y \in T : ~ (y < x)
  BY <1>1 DEF OpToRel
<1> QED
  BY <1>2

LEMMA SmallestSet ==
  ASSUME NEW S, IsFiniteSet(S), NEW T \in SUBSET SUBSET S, T # {}
  PROVE  \E R \in T : \A Q \in T : Q \subseteq R => Q = R
<1> DEFINE Sizes == {Cardinality(R) : R \in T}
<1>1. \A R \in T : IsFiniteSet(R) /\ Cardinality(R) \in Nat
  BY FS_Subset, FS_CardinalityType
<1>2. Sizes \subseteq Nat /\ Sizes # {}
  BY <1>1
<1>3. PICK n \in Sizes : \A k \in Sizes : n <= k
  <2> HIDE DEF Sizes
  <2> QED BY <1>2, LeastNat
<1>4. PICK R \in T : n = Cardinality(R)
  BY <1>3
<1>5. \A Q \in T : Cardinality(R) <= Cardinality(Q)
  BY <1>3, <1>4
<1>6. \A Q \in T : Q \subseteq R /\ Q # R => Cardinality(Q) < Cardinality(R)
  BY <1>1, FS_Subset
<1> QED
  BY <1>1, <1>5, <1>6

Bounded(R) == (\E x \in R : \A y \in R : x <= y) /\ (\E x \in R : \A y \in R : y <= x)

\* A finite set of integers has a least and a greatest.
LEMMA LeastAndGreatest ==
  ASSUME NEW S, IsFiniteSet(S), S \subseteq Int, S # {}
  PROVE  /\ \E x \in S : \A y \in S : x <= y
         /\ \E x \in S : \A y \in S : y <= x
<1> DEFINE Open == {R \in SUBSET S : R # {} /\ ~ Bounded(R)}
<1>1. ASSUME Open # {} PROVE FALSE
  <2>1. PICK R \in Open : \A Q \in Open : Q \subseteq R => Q = R
    <3>1. Open \in SUBSET SUBSET S
      OBVIOUS
    <3>2. IsFiniteSet(S) /\ Open # {}
      BY <1>1
    <3> HIDE DEF Open
    <3> QED BY ONLY <3>1, <3>2, SmallestSet
  <2>2. R \subseteq Int /\ R # {} /\ ~ Bounded(R)
    BY <2>1
  <2>3. PICK z \in R : TRUE
    BY <2>2
  <2>4. R \ {z} \notin Open
    BY <2>1, <2>3
  <2>5. CASE R \ {z} = {}
    <3>1. R = {z}
      BY <2>3, <2>5
    <3> QED BY <2>2, <3>1 DEF Bounded
  <2>6. CASE R \ {z} # {}
    <3>1. Bounded(R \ {z})
      BY <2>1, <2>4, <2>6
    <3>2. PICK a \in R \ {z} : \A y \in R \ {z} : a <= y
      BY <3>1 DEF Bounded
    <3>3. PICK b \in R \ {z} : \A y \in R \ {z} : y <= b
      BY <3>1 DEF Bounded
    <3>4. a \in Int /\ b \in Int /\ z \in Int
      BY <2>2, <2>3
    <3>5. \E x \in R : \A y \in R : x <= y
      <4>1. CASE a <= z
        BY <3>2, <4>1
      <4>2. CASE ~ (a <= z)
        <5>1. z <= a
          BY <3>4, <4>2
        <5>2. \A y \in R : z <= y
          BY <2>2, <3>2, <3>4, <5>1
        <5> QED BY <2>3, <5>2
      <4> QED BY <4>1, <4>2
    <3>6. \E x \in R : \A y \in R : y <= x
      <4>1. CASE z <= b
        BY <3>3, <4>1
      <4>2. CASE ~ (z <= b)
        <5>1. b <= z
          BY <3>4, <4>2
        <5>2. \A y \in R : y <= z
          BY <2>2, <3>3, <3>4, <5>1
        <5> QED BY <2>3, <5>2
      <4> QED BY <4>1, <4>2
    <3> QED BY <2>2, <3>5, <3>6 DEF Bounded
  <2> QED BY <2>5, <2>6
<1>2. S \notin Open
  BY <1>1
<1> QED BY <1>2 DEF Bounded

\* Steps can be taken one after the other.
Iterates(g, x, step, k) == g[0] = x /\ \A i \in 1 .. k : g[i] = step[i][g[i - 1]]
LEMMA IterationExists ==
  ASSUME NEW X, NEW x \in X, NEW n \in Nat, NEW step \in [1 .. n -> [X -> X]]
  PROVE  \E g \in [0 .. n -> X] : Iterates(g, x, step, n)
<1> DEFINE Bad == {k \in 0 .. n : ~ \E g \in [0 .. k -> X] : Iterates(g, x, step, k)}
<1>1. ASSUME Bad # {} PROVE FALSE
  <2>1. PICK k \in Bad : \A l \in Bad : k <= l
    <3>1. Bad \subseteq Nat
      OBVIOUS
    <3> HIDE DEF Bad
    <3> QED BY <1>1, <3>1, LeastNat
  <2>2. k \in 0 .. n /\ ~ \E g \in [0 .. k -> X] : Iterates(g, x, step, k)
    BY <2>1
  <2>3. CASE k = 0
    <3>1. [i \in 0 .. 0 |-> x] \in [0 .. 0 -> X] /\ Iterates([i \in 0 .. 0 |-> x], x, step, 0)
      BY DEF Iterates
    <3> QED BY <2>2, <2>3, <3>1
  <2>4. CASE k # 0
    <3>1. k - 1 \in 0 .. n /\ k - 1 < k /\ k \in 1 .. n
      BY <2>2, <2>4
    <3>2. k - 1 \notin Bad
      BY <2>1, <2>2, <3>1
    <3>3. PICK g \in [0 .. (k - 1) -> X] : Iterates(g, x, step, k - 1)
      BY <3>1, <3>2
    <3>4. g[k - 1] \in X /\ step[k][g[k - 1]] \in X
      BY <2>2, <3>1
    <3>5. PICK h : h = [i \in 0 .. k |-> IF i = k THEN step[k][g[k - 1]] ELSE g[i]]
      OBVIOUS
    <3>6. /\ \A i \in 0 .. (k - 1) : h[i] = g[i]
          /\ h[k] = step[k][g[k - 1]]
      BY <2>2, <3>5
    <3>7. h \in [0 .. k -> X]
      BY <2>2, <3>3, <3>4, <3>5
    <3>8. Iterates(h, x, step, k)
      <4>1. h[0] = x
        BY <3>1, <3>3, <3>6 DEF Iterates
      <4>2. ASSUME NEW i \in 1 .. k PROVE h[i] = step[i][h[i - 1]]
        <5>1. i - 1 \in 0 .. (k - 1) /\ h[i - 1] = g[i - 1]
          BY <2>2, <3>6
        <5>2. CASE i = k
          BY <3>6, <5>1, <5>2
        <5>3. CASE i # k
          <6>1. i \in 1 .. (k - 1) /\ i \in 0 .. (k - 1)
            BY <2>2, <5>3
          <6> QED BY <3>3, <3>6, <5>1, <6>1 DEF Iterates
        <5> QED BY <5>2, <5>3
      <4> QED BY <4>1, <4>2 DEF Iterates
    <3> QED BY <2>2, <3>7, <3>8
  <2> QED BY <2>3, <2>4
<1>2. n \notin Bad
  BY <1>1
<1> QED BY <1>2

\* The sum over a finite set: of the functions that add one element's term to the sum over
\* the rest.
Pick(s) == CHOOSE x \in s : TRUE
Sums(g, f, S) ==
  g = [s \in SUBSET S |-> IF s = {} THEN 0 ELSE f[Pick(s)] + g[s \ {Pick(s)}]]
Sum(f, S) == (CHOOSE g : Sums(g, f, S))[S]

\* There is one such function,
LEMMA SumsUnique ==
  ASSUME NEW S, IsFiniteSet(S), NEW f, NEW g, NEW h, Sums(g, f, S), Sums(h, f, S)
  PROVE  g = h
<1> DEFINE Differ == {R \in SUBSET S : g[R] # h[R]}
<1>1. ASSUME Differ # {} PROVE FALSE
  <2>1. PICK R \in Differ : \A Q \in Differ : Q \subseteq R => Q = R
    <3>1. Differ \in SUBSET SUBSET S
      OBVIOUS
    <3> HIDE DEF Differ
    <3> QED BY <1>1, <3>1, SmallestSet
  <2>2. CASE R = {}
    BY <2>1, <2>2 DEF Sums
  <2>3. CASE R # {}
    <3>1. Pick(R) \in R
      BY <2>3 DEF Pick
    <3>2. R \ {Pick(R)} \in SUBSET S /\ R \ {Pick(R)} # R
      BY <2>1, <3>1
    <3>3. g[R \ {Pick(R)}] = h[R \ {Pick(R)}]
      BY <2>1, <3>2
    <3>4. g[R] = f[Pick(R)] + g[R \ {Pick(R)}]
      BY <2>1, <2>3 DEF Sums
    <3>5. h[R] = f[Pick(R)] + h[R \ {Pick(R)}]
      BY <2>1, <2>3 DEF Sums
    <3> QED BY <2>1, <3>3, <3>4, <3>5
  <2> QED BY <2>2, <2>3
<1>2. g = [R \in SUBSET S |-> g[R]] /\ h = [R \in SUBSET S |-> h[R]]
  BY DEF Sums
<1> QED
  BY <1>1, <1>2

\* and the sum is its value: one term and the sum of the rest.
LEMMA SumStep ==
  ASSUME NEW S, IsFiniteSet(S), NEW f
  PROVE  Sum(f, S) = IF S = {} THEN 0 ELSE f[Pick(S)] + Sum(f, S \ {Pick(S)})
<1> DEFINE Right(R) == IF R = {} THEN 0 ELSE f[Pick(R)] + Sum(f, R \ {Pick(R)})
           Bad == {R \in SUBSET S : Sum(f, R) # Right(R)}
<1>1. ASSUME Bad # {} PROVE FALSE
  <2>1. PICK R \in Bad : \A Q \in Bad : Q \subseteq R => Q = R
    <3>1. Bad \in SUBSET SUBSET S
      OBVIOUS
    <3> HIDE DEF Bad
    <3> QED BY <1>1, <3>1, SmallestSet
  <2> DEFINE g == [Q \in SUBSET R |-> IF Q = R THEN Right(R) ELSE Sum(f, Q)]
  <2>2. ASSUME NEW Q \in SUBSET R
        PROVE  g[Q] = IF Q = {} THEN 0 ELSE f[Pick(Q)] + g[Q \ {Pick(Q)}]
    <3>1. g[Q] = Right(Q)
      <4>1. CASE Q = R
        BY <4>1
      <4>2. CASE Q # R
        <5>1. Q \notin Bad
          BY <4>2, <2>1
        <5>2. Q \in SUBSET S
          BY <2>1
        <5>3. Sum(f, Q) = Right(Q)
          BY <5>1, <5>2
        <5>4. g[Q] = Sum(f, Q)
          BY <4>2
        <5> QED BY <5>3, <5>4
      <4> QED BY <4>1, <4>2
    <3>2. Q # {} => g[Q \ {Pick(Q)}] = Sum(f, Q \ {Pick(Q)})
      <4>1. Q # {} => Pick(Q) \in Q
        BY DEF Pick
      <4>2. Q # {} => Q \ {Pick(Q)} # R /\ Q \ {Pick(Q)} \in SUBSET R
        BY <4>1
      <4> HIDE DEF Right
      <4> QED BY <4>2
    <3> HIDE DEF g
    <3> QED BY <3>1, <3>2
  <2>3. Sums(g, f, R)
    <3>1. g = [Q \in SUBSET R |-> g[Q]]
      OBVIOUS
    <3> HIDE DEF g
    <3> QED BY <2>2, <3>1 DEF Sums
  <2>4. IsFiniteSet(R)
    BY <2>1, FS_Subset
  <2>5. Sums((CHOOSE h : Sums(h, f, R)), f, R)
    <3> HIDE DEF g
    <3> QED BY <2>3
  <2>6. (CHOOSE h : Sums(h, f, R)) = g
    <3> HIDE DEF g
    <3> QED BY <2>3, <2>4, <2>5, SumsUnique
  <2>7. Sum(f, R) = g[R]
    <3> HIDE DEF g
    <3> QED BY <2>6 DEF Sum
  <2>8. g[R] = Right(R)
    <3> HIDE DEF Right
    <3> QED OBVIOUS
  <2>9. Sum(f, R) # Right(R)
    BY <2>1
  <2> HIDE DEF g, Right
  <2> QED BY <2>7, <2>8, <2>9
<1>2. S \notin Bad
  BY <1>1
<1> QED
  BY <1>2

\* The sum over nothing is zero, and a sum of integers is an integer.
LEMMA SumEmpty ==
  ASSUME NEW f
  PROVE  Sum(f, {}) = 0
BY SumStep, FS_EmptySet

LEMMA SumType ==
  ASSUME NEW S, IsFiniteSet(S), NEW f, \A x \in S : f[x] \in Int
  PROVE  Sum(f, S) \in Int
<1> DEFINE Bad == {R \in SUBSET S : Sum(f, R) \notin Int}
<1>1. ASSUME Bad # {} PROVE FALSE
  <2>1. PICK R \in Bad : \A Q \in Bad : Q \subseteq R => Q = R
    <3>1. Bad \in SUBSET SUBSET S
      OBVIOUS
    <3> HIDE DEF Bad
    <3> QED BY <1>1, <3>1, SmallestSet
  <2>2. IsFiniteSet(R)
    BY <2>1, FS_Subset
  <2>3. CASE R = {}
    BY <2>1, <2>3, SumEmpty
  <2>4. CASE R # {}
    <3>1. Pick(R) \in R
      BY <2>4 DEF Pick
    <3>2. R \ {Pick(R)} \notin Bad
      BY <2>1, <3>1
    <3>3. Sum(f, R \ {Pick(R)}) \in Int
      BY <3>2, <2>1
    <3>4. Sum(f, R) = f[Pick(R)] + Sum(f, R \ {Pick(R)})
      BY <2>2, <2>4, SumStep
    <3>5. f[Pick(R)] \in Int
      BY <2>1, <3>1
    <3> QED BY <2>1, <3>3, <3>4, <3>5
  <2> QED BY <2>3, <2>4
<1> QED BY <1>1

\* Any term may be taken out.
LEMMA SumTakeOut ==
  ASSUME NEW S, IsFiniteSet(S), NEW f, \A x \in S : f[x] \in Int
  PROVE  \A x \in S : Sum(f, S) = f[x] + Sum(f, S \ {x})
<1> DEFINE TakesOut(R) == \A x \in R : Sum(f, R) = f[x] + Sum(f, R \ {x})
           Bad == {R \in SUBSET S : ~ TakesOut(R)}
<1>1. ASSUME Bad # {} PROVE FALSE
  <2>1. PICK R \in Bad : \A Q \in Bad : Q \subseteq R => Q = R
    <3>1. Bad \in SUBSET SUBSET S
      OBVIOUS
    <3> HIDE DEF Bad
    <3> QED BY <1>1, <3>1, SmallestSet
  <2>2. PICK x \in R : Sum(f, R) # f[x] + Sum(f, R \ {x})
    BY <2>1
  <2> DEFINE c == Pick(R)
  <2>3. \A Q \in SUBSET R : IsFiniteSet(Q)
    BY <2>1, FS_Subset
  <2>4. c \in R
    BY <2>2 DEF Pick
  <2>5. Sum(f, R) = f[c] + Sum(f, R \ {c})
    BY <2>3, <2>4, SumStep
  <2>6. c # x
    BY <2>2, <2>5
  <2>7. \A Q \in SUBSET R : Q # R => TakesOut(Q)
    BY <2>1
  <2> HIDE DEF c
  <2>8. Sum(f, R \ {c}) = f[x] + Sum(f, (R \ {c}) \ {x})
    <3>1. TakesOut(R \ {c})
      <4> HIDE DEF TakesOut
      <4> QED BY <2>4, <2>7
    <3> QED BY <3>1, <2>6
  <2>9. Sum(f, R \ {x}) = f[c] + Sum(f, (R \ {x}) \ {c})
    <3>1. TakesOut(R \ {x})
      <4> HIDE DEF TakesOut
      <4> QED BY <2>7
    <3> QED BY <3>1, <2>4, <2>6
  <2>10. Sum(f, (R \ {x}) \ {c}) = Sum(f, (R \ {c}) \ {x})
    <3>1. (R \ {x}) \ {c} = (R \ {c}) \ {x}
      OBVIOUS
    <3> QED BY <3>1
  <2>11. f[x] \in Int /\ f[c] \in Int /\ Sum(f, (R \ {c}) \ {x}) \in Int
    <3>1. \A y \in (R \ {c}) \ {x} : f[y] \in Int
      BY <2>1
    <3>2. IsFiniteSet((R \ {c}) \ {x})
      BY <2>3
    <3> QED BY <2>1, <2>4, <3>1, <3>2, SumType
  <2>12. Sum(f, R) = f[x] + Sum(f, R \ {x})
    BY <2>5, <2>8, <2>9, <2>10, <2>11
  <2> QED BY <2>2, <2>12
<1>2. S \notin Bad
  BY <1>1
<1> QED BY <1>2

\* Sums of the same terms are equal, and a sum of zeros is zero.
LEMMA SumSame ==
  ASSUME NEW S, IsFiniteSet(S), NEW f, NEW g, \A x \in S : f[x] = g[x]
  PROVE  Sum(f, S) = Sum(g, S)
<1> DEFINE Bad == {R \in SUBSET S : Sum(f, R) # Sum(g, R)}
<1>1. ASSUME Bad # {} PROVE FALSE
  <2>1. PICK R \in Bad : \A Q \in Bad : Q \subseteq R => Q = R
    <3>1. Bad \in SUBSET SUBSET S
      OBVIOUS
    <3> HIDE DEF Bad
    <3> QED BY <1>1, <3>1, SmallestSet
  <2>2. IsFiniteSet(R)
    BY <2>1, FS_Subset
  <2>3. CASE R = {}
    BY <2>1, <2>3, SumEmpty
  <2>4. CASE R # {}
    <3>1. Pick(R) \in R
      BY <2>4 DEF Pick
    <3>2. R \ {Pick(R)} \notin Bad
      BY <2>1, <3>1
    <3>3. Sum(f, R \ {Pick(R)}) = Sum(g, R \ {Pick(R)})
      BY <3>2, <2>1
    <3>4. /\ Sum(f, R) = f[Pick(R)] + Sum(f, R \ {Pick(R)})
          /\ Sum(g, R) = g[Pick(R)] + Sum(g, R \ {Pick(R)})
      BY <2>2, <2>4, SumStep
    <3>5. f[Pick(R)] = g[Pick(R)]
      BY <2>1, <3>1
    <3> QED BY <2>1, <3>3, <3>4, <3>5
  <2> QED BY <2>3, <2>4
<1>2. S \notin Bad
  BY <1>1
<1> QED BY <1>2

LEMMA SumOfZeros ==
  ASSUME NEW S, IsFiniteSet(S), NEW f, \A x \in S : f[x] = 0
  PROVE  Sum(f, S) = 0
<1> DEFINE Bad == {R \in SUBSET S : Sum(f, R) # 0}
<1>1. ASSUME Bad # {} PROVE FALSE
  <2>1. PICK R \in Bad : \A Q \in Bad : Q \subseteq R => Q = R
    <3>1. Bad \in SUBSET SUBSET S
      OBVIOUS
    <3> HIDE DEF Bad
    <3> QED BY <1>1, <3>1, SmallestSet
  <2>2. IsFiniteSet(R)
    BY <2>1, FS_Subset
  <2>3. PICK x \in R : TRUE
    BY <2>1, SumEmpty
  <2>4. \A y \in R : f[y] \in Int
    BY <2>1
  <2>5. Sum(f, R) = f[x] + Sum(f, R \ {x})
    BY <2>2, <2>4, SumTakeOut
  <2>6. Sum(f, R \ {x}) = 0 /\ f[x] = 0
    BY <2>1
  <2> QED BY <2>1, <2>5, <2>6
<1>2. S \notin Bad
  BY <1>1
<1> QED BY <1>2

\* One term changes, the others stay.
LEMMA SumChange ==
  ASSUME NEW S, IsFiniteSet(S), NEW x \in S,
         NEW f, \A y \in S : f[y] \in Int, NEW g, \A y \in S : g[y] \in Int,
         \A y \in S \ {x} : g[y] = f[y]
  PROVE  Sum(g, S) = Sum(f, S) - f[x] + g[x]
<1>1. IsFiniteSet(S \ {x})
  BY FS_Subset
<1>2. Sum(f, S \ {x}) = Sum(g, S \ {x})
  BY <1>1, SumSame
<1>3. Sum(f, S) = f[x] + Sum(f, S \ {x}) /\ Sum(g, S) = g[x] + Sum(g, S \ {x})
  BY SumTakeOut
<1>4. Sum(f, S \ {x}) \in Int
  BY <1>1, SumType
<1> QED BY <1>2, <1>3, <1>4

\* An element is added.
LEMMA SumAdd ==
  ASSUME NEW S, IsFiniteSet(S), NEW x, x \notin S,
         NEW f, \A y \in S \cup {x} : f[y] \in Int
  PROVE  Sum(f, S \cup {x}) = Sum(f, S) + f[x]
<1>1. IsFiniteSet(S \cup {x})
  BY FS_AddElement
<1>2. Sum(f, S \cup {x}) = f[x] + Sum(f, (S \cup {x}) \ {x})
  BY <1>1, SumTakeOut
<1>3. Sum(f, (S \cup {x}) \ {x}) = Sum(f, S)
  <2>1. (S \cup {x}) \ {x} = S
    OBVIOUS
  <2> QED BY <2>1
<1>4. Sum(f, S) \in Int /\ f[x] \in Int
  BY SumType
<1> QED BY <1>2, <1>3, <1>4

\* Of terms that are not negative, a larger set has no smaller sum.
LEMMA SumMonotone ==
  ASSUME NEW S, IsFiniteSet(S), NEW T \in SUBSET S, NEW f, \A x \in S : f[x] \in Nat
  PROVE  Sum(f, T) \in Nat /\ Sum(f, T) <= Sum(f, S)
<1> DEFINE Fine(R) == Sum(f, R) \in Nat /\ (T \subseteq R => Sum(f, T) <= Sum(f, R))
           Bad == {R \in SUBSET S : ~ Fine(R)}
<1>1. ASSUME Bad # {} PROVE FALSE
  <2>1. PICK R \in Bad : \A Q \in Bad : Q \subseteq R => Q = R
    <3>1. Bad \in SUBSET SUBSET S
      OBVIOUS
    <3> HIDE DEF Bad
    <3> QED BY <1>1, <3>1, SmallestSet
  <2>2. IsFiniteSet(R)
    BY <2>1, FS_Subset
  <2>3. \A x \in R : f[x] \in Nat /\ f[x] \in Int
    BY <2>1
  <2>4. \A Q \in SUBSET R : Q # R => Fine(Q)
    BY <2>1
  <2>5. \A x \in R : Sum(f, R) = f[x] + Sum(f, R \ {x}) /\ Fine(R \ {x})
    <3> HIDE DEF Fine
    <3> QED BY <2>2, <2>3, <2>4, SumTakeOut
  <2>6. Sum(f, R) \in Nat
    <3>1. CASE R = {}
      BY <3>1, SumEmpty
    <3>2. CASE R # {}
      <4>1. PICK x \in R : TRUE
        BY <3>2
      <4>2. Sum(f, R) = f[x] + Sum(f, R \ {x}) /\ Sum(f, R \ {x}) \in Nat
        BY <2>5
      <4>3. f[x] \in Nat
        BY <2>3
      <4> QED BY <4>2, <4>3
    <3> QED BY <3>1, <3>2
  <2>7. ASSUME T \subseteq R PROVE Sum(f, T) <= Sum(f, R)
    <3>1. CASE T = R
      BY <2>6, <3>1
    <3>2. CASE T # R
      <4>1. PICK x \in R : x \notin T
        BY <2>7, <3>2
      <4>2. Fine(R \ {x}) /\ Sum(f, R) = f[x] + Sum(f, R \ {x})
        BY <2>5
      <4>3. T \subseteq R \ {x}
        BY <2>7, <4>1
      <4>4. Fine(T)
        BY <2>4, <2>7, <3>2
      <4>5. Sum(f, T) <= Sum(f, R \ {x}) /\ Sum(f, R \ {x}) \in Nat /\ Sum(f, T) \in Nat
        BY <4>2, <4>3, <4>4
      <4>6. f[x] \in Nat
        BY <2>3
      <4> QED BY <4>2, <4>5, <4>6
    <3> QED BY <3>1, <3>2
  <2> QED BY <2>1, <2>6, <2>7
<1>2. \A R \in SUBSET S : Fine(R)
  BY <1>1
<1> QED BY <1>2

\* Terms that are found, one by one, among others sum to no more than those.
LEMMA SumImage ==
  ASSUME NEW S, IsFiniteSet(S), NEW h, \A x, y \in S : h[x] = h[y] => x = y,
         NEW f, NEW g, \A x \in S : f[x] = g[h[x]] /\ f[x] \in Int
  PROVE  Sum(f, S) = Sum(g, {h[x] : x \in S}) /\ IsFiniteSet({h[x] : x \in S})
<1> DEFINE Image(R) == {h[x] : x \in R}
           Fine(R) == Sum(f, R) = Sum(g, Image(R)) /\ IsFiniteSet(Image(R))
           Bad == {R \in SUBSET S : ~ Fine(R)}
<1>1. ASSUME Bad # {} PROVE FALSE
  <2>1. PICK R \in Bad : \A Q \in Bad : Q \subseteq R => Q = R
    <3>1. Bad \in SUBSET SUBSET S
      OBVIOUS
    <3> HIDE DEF Bad
    <3> QED BY <1>1, <3>1, SmallestSet
  <2>2. CASE R = {}
    <3>1. Image(R) = {}
      BY <2>2
    <3>2. Fine(R)
      BY <2>2, <3>1, SumEmpty, FS_EmptySet
    <3> QED BY <2>1, <3>2
  <2>3. CASE R # {}
    <3>1. PICK x \in R : TRUE
      BY <2>3
    <3>2. Fine(R \ {x})
      BY <2>1
    <3>3. Sum(f, R) = f[x] + Sum(f, R \ {x})
      <4>1. IsFiniteSet(R) /\ \A y \in R : f[y] \in Int
        BY <2>1, FS_Subset
      <4> QED BY <4>1, SumTakeOut
    <3>4. Image(R) = Image(R \ {x}) \cup {h[x]} /\ h[x] \notin Image(R \ {x})
      BY <2>1
    <3>5. \A y \in Image(R) : g[y] \in Int
      BY <2>1
    <3>7. PICK T, z : T = Image(R \ {x}) /\ z = h[x]
      OBVIOUS
    <3>8. IsFiniteSet(T) /\ z \notin T /\ \A y \in T \cup {z} : g[y] \in Int
      BY <3>2, <3>4, <3>5, <3>7
    <3>9. Sum(g, T \cup {z}) = Sum(g, T) + g[z] /\ IsFiniteSet(T \cup {z})
      BY <3>8, SumAdd, FS_AddElement
    <3>10. Sum(g, T) = Sum(f, R \ {x}) /\ g[z] = f[x] /\ f[x] \in Int /\ T \cup {z} = Image(R)
      BY <2>1, <3>2, <3>4, <3>7
    <3>11. Sum(f, R \ {x}) \in Int
      <4>1. IsFiniteSet(R \ {x}) /\ \A y \in R \ {x} : f[y] \in Int
        BY <2>1, FS_Subset
      <4> QED BY <4>1, SumType
    <3>12. Fine(R)
      <4> HIDE DEF Image
      <4>1. IsFiniteSet(Image(R))
        BY <3>9, <3>10
      <4>2. Sum(g, Image(R)) = Sum(f, R \ {x}) + f[x]
        BY <3>9, <3>10
      <4>3. f[x] \in Int
        BY <2>1
      <4> QED BY <3>3, <3>11, <4>1, <4>2, <4>3
    <3> QED BY <2>1, <3>12
  <2> QED BY <2>2, <2>3
<1>2. Fine(S)
  BY <1>1
<1> QED BY <1>2

\* MapThenSumSet of the community modules is such a sum.
LEMMA SumIsMapThenSum ==
  ASSUME NEW S, IsFiniteSet(S), NEW f
  PROVE  MapThenSumSet(LAMBDA x : f[x], S) = Sum(f, S)
BY DEF MapThenSumSet, MapThenFoldSet, Sum, Sums, Pick

\* The recursive sum exists over every finite set.
LEMMA SumsExist ==
  ASSUME NEW S, IsFiniteSet(S), NEW f
  PROVE  Sums([Q \in SUBSET S |-> Sum(f, Q)], f, S)
<1> DEFINE h == [Q \in SUBSET S |-> Sum(f, Q)]
<1>1. ASSUME NEW Q \in SUBSET S
      PROVE  h[Q] = IF Q = {} THEN 0 ELSE f[Pick(Q)] + h[Q \ {Pick(Q)}]
  <2>1. IsFiniteSet(Q)
    BY FS_Subset
  <2>2. Sum(f, Q) = IF Q = {} THEN 0 ELSE f[Pick(Q)] + Sum(f, Q \ {Pick(Q)})
    BY <2>1, SumStep
  <2>3. h[Q] = Sum(f, Q) /\ h[Q \ {Pick(Q)}] = Sum(f, Q \ {Pick(Q)})
    OBVIOUS
  <2> HIDE DEF h
  <2> QED BY <2>2, <2>3
<1>2. h = [Q \in SUBSET S |-> h[Q]]
  OBVIOUS
<1> HIDE DEF h
<1>3. Sums(h, f, S)
  BY <1>1, <1>2 DEF Sums
<1> QED BY <1>3 DEF h

\* Whatever satisfies the recursion of a sum is the sum.
LEMMA SumOfSums ==
  ASSUME NEW S, IsFiniteSet(S), NEW f, NEW c, Sums(c, f, S)
  PROVE  c[S] = Sum(f, S)
<1> DEFINE h == [Q \in SUBSET S |-> Sum(f, Q)]
<1>1. Sums(h, f, S)
  BY SumsExist
<1>2. h[S] = Sum(f, S)
  OBVIOUS
<1> HIDE DEF h
<1>3. c = h
  BY <1>1, SumsUnique
<1> QED BY <1>2, <1>3

\* A sum in which two terms change.
LEMMA SumChangeTwo ==
  ASSUME NEW S, IsFiniteSet(S), NEW a \in S, NEW b \in S, a # b,
         NEW f, \A y \in S : f[y] \in Int, NEW g, \A y \in S : g[y] \in Int,
         \A y \in S \ {a, b} : g[y] = f[y]
  PROVE  /\ Sum(f, S) \in Int
         /\ Sum(g, S) = Sum(f, S) + (g[a] - f[a]) + (g[b] - f[b])
<1> DEFINE h == [y \in S |-> IF y = a THEN g[a] ELSE f[y]]
<1>1. /\ \A y \in S : h[y] \in Int
      /\ \A y \in S \ {a} : h[y] = f[y]
      /\ h[a] = g[a] /\ h[b] = f[b]
      /\ \A y \in S \ {b} : g[y] = h[y]
  OBVIOUS
<1> HIDE DEF h
<1>2. Sum(h, S) = Sum(f, S) - f[a] + h[a]
  BY <1>1, SumChange
<1>3. Sum(g, S) = Sum(h, S) - h[b] + g[b]
  BY <1>1, SumChange
<1>4. Sum(f, S) \in Int /\ Sum(h, S) \in Int
  BY <1>1, SumType
<1>5. f[a] \in Int /\ f[b] \in Int /\ g[a] \in Int /\ g[b] \in Int
  OBVIOUS
<1> QED BY <1>1, <1>2, <1>3, <1>4, <1>5

-----------------------------------------------------------------------------
(* Filters of sequences.                                                   *)

\* Each place that is kept is the one for exactly one number.
LEMMA PlacesAreRanks ==
  ASSUME NEW n \in Nat, NEW kept \in SUBSET (1 .. n)
  PROVE  /\ IsFiniteSet(kept) /\ Cardinality(kept) \in Nat
         /\ \A i \in 1 .. Cardinality(kept) : Place(kept, i) \in kept
         /\ \A i, j \in 1 .. Cardinality(kept) : Place(kept, i) = Place(kept, j) => i = j
         /\ \A k \in kept : \E i \in 1 .. Cardinality(kept) : Place(kept, i) = k
<1> DEFINE c == Cardinality(kept)
           upTo(k) == {j \in kept : j <= k}
           rank == [k \in kept |-> Cardinality(upTo(k))]
<1>1. IsFiniteSet(kept) /\ c \in Nat
  <2>1. IsFiniteSet(1 .. n)
    BY FS_Interval
  <2>2. IsFiniteSet(kept)
    BY <2>1, FS_Subset
  <2> QED BY <2>2, FS_CardinalityType
<1>2. ASSUME NEW k \in kept PROVE IsFiniteSet(upTo(k)) /\ Cardinality(upTo(k)) \in 1 .. c
  <2>1. IsFiniteSet(upTo(k)) /\ Cardinality(upTo(k)) <= c /\ Cardinality(upTo(k)) \in Nat
    BY <1>1, FS_Subset, FS_CardinalityType
  <2>2. k \in upTo(k)
    OBVIOUS
  <2>3. Cardinality(upTo(k)) # 0
    BY <2>1, <2>2, FS_EmptySet
  <2> HIDE DEF upTo
  <2> QED BY <1>1, <2>1, <2>3
<1>3. ASSUME NEW k \in kept, NEW l \in kept, k < l PROVE Cardinality(upTo(k)) # Cardinality(upTo(l))
  <2>1. upTo(k) \in SUBSET upTo(l) /\ l \in upTo(l) /\ l \notin upTo(k)
    <3>1. kept \subseteq Int
      OBVIOUS
    <3>2. k \in Int /\ l \in Int /\ k < l
      BY <1>3, <3>1
    <3>3. ASSUME NEW j \in upTo(k) PROVE j \in upTo(l)
      <4>1. j \in kept /\ j \in Int /\ j <= k
        BY <3>1
      <4> QED BY <3>2, <4>1
    <3>4. l \in upTo(l) /\ l \notin upTo(k)
      BY <3>2
    <3> HIDE DEF upTo
    <3> QED BY <3>3, <3>4
  <2> HIDE DEF upTo
  <2> QED BY <1>2, <2>1, FS_Subset
<1>4. rank \in [kept -> 1 .. c]
  BY <1>2
<1>5. ASSUME NEW k \in kept, NEW l \in kept, rank[k] = rank[l] PROVE k = l
  <2>1. Cardinality(upTo(k)) = Cardinality(upTo(l))
    BY <1>5
  <2> HIDE DEF upTo
  <2> QED BY <1>3, <2>1
<1>6. IsFiniteSet(1 .. c) /\ Cardinality(1 .. c) = c
  BY <1>1, FS_Interval
<1>7. rank \in Surjection(kept, 1 .. c)
  <2> HIDE DEF rank
  <2>1. rank \in Injection(kept, 1 .. c)
    BY <1>4, <1>5 DEF Injection, IsInjective
  <2> QED BY <1>6, <2>1, FS_Injection
<1>8. ASSUME NEW i \in 1 .. c PROVE Place(kept, i) \in kept /\ rank[Place(kept, i)] = i
  <2>1. \E k \in kept : rank[k] = i
    BY <1>7 DEF Surjection
  <2> QED BY <2>1 DEF Place
<1>9. ASSUME NEW k \in kept PROVE rank[k] \in 1 .. c /\ Place(kept, rank[k]) = k
  BY <1>4, <1>5, <1>8
<1> HIDE DEF rank, c
<1> QED BY <1>1, <1>8, <1>9 DEF c

\* What a filter keeps: each element it is asked to, once.
LEMMA FilterKeeps ==
  ASSUME NEW S, NEW s \in Seq(S), NEW kept \in SUBSET DOMAIN s, NEW r, r = Filtered(s, kept)
  PROVE  /\ r \in Seq(S) /\ Len(r) = Cardinality(kept) /\ Len(r) \in Nat
         /\ \A i \in 1 .. Len(r) : Place(kept, i) \in kept /\ r[i] = s[Place(kept, i)]
         /\ \A i, j \in 1 .. Len(r) : Place(kept, i) = Place(kept, j) => i = j
         /\ \A k \in kept : \E i \in 1 .. Len(r) : Place(kept, i) = k /\ r[i] = s[k]
<1>1. DOMAIN s = 1 .. Len(s) /\ Len(s) \in Nat /\ \A k \in 1 .. Len(s) : s[k] \in S
  BY ElementOfSeq, LenProperties
<1>2. /\ Cardinality(kept) \in Nat
      /\ \A i \in 1 .. Cardinality(kept) : Place(kept, i) \in kept
      /\ \A i, j \in 1 .. Cardinality(kept) : Place(kept, i) = Place(kept, j) => i = j
      /\ \A k \in kept : \E i \in 1 .. Cardinality(kept) : Place(kept, i) = k
  BY <1>1, PlacesAreRanks
<1>3. PICK c \in Nat : c = Cardinality(kept)
  BY <1>2
<1>4. r = [i \in 1 .. c |-> s[Place(kept, i)]]
  BY <1>3 DEF Filtered
<1>5. \A i \in 1 .. c : s[Place(kept, i)] \in S
  BY <1>1, <1>2, <1>3
<1>6. r \in Seq(S) /\ Len(r) = c
  BY <1>4, <1>5
<1>7. \A i \in 1 .. c : r[i] = s[Place(kept, i)]
  BY <1>4
<1> QED BY <1>2, <1>3, <1>6, <1>7
=============================================================================
