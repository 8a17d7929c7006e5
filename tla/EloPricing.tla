------------------------------ MODULE EloPricing ------------------------------
(***************************************************************************)
(* The price of a match by its players' ratings: apps/backend/src/         *)
(* services/elo.ts and elo-multiplier.ts, with the defaults of the         *)
(* configuration, which nothing overrides.  Ratings are whole numbers, and *)
(* multipliers are counted in hundredths.                                  *)
(*                                                                         *)
(* The code computes with floating point and truncates at every step.      *)
(* Where the exact value is whole the computed one may lie just below it,  *)
(* and one less is left (1.15 * 100 is 114.99...); elsewhere the exact     *)
(* value is too far from the next whole number to reach it, with stakes    *)
(* below 10^13.  Each operator gives the set of values that may come out.  *)
(***************************************************************************)
EXTENDS Integers, Sequences

CONSTANTS None  \* a rating that is not known

MIN_ELO == 800
MAX_ELO == 2800
BASE_MULTIPLIER == 100
MAX_MULTIPLIER == 200

\* The first variant of the preference the player has a rating in.
RATING_VARIANT_PREFERENCE == <<"blitz", "bullet", "rapid", "classical">>
selectRating(perfs) ==
  LET Rated(i) == perfs[RATING_VARIANT_PREFERENCE[i]] # None IN
  IF ~ \E i \in 1 .. 4 : Rated(i) THEN None
  ELSE perfs[RATING_VARIANT_PREFERENCE[
         CHOOSE i \in 1 .. 4 : Rated(i) /\ \A j \in 1 .. i - 1 : ~ Rated(j)]]

\* A lookup that fails for any reason gives no rating.
fetchLichessElo(answers, perfs) == IF answers THEN selectRating(perfs) ELSE None

truncate(n, d) == {n \div d} \cup (IF n % d = 0 THEN {n \div d - 1} ELSE {})

\* base + headroom * (max - base), the headroom being the average's share of the
\* way from MIN_ELO to MAX_ELO; the ends are exact.
Uplift(total) == (total - 2 * MIN_ELO) * (MAX_MULTIPLIER - BASE_MULTIPLIER)
calculateEloMultiplier(player1Elo, player2Elo) ==
  LET total == player1Elo + player2Elo IN
  IF total <= 2 * MIN_ELO THEN {BASE_MULTIPLIER}
  ELSE IF total >= 2 * MAX_ELO THEN {MAX_MULTIPLIER}
  ELSE {BASE_MULTIPLIER + t : t \in truncate(Uplift(total), 2 * (MAX_ELO - MIN_ELO))}

\* The multiplier has its two decimals already and is truncated to two again,
\* which may cost another hundredth (1.15 becomes 1.14, then 1.13).
TruncatedAgain(m) == IF m % 100 = 0 THEN {m} ELSE truncate(m, 1)
resolveMultiplier(player1Elo, player2Elo) ==
  IF None \in {player1Elo, player2Elo} THEN {BASE_MULTIPLIER}
  ELSE UNION {TruncatedAgain(m) : m \in calculateEloMultiplier(player1Elo, player2Elo)}

\* Math.floor(baseStake * multiplier); a multiplier of one is exact.
applyEloMultiplier(baseStake, multiplier) ==
  IF multiplier % 100 = 0 THEN {baseStake * (multiplier \div 100)}
  ELSE truncate(baseStake * multiplier, 100)
=============================================================================
