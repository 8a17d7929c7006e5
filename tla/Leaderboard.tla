---------------------------- MODULE Leaderboard ----------------------------
(***************************************************************************)
(* The leaderboard contract (contracts/leaderboard/src/lib.rs): results    *)
(* recorded by trusted sources, and the ranking it pages out.  The         *)
(* contract is initialised; players are numbered in the order of their     *)
(* addresses; the token of a record is left out.                           *)
(***************************************************************************)
EXTENDS Integers, FiniteSetsExt, SequencesExt, Filters

CONSTANTS
  Players,      \* numbers, ordered as the addresses are
  SourceSet, FirstSource,
  Payouts,
  MaxU32,       \* u32::MAX
  MAX_PAGE_SIZE

LeaderboardAssumption ==
  /\ Players \subseteq Nat /\ IsFiniteSet(Players) /\ Payouts \subseteq Nat
  /\ FirstSource \in SourceSet
  /\ MaxU32 \in Nat /\ MAX_PAGE_SIZE \in Nat \ {0}

VARIABLES
  stats,        \* DataKey::Stats, empty() for a player never seen
  roster,       \* DataKey::Roster
  sources,      \* the addresses with a DataKey::Sources entry
  paused,       \* DataKey::Paused
  resultCount,  \* DataKey::ResultCount
  recorded      \* history: record_result calls that succeeded

vars == <<stats, roster, sources, paused, resultCount, recorded>>

Outcomes == {"Player1Won", "Player2Won", "Draw"}
empty == [wins |-> 0, losses |-> 0, draws |-> 0, earnings |-> 0]
matches_played(s) == s.wins + s.losses + s.draws

Init ==
  /\ stats = [p \in Players |-> empty]
  /\ roster = << >>
  /\ sources = {FirstSource}
  /\ paused = FALSE
  /\ resultCount = 0
  /\ recorded = 0

-----------------------------------------------------------------------------
(* The admin's calls.                                                      *)

add_source(s) ==
  /\ sources' = sources \cup {s}
  /\ UNCHANGED <<stats, roster, paused, resultCount, recorded>>

remove_source(s) ==
  /\ s \in sources
  /\ sources' = sources \ {s}
  /\ UNCHANGED <<stats, roster, paused, resultCount, recorded>>

set_paused(b) ==
  /\ paused' = b
  /\ UNCHANGED <<stats, roster, sources, resultCount, recorded>>

-----------------------------------------------------------------------------
(* record_result                                                           *)

Won(s, payout) == [s EXCEPT !.wins = @ + 1, !.earnings = @ + payout]
Lost(s) == [s EXCEPT !.losses = @ + 1]
Drew(s) == [s EXCEPT !.draws = @ + 1]

After(p1, p2, outcome, payout) ==
  CASE outcome = "Player1Won" -> [stats EXCEPT ![p1] = Won(@, payout), ![p2] = Lost(@)]
    [] outcome = "Player2Won" -> [stats EXCEPT ![p2] = Won(@, payout), ![p1] = Lost(@)]
    [] outcome = "Draw" -> [stats EXCEPT ![p1] = Drew(@), ![p2] = Drew(@)]

add_to_roster(r, p) == IF p \in ToSet(r) THEN r ELSE Append(r, p)

\* resultCount saturates; a count of a player's that would pass u32::MAX
\* panics and the call leaves nothing behind.
Saturated(n) == Min({n + 1, MaxU32})

record_result(caller, p1, p2, outcome, payout) ==
  /\ caller \in sources
  /\ ~ paused
  /\ p1 # p2
  /\ LET new == After(p1, p2, outcome, payout) IN
       /\ \A p \in {p1, p2} : Max({new[p].wins, new[p].losses, new[p].draws}) <= MaxU32
       /\ stats' = new
  /\ roster' = add_to_roster(add_to_roster(roster, p1), p2)
  /\ resultCount' = Saturated(resultCount)
  /\ recorded' = recorded + 1
  /\ UNCHANGED <<sources, paused>>

-----------------------------------------------------------------------------
(* get_leaderboard                                                         *)

\* Whether a row sorts after another: wins, then earnings, then address.
ranks_after_NoTieBreak(a, b) ==
  \/ a.stats.wins < b.stats.wins
  \/ a.stats.wins = b.stats.wins /\ a.stats.earnings < b.stats.earnings
ranks_after(a, b) ==
  \/ a.stats.wins < b.stats.wins
  \/ a.stats.wins = b.stats.wins /\ a.stats.earnings < b.stats.earnings
  \/ /\ a.stats.wins = b.stats.wins /\ a.stats.earnings = b.stats.earnings
     /\ a.player > b.player

\* Insertion sort: the i-th row moves left past every row that ranks after it.
Inserted(board, row) ==
  LET stays == {j \in DOMAIN board : ~ ranks_after(board[j], row)}
  IN  InsertAt(board, Max(stays \cup {0}) + 1, row)
Board ==
  LET rows == [i \in DOMAIN roster |-> [player |-> roster[i], stats |-> stats[roster[i]]]]
      played == Filtered(rows, {i \in DOMAIN rows : matches_played(rows[i].stats) > 0})
      sorted[i \in 0 .. Len(played)] ==
        IF i = 0 THEN << >> ELSE Inserted(sorted[i - 1], played[i])
  IN  sorted[Len(played)]

\* << >> also for an offset past the end, which the code answers with an error.
get_leaderboard(limit, offset) ==
  LET board == Board
  IN  SubSeq(board, offset + 1, Min({Len(board), offset + Min({limit, MAX_PAGE_SIZE})}))

Next ==
  \/ \E s \in SourceSet : add_source(s) \/ remove_source(s)
  \/ \E b \in BOOLEAN : set_paused(b)
  \/ \E s \in SourceSet, p1, p2 \in Players, o \in Outcomes, payout \in Payouts :
       record_result(s, p1, p2, o, payout)

Spec == Init /\ [][Next]_vars

-----------------------------------------------------------------------------
Total(Count(_)) == MapThenSumSet(LAMBDA p : Count(stats[p]), Players)

\* Over all players every win is somebody's loss, every draw has two sides,
\* and the played matches add up to twice the results recorded, which is
\* what ResultCount says until it saturates (record_result).
BooksBalance ==
  /\ Total(LAMBDA s : s.wins) = Total(LAMBDA s : s.losses)
  /\ Total(LAMBDA s : s.draws) % 2 = 0
  /\ Total(matches_played) = 2 * recorded
  /\ resultCount = Min({recorded, MaxU32})

\* Pages of any size, one behind the other, give each player who has played
\* exactly once, in the order of wins, earnings and address ("paging would
\* show duplicates on one page and skip rows on the next").
Better(a, b) ==
  \/ stats[a].wins > stats[b].wins
  \/ stats[a].wins = stats[b].wins /\ stats[a].earnings > stats[b].earnings
  \/ stats[a].wins = stats[b].wins /\ stats[a].earnings = stats[b].earnings /\ a < b
PagesAreTheRanking ==
  \A limit \in 1 .. Cardinality(Players) + 1 :
    LET step == Min({limit, MAX_PAGE_SIZE})
        rows == FlattenSeq([i \in 1 .. Cardinality(Players) + 1 |->
                              get_leaderboard(limit, (i - 1) * step)])
    IN  /\ {rows[i].player : i \in DOMAIN rows}
             = {p \in Players : matches_played(stats[p]) > 0}
        /\ \A i, j \in DOMAIN rows : i < j => Better(rows[i].player, rows[j].player)
=============================================================================
