----------------------------- MODULE MatchPages -----------------------------
(***************************************************************************)
(* list_matches and list_matches_after of the escrow contract              *)
(* (contracts/escrow/src/lib.rs), used by the two reading loops of their   *)
(* doc comments while matches go on being created.                         *)
(***************************************************************************)
EXTENDS Integers, Sequences, FiniteSetsExt

CONSTANTS
  MAX_LIMIT,    \* ids a page may hold
  MaxU64,
  PageLimits,   \* limits the readers ask for
  MaxMatches,   \* bound: matches ever created
  Nothing       \* no reader

PagesAssumption ==
  /\ MAX_LIMIT \in Nat \ {0}
  /\ PageLimits \subseteq 1 .. MAX_LIMIT
  /\ MaxMatches \in Nat /\ MaxU64 \in Nat /\ MaxMatches < MaxU64

VARIABLES
  matchCount,   \* matches created: their ids are 0 .. matchCount - 1
  offsetReader, \* loop over list_matches
  cursorReader  \* loop over list_matches_after

vars == <<matchCount, offsetReader, cursorReader>>

Plus(a, b) == Min({a + b, MaxU64})                  \* saturating_add
Ids(start, end) == [i \in 1 .. end - start |-> start + i - 1]

list_matches(start, limit) ==
  Ids(start, Min({Plus(start, Min({limit, MAX_LIMIT})), matchCount}))

list_matches_after_Skips(after, limit) ==
  LET start == Min({Plus(after, 2), matchCount})
  IN  Ids(start, Min({Plus(start, Min({limit, MAX_LIMIT})), matchCount}))
list_matches_after(after, limit) ==
  LET start == Min({Plus(after, 1), matchCount})
  IN  Ids(start, Min({Plus(start, Min({limit, MAX_LIMIT})), matchCount}))

Init == matchCount = 0 /\ offsetReader = Nothing /\ cursorReader = Nothing

CreateMatch ==
  /\ matchCount < MaxMatches
  /\ matchCount' = matchCount + 1
  /\ UNCHANGED <<offsetReader, cursorReader>>

\* A reader: where it stands, what it has read, how many there were at its start.
Begins(at, limit) ==
  [at |-> at, limit |-> limit, seen |-> << >>, from |-> at, owed |-> matchCount,
   done |-> FALSE]
StartOffset(limit) ==
  /\ offsetReader # Nothing => offsetReader.done
  /\ offsetReader' = Begins(0, limit)
  /\ UNCHANGED <<matchCount, cursorReader>>
StartCursor(cursor, limit) ==
  /\ cursorReader # Nothing => cursorReader.done
  /\ cursorReader' = Begins(cursor, limit)
  /\ UNCHANGED <<matchCount, offsetReader>>

\* Stop at an empty or short page, else go on behind its last id.
ReadOffset ==
  /\ offsetReader # Nothing /\ ~ offsetReader.done
  /\ LET page == list_matches(offsetReader.at, offsetReader.limit) IN
       offsetReader' =
         IF page = << >> THEN [offsetReader EXCEPT !.done = TRUE]
         ELSE [offsetReader EXCEPT !.seen = @ \o page, !.at = page[Len(page)] + 1,
                                   !.done = Len(page) < offsetReader.limit]
  /\ UNCHANGED <<matchCount, cursorReader>>

\* Stop at an empty page, else the last id is the new cursor.
ReadCursor ==
  /\ cursorReader # Nothing /\ ~ cursorReader.done
  /\ LET page == list_matches_after(cursorReader.at, cursorReader.limit) IN
       cursorReader' =
         IF page = << >> THEN [cursorReader EXCEPT !.done = TRUE]
         ELSE [cursorReader EXCEPT !.seen = @ \o page, !.at = page[Len(page)]]
  /\ UNCHANGED <<matchCount, offsetReader>>

Next ==
  \/ CreateMatch \/ ReadOffset \/ ReadCursor
  \/ \E limit \in PageLimits :
       \/ StartOffset(limit)
       \/ \E cursor \in 0 .. matchCount \cup {MaxU64} : StartCursor(cursor, limit)

Spec == Init /\ [][Next]_vars

-----------------------------------------------------------------------------
\* Ids are read in order, each once, and a finished reader has every match
\* that existed when it began, whatever is created between its pages
\* ("Adding new matches does not affect the pagination of earlier pages").
Complete(reader, first) ==
  /\ \A i \in DOMAIN reader.seen : reader.seen[i] = first + i - 1
  /\ reader.done => first + Len(reader.seen) >= reader.owed
PagesMissNothing ==
  /\ offsetReader # Nothing => Complete(offsetReader, 0)
  /\ cursorReader # Nothing => Complete(cursorReader, cursorReader.from + 1)
=============================================================================
