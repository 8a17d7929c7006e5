------------------------- MODULE TransactionSponsor -------------------------
(***************************************************************************)
(* Fee sponsorship (apps/backend/src/services/transaction-sponsor.ts):     *)
(* requests reserve the fee of a player's transaction in a SQLite file     *)
(* before it is signed and sent.  Every request opens the file for itself, *)
(* so requests of several processes meet at the file only.                 *)
(***************************************************************************)
EXTENDS Integers, FiniteSets, FiniteSetsExt

CONSTANTS
  Requests,            \* calls of sponsorTransaction
  Transactions,        \* well-formed transactions players may sign
  Source, Sequence, Fee,   \* of a transaction
  Sponsored,           \* policy.players
  MaxFee, DailyBudget, DailyPlayerLimit,
  None,
  LastDay              \* bound: days the clock runs

SponsorAssumption ==
  /\ DOMAIN Source = Transactions /\ DOMAIN Sequence = Transactions
  /\ Fee \in [Transactions -> Nat \ {0}]
  /\ MaxFee \in Nat \ {0} /\ DailyBudget \in Nat \ {0}
  /\ DailyPlayerLimit \in Nat \ {0} /\ LastDay \in Nat
  /\ None \notin Requests

VARIABLES
  today,          \* Math.floor(now / 86400)
  request,        \* where each call stands, with its transaction and its day
  writer,         \* the connection that holds SQLite's write lock
  sponsorships,   \* committed rows
  bumped          \* history: fee bumps sent, with the call that sent them

sponsorVars == <<today, request, writer, sponsorships, bumped>>

Unused == [at |-> "unused", transaction |-> None, day |-> None]
Over == [Unused EXCEPT !.at = "over"]

Init ==
  /\ today = 0
  /\ request = [r \in Requests |-> Unused]
  /\ writer = None
  /\ sponsorships = {} /\ bumped = {}

At(r, place) == request[r].at = place
Goes(r, place) == request' = [request EXCEPT ![r].at = place]

\* The checks of sponsorTransaction before the reservation; `now` is read
\* once, before the first await.
Eligible(t) == Source[t] \in Sponsored /\ Fee[t] <= MaxFee
SponsorTransaction(r, t) ==
  /\ At(r, "unused")
  /\ Eligible(t)
  /\ request' = [request EXCEPT ![r] = [at |-> "opening", transaction |-> t, day |-> today]]
  /\ UNCHANGED <<today, writer, sponsorships, bumped>>

\* BEGIN IMMEDIATE waits up to busyTimeout for the write lock.
BeginImmediate_Deferred(r) ==
  /\ At(r, "opening")
  /\ Goes(r, "checking")
  /\ UNCHANGED <<today, writer, sponsorships, bumped>>
BeginImmediate(r) ==
  /\ At(r, "opening")
  /\ writer = None
  /\ writer' = r
  /\ Goes(r, "checking")
  /\ UNCHANGED <<today, sponsorships, bumped>>

\* ROLLBACK or COMMIT, and the connection closes.
Release(r) == writer' = IF writer = r THEN None ELSE writer

TotalFee(rows) == MapThenSumSet(LAMBDA s : Fee[s.transaction], rows)
RowsOf(day) == {s \in sponsorships : s.day = day}

\* The two SELECTs.
WithinLimits(r) ==
  LET t == request[r].transaction
      rows == RowsOf(request[r].day) IN
    /\ TotalFee(rows) + Fee[t] <= DailyBudget
    /\ Cardinality({s \in rows : Source[s.transaction] = Source[t]}) < DailyPlayerLimit
CheckLimits(r) ==
  /\ At(r, "checking")
  /\ \/ WithinLimits(r) /\ Goes(r, "inserting") /\ UNCHANGED writer
     \/ ~ WithinLimits(r) /\ request' = [request EXCEPT ![r] = Over] /\ Release(r)
  /\ UNCHANGED <<today, sponsorships, bumped>>

\* PRIMARY KEY (hash) and UNIQUE (source, sequence).
SameSlot(t, u) == Source[t] = Source[u] /\ Sequence[t] = Sequence[u]
Taken(t) == \E s \in sponsorships : SameSlot(s.transaction, t)
Insert(r) ==
  /\ At(r, "inserting")
  /\ IF Taken(request[r].transaction)
     THEN request' = [request EXCEPT ![r] = Over] /\ Release(r)
     ELSE Goes(r, "committing") /\ UNCHANGED writer
  /\ UNCHANGED <<today, sponsorships, bumped>>

Commit(r) ==
  /\ At(r, "committing")
  /\ sponsorships' = sponsorships \cup
       {[transaction |-> request[r].transaction, day |-> request[r].day]}
  /\ Goes(r, "sending")
  /\ Release(r)
  /\ UNCHANGED <<today, bumped>>

\* A statement fails, or the lock stays taken past busyTimeout.
ReserveFails(r) ==
  /\ request[r].at \in {"opening", "checking", "inserting", "committing"}
  /\ request' = [request EXCEPT ![r] = Over]
  /\ Release(r)
  /\ UNCHANGED <<today, sponsorships, bumped>>

\* The fee bump is signed and submitted.  Whatever the answer, and whether or
\* not it got there, the reservation is retained.
Submit(r) ==
  /\ At(r, "sending")
  /\ request' = [request EXCEPT ![r] = Over]
  /\ \/ bumped' = bumped \cup {[request[r] EXCEPT !.at = r]}
     \/ UNCHANGED bumped
  /\ UNCHANGED <<today, writer, sponsorships>>

\* The process of a request dies; SQLite forgets its transaction.
Crash(r) ==
  /\ request[r].at \notin {"unused", "over"}
  /\ request' = [request EXCEPT ![r] = Over]
  /\ Release(r)
  /\ UNCHANGED <<today, sponsorships, bumped>>

Midnight ==
  /\ today < LastDay
  /\ today' = today + 1
  /\ UNCHANGED <<request, writer, sponsorships, bumped>>

Next ==
  \/ Midnight
  \/ \E r \in Requests :
       \/ \E t \in Transactions : SponsorTransaction(r, t)
       \/ BeginImmediate(r) \/ CheckLimits(r) \/ Insert(r) \/ Commit(r)
       \/ ReserveFails(r) \/ Submit(r) \/ Crash(r)

Spec == Init /\ [][Next]_sponsorVars

-----------------------------------------------------------------------------
\* What the sponsor signs away stays within its policy, however requests,
\* failures and crashes interleave ("UNIQUE(source, sequence) and hash guard
\* concurrent calls and process restarts"): the fees of a day's requests are
\* within the daily budget, no player gets more than the daily limit, and no
\* sequence number of a player is bumped twice.
SpendWithinPolicy ==
  /\ \A day \in 0 .. LastDay :
       LET sent == {b \in bumped : b.day = day} IN
         /\ TotalFee(sent) <= DailyBudget
         /\ \A p \in Sponsored :
              Cardinality({b \in sent : Source[b.transaction] = p}) <= DailyPlayerLimit
  /\ \A b, c \in bumped : SameSlot(b.transaction, c.transaction) => b = c
=============================================================================
