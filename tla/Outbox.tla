------------------------------- MODULE Outbox -------------------------------
(***************************************************************************)
(* The durable settlement outbox: advanceSettlement of                     *)
(* apps/backend/src/services/oracle-submit.ts over the SettlementStore of  *)
(* apps/backend/src/store/settlement-store.ts, against a chain that may be *)
(* slow, lossy and forgetful, with the process crashing between any two    *)
(* awaits.                                                                 *)
(*                                                                         *)
(* The worker that calls advanceSettlement is not in src/; it is external: *)
(* it enqueues matches, persists the verified outcome and advances one     *)
(* record at a time, as read from the store.                               *)
(***************************************************************************)
EXTENDS Integers, FiniteSets

CONSTANTS
  Matches,
  Results,     \* Player1Wins, Player2Wins, Draw
  None,        \* undefined
  Followed,    \* bound: matches whose fate the liveness property follows
  MaxRejections, \* bound: awaits that reject, and crashes
  MaxTx        \* bound: transactions ever prepared

ASSUME OutboxAssumption ==
  /\ Followed \subseteq Matches
  /\ MaxTx \in Nat
  /\ MaxRejections \in Nat
  /\ None \notin Matches \cup Results \cup Nat

Hashes == 1 .. MaxTx

VARIABLES
  row,       \* settlements table: the record of each match, None if absent
  call,      \* the advanceSettlement in progress, None between calls
  tx,        \* transactions prepared so far, by hash: what their bytes say
  mempool,   \* hashes the network has received
  chain,     \* status of each hash on the ledger
  sequence,  \* the signing account's next sequence number
  escrow,    \* result the escrow holds for each match; "closed" if cancelled
  overdue,   \* hashes whose expiresAt the backend's clock has passed
  expired,   \* hashes past maxTime on the ledger's clock
  rejections \* awaits that rejected, and crashes

vars == <<row, call, tx, mempool, chain, sequence, escrow, overdue, expired, rejections>>
networkVars == <<tx, mempool, chain, sequence, escrow, overdue, expired>>
chainVars == <<networkVars, rejections>>

\* SettlementRecord
Record ==
  [state : {"active", "pending", "submitted", "confirmed", "quarantined"},
   submission : Results \cup {None}, transaction : Hashes \cup {None}]
NewRecord == [state |-> "active", submission |-> None, transaction |-> None]
Statuses == {"SUCCESS", "FAILED", "NOT_FOUND"}

Transaction == [match : Matches, result : Results, sequence : Nat]
Points == {"prepare", "save prepared", "status", "save before send", "send",
           "status after send", "save"}
Calls == [match : Matches, record : Record, at : Points]
ASSUME NoneIsNoRecord == None \notin Record \cup Transaction \cup Calls

Prepared == {h \in Hashes : tx[h] # None}
Terminal == {"confirmed", "quarantined"}

Init ==
  /\ row = [m \in Matches |-> None]
  /\ call = None
  /\ tx = [h \in Hashes |-> None]
  /\ mempool = {}
  /\ chain = [h \in Hashes |-> "NOT_FOUND"]
  /\ sequence = 0
  /\ escrow = [m \in Matches |-> None]
  /\ overdue = {}
  /\ expired = {}
  /\ rejections = 0

-----------------------------------------------------------------------------
(* The worker's side of the store *)

\* INSERT OR IGNORE: a record that exists, terminal or not, is kept.
Enqueue(m) ==
  /\ call = None
  /\ row' = IF row[m] = None
            THEN [row EXCEPT ![m] = NewRecord]
            ELSE row
  /\ UNCHANGED <<call, chainVars>>

\* The verified outcome is saved before anything is prepared.
SaveOutcome(m, r) ==
  /\ call = None
  /\ row[m] # None /\ row[m].state = "active"
  /\ row' = [row EXCEPT ![m].state = "pending", ![m].submission = r]
  /\ UNCHANGED <<call, chainVars>>

-----------------------------------------------------------------------------
(* advanceSettlement; `call.record` is its copy of the record *)

Goto(rec, point) == call' = [match |-> call.match, record |-> rec, at |-> point]
At(point) == call # None /\ call.at = point
Return == call' = None

\* Nothing to do for a terminal record or one without an outcome.
Advance(m) ==
  /\ call = None
  /\ row[m] # None
  /\ row[m].state \notin Terminal
  /\ row[m].submission # None
  /\ call' = [match |-> m, record |-> row[m],
              at |-> IF row[m].transaction = None THEN "prepare" ELSE "status"]
  /\ UNCHANGED <<row, chainVars>>

\* Any await may reject, also one that would have resolved; the caller drops
\* its copy.
Throw ==
  /\ call # None
  /\ rejections < MaxRejections
  /\ rejections' = rejections + 1
  /\ Return
  /\ UNCHANGED <<row, networkVars>>

\* Simulation fails unless the escrow would accept the result (or the model
\* has no hash left).
PrepareRefused ==
  /\ At("prepare")
  /\ escrow[call.match] # None \/ Prepared = Hashes
  /\ Return
  /\ UNCHANGED <<row, chainVars>>
Prepare ==
  /\ At("prepare")
  /\ escrow[call.match] = None
  /\ \E h \in Hashes \ Prepared :
       /\ \A i \in Hashes : i < h => i \in Prepared
       /\ tx' = [tx EXCEPT ![h] = [match |-> call.match,
                                   result |-> call.record.submission,
                                   sequence |-> sequence]]
       /\ Goto([call.record EXCEPT !.transaction = h, !.state = "submitted"],
               "save prepared")
  /\ UNCHANGED <<row, mempool, chain, sequence, escrow, overdue, expired, rejections>>

SavePrepared ==
  /\ At("save prepared")
  /\ row' = [row EXCEPT ![call.match] = call.record]
  /\ Goto(call.record, "status")
  /\ UNCHANGED chainVars

\* getTransaction: the node may not know a hash yet, or any more.
StatusOf(h, status) == status \in {chain[h], "NOT_FOUND"}

Quarantine_Forgets(rec) == [rec EXCEPT !.state = "quarantined", !.transaction = None]
Quarantine(rec) == [rec EXCEPT !.state = "quarantined"]

ExpiredUnknown_Reprepare(rec) == [rec EXCEPT !.state = "pending", !.transaction = None]
ExpiredUnknown(rec) == Quarantine(rec)

ConfirmedBy(status) == status = "SUCCESS"

Status(status) ==
  /\ At("status")
  /\ LET rec == call.record IN
       /\ StatusOf(rec.transaction, status)
       /\ IF ConfirmedBy(status) THEN Goto([rec EXCEPT !.state = "confirmed"], "save")
          ELSE IF status = "FAILED" THEN Goto(Quarantine(rec), "save")
          ELSE IF rec.transaction \in overdue THEN Goto(ExpiredUnknown(rec), "save")
          ELSE Goto(rec, "save before send")
  /\ UNCHANGED <<row, chainVars>>

SaveBeforeSend ==
  /\ At("save before send")
  /\ row' = [row EXCEPT ![call.match] = call.record]
  /\ Goto(call.record, "send")
  /\ UNCHANGED chainVars

\* The bytes reach the network; the answer, if any, allows the next await.
Send ==
  /\ At("send")
  /\ mempool' = mempool \cup {call.record.transaction}
  /\ \/ Goto(call.record, "status after send")
     \/ Return
  /\ UNCHANGED <<row, tx, chain, sequence, escrow, overdue, expired, rejections>>

StatusAfterSend(status) ==
  /\ At("status after send")
  /\ LET rec == call.record IN
       /\ StatusOf(rec.transaction, status)
       /\ IF ConfirmedBy(status) THEN Goto([rec EXCEPT !.state = "confirmed"], "save")
          ELSE IF status = "FAILED" THEN Goto(Quarantine(rec), "save")
          ELSE Goto(rec, "save")
  /\ UNCHANGED <<row, chainVars>>

Save ==
  /\ At("save")
  /\ row' = [row EXCEPT ![call.match] = call.record]
  /\ Return
  /\ UNCHANGED chainVars

-----------------------------------------------------------------------------
(* The network, the clocks and the escrow (external) *)

\* A transaction is applied with its account's sequence number, in time, at
\* most once; the escrow refuses a second result or a closed match.
Apply(h) ==
  /\ h \in mempool /\ chain[h] = "NOT_FOUND"
  /\ h \notin expired
  /\ tx[h].sequence = sequence
  /\ sequence' = sequence + 1
  /\ IF escrow[tx[h].match] = None
     THEN /\ chain' = [chain EXCEPT ![h] = "SUCCESS"]
          /\ escrow' = [escrow EXCEPT ![tx[h].match] = tx[h].result]
     ELSE /\ chain' = [chain EXCEPT ![h] = "FAILED"]
          /\ UNCHANGED escrow
  /\ UNCHANGED <<row, call, tx, mempool, overdue, expired, rejections>>

LedgerExpires(h) ==
  /\ h \in Prepared
  /\ expired' = expired \cup {h}
  /\ UNCHANGED <<row, call, tx, mempool, chain, sequence, escrow, overdue, rejections>>

ClockExpires(h) ==
  /\ h \in Prepared
  /\ overdue' = overdue \cup {h}
  /\ UNCHANGED <<row, call, tx, mempool, chain, sequence, escrow, expired, rejections>>

\* The players cancel or time the match out.
MatchCloses(m) ==
  /\ escrow[m] = None
  /\ escrow' = [escrow EXCEPT ![m] = "closed"]
  /\ UNCHANGED <<row, call, tx, mempool, chain, sequence, overdue, expired, rejections>>

\* A crash loses the call and keeps the table: the same step as Throw.
CallNext ==
  \/ PrepareRefused \/ Prepare \/ SavePrepared \/ SaveBeforeSend \/ Send \/ Save
  \/ \E s \in Statuses : Status(s) \/ StatusAfterSend(s)

Next ==
  \/ CallNext
  \/ Throw
  \/ \E m \in Matches : Enqueue(m) \/ Advance(m) \/ MatchCloses(m)
  \/ \E m \in Matches, r \in Results : SaveOutcome(m, r)
  \/ \E h \in Hashes : Apply(h) \/ LedgerExpires(h) \/ ClockExpires(h)

Spec == Init /\ [][Next]_vars

\* No await hangs, clocks move, and the records of the followed matches are
\* advanced again and again; with finitely many rejections.
Fairness ==
  /\ WF_vars(CallNext)
  /\ \A h \in Hashes : WF_vars(ClockExpires(h))
  /\ \A m \in Followed : SF_vars(Advance(m))
FairSpec == Spec /\ Fairness

-----------------------------------------------------------------------------
\* What was broadcast can be found again after any crash: the record of its
\* match holds the same hash, whose bytes carry the record's outcome
\* (advanceSettlement: "a hash and signed envelope are committed before
\* broadcast").
SentIsSaved ==
  \A h \in mempool :
    /\ row[tx[h].match] # None
    /\ row[tx[h].match].transaction = h
    /\ row[tx[h].match].submission = tx[h].result

\* One match never has two different transactions on the network, through
\* crashes, expiry and rebroadcasts, so no replacement can settle it twice
\* ("unknown outcomes only rebroadcast identical bytes").
OneTransactionPerMatch ==
  \A h, i \in mempool : tx[h].match = tx[i].match => h = i

\* The store never claims more than the chain has done: a confirmed record's
\* own transaction succeeded and the escrow holds its outcome.
ConfirmedIsOnChain ==
  \A m \in Matches : row[m] # None /\ row[m].state = "confirmed" =>
    /\ row[m].transaction # None
    /\ chain[row[m].transaction] = "SUCCESS"
    /\ escrow[m] = row[m].submission

\* What the store, the network and the escrow hold of a match agree.
StoreMatchesChain == SentIsSaved /\ ConfirmedIsOnChain

\* A verified outcome is, in the end, confirmed or put before an operator,
\* unless the match closes before its transaction is prepared and saved (or
\* the model has no hash left for it).
Decided(m) == row[m] # None /\ row[m].state \in Terminal
Awaited(m) == row[m] # None /\ row[m].submission # None
Hopeless(m) ==
  /\ Awaited(m) /\ row[m].transaction = None
  /\ escrow[m] = "closed" \/ Prepared = Hashes
OutcomesGetDecided ==
  \A m \in Followed : Awaited(m) ~> (Decided(m) \/ Hopeless(m))
=============================================================================
