-------------------------- MODULE SettlementProofs --------------------------
(***************************************************************************)
(* Theorems about the two ways a verified result reaches the escrow:       *)
(* Outbox, for every set of matches and results and any number of          *)
(* transactions, rejections and crashes, and DeadLetterQueue, as the       *)
(* queue's part of MCSettlement.                                           *)
(***************************************************************************)
EXTENDS MCSettlement, SumProofs

-----------------------------------------------------------------------------
(* The settlement outbox: Outbox.                                          *)

TypeOK ==
  /\ row \in [Matches -> Record \cup {None}]
  /\ call \in Calls \cup {None}
  /\ tx \in [Hashes -> Transaction \cup {None}]
  /\ mempool \in SUBSET Hashes
  /\ chain \in [Hashes -> {"SUCCESS", "FAILED", "NOT_FOUND"}]
  /\ sequence \in Nat
  /\ escrow \in [Matches -> Results \cup {None, "closed"}]

\* A record's transaction carries the outcome of the record.
Carries(m, rec) ==
  rec.transaction # None =>
    /\ tx[rec.transaction] # None
    /\ tx[rec.transaction].match = m
    /\ tx[rec.transaction].result = rec.submission

RowsCarry ==
  \A m \in Matches : row[m] # None =>
    /\ Carries(m, row[m])
    /\ row[m].state = "active" =>
         row[m].transaction = None /\ row[m].submission = None

\* The call in progress and the row of its match agree, but for a
\* transaction that has been prepared and not saved yet: that one is unsent.
CallAgrees ==
  call # None =>
    /\ row[call.match] # None
    /\ call.record.submission # None
    /\ call.record.submission = row[call.match].submission
    /\ Carries(call.match, call.record)
    /\ call.at = "prepare" =>
         call.record.transaction = None /\ row[call.match].transaction = None
    /\ call.at = "save prepared" =>
         /\ row[call.match].transaction = None
         /\ call.record.transaction \notin mempool
    /\ call.at # "prepare" => call.record.transaction # None
    /\ call.at \notin {"prepare", "save prepared"} =>
         row[call.match].transaction = call.record.transaction
    /\ call.at # "save" => call.record.state # "confirmed"
    /\ call.record.state # "active"

\* What succeeded is what the escrow holds; nothing is sent unprepared.
ChainAgrees ==
  /\ \A h \in Hashes : chain[h] = "SUCCESS" =>
       tx[h] # None /\ escrow[tx[h].match] = tx[h].result
  /\ \A h \in mempool : tx[h] # None

\* A confirmation that is being saved is one of the chain.
ConfirmationIsTrue ==
  call # None /\ call.record.state = "confirmed" =>
    chain[call.record.transaction] = "SUCCESS"

IInv ==
  /\ TypeOK /\ RowsCarry /\ CallAgrees /\ ChainAgrees /\ ConfirmationIsTrue
  /\ SentIsSaved /\ ConfirmedIsOnChain

LEMMA InitIInv == Init => IInv
<1> SUFFICES ASSUME Init PROVE IInv
  OBVIOUS
<1>1. TypeOK
  BY DEF Init, TypeOK
<1> QED
  BY <1>1 DEF Init, IInv, RowsCarry, CallAgrees, ChainAgrees, ConfirmationIsTrue, SentIsSaved,
              ConfirmedIsOnChain

LEMMA CallIsTyped ==
  \A m \in Matches, rec \in Record, at \in Points :
    [match |-> m, record |-> rec, at |-> at] \in Calls
  BY DEF Calls

\* The steps that touch neither the table nor the chain.
LEMMA CallMoves ==
  ASSUME IInv, UNCHANGED <<row, networkVars>>,
         call' \in Calls \cup {None}, CallAgrees', ConfirmationIsTrue'
  PROVE  IInv'
  BY DEF IInv, TypeOK, RowsCarry, Carries, ChainAgrees, SentIsSaved, ConfirmedIsOnChain,
         networkVars

\* The steps that save the call's record in the table.
LEMMA RecordSaved ==
  ASSUME IInv, call # None, call.at # "prepare",
         row' = [row EXCEPT ![call.match] = call.record],
         UNCHANGED networkVars,
         call' \in Calls \cup {None},
         call' = None \/ (call'.match = call.match /\ call'.record = call.record
                            /\ call'.at \in {"status", "send"} /\ call.at # "save")
  PROVE  IInv'
<1> USE DEF IInv
<1> DEFINE m == call.match
           rec == call.record
<1>1. /\ m \in Matches /\ rec \in Record /\ call.at \in Points /\ rec # None
      /\ row[m] # None /\ row[m] \in Record
  BY NoneIsNoRecord DEF TypeOK, Calls, CallAgrees
<1>2. row'[m] = rec /\ \A n \in Matches \ {m} : row'[n] = row[n]
  BY <1>1 DEF TypeOK
<1>3. TypeOK'
  BY <1>1 DEF TypeOK, networkVars
<1>4. RowsCarry'
  <2>1. Carries(m, rec) /\ rec.state # "active" /\ tx' = tx
    BY DEF CallAgrees, networkVars
  <2>2. \A n \in Matches : Carries(n, row[n])' <=> 
          (IF n = m THEN Carries(m, rec) ELSE Carries(n, row[n]))
    BY <1>2, <2>1 DEF Carries
  <2> QED
    BY <1>1, <1>2, <2>1, <2>2 DEF RowsCarry
<1>5. CallAgrees'
  BY <1>1, <1>2 DEF CallAgrees, Carries, networkVars
<1>6. ChainAgrees' /\ ConfirmationIsTrue'
  BY DEF ChainAgrees, ConfirmationIsTrue, networkVars
<1>7. SentIsSaved'
  <2> SUFFICES ASSUME NEW h \in mempool
               PROVE  /\ row'[tx[h].match] # None
                      /\ row'[tx[h].match].transaction = h
                      /\ row'[tx[h].match].submission = tx[h].result
    BY DEF SentIsSaved, networkVars
  <2>1. /\ row[tx[h].match] # None /\ row[tx[h].match].transaction = h
        /\ row[tx[h].match].submission = tx[h].result
    BY DEF SentIsSaved
  <2>2. tx[h].match \in Matches /\ h \in Hashes /\ h # None
    BY OutboxAssumption DEF TypeOK, ChainAgrees, Transaction, Hashes
  <2>3. CASE tx[h].match = m
    BY <1>1, <1>2, <2>1, <2>2, <2>3 DEF CallAgrees
  <2>4. CASE tx[h].match # m
    BY <1>2, <2>1, <2>2, <2>4
  <2> QED
    BY <2>3, <2>4
<1>8. ConfirmedIsOnChain'
  <2>1. rec.state = "confirmed" =>
          /\ rec.transaction # None /\ chain[rec.transaction] = "SUCCESS"
          /\ escrow[m] = rec.submission
    BY <1>1 DEF ConfirmationIsTrue, CallAgrees, ChainAgrees, Carries, Record
  <2> QED
    BY <1>1, <1>2, <2>1 DEF ConfirmedIsOnChain, networkVars
<1> QED
  BY <1>3, <1>4, <1>5, <1>6, <1>7, <1>8

-----------------------------------------------------------------------------
LEMMA EnqueueStep ==
  ASSUME IInv, NEW m \in Matches, Enqueue(m)
  PROVE  IInv'
<1> USE DEF IInv
<1>1. NewRecord \in Record /\ NewRecord # None
  BY NoneIsNoRecord DEF NewRecord, Record
<1>2. call = None /\ call' = None /\ UNCHANGED <<tx, mempool, chain, sequence, escrow>>
  BY DEF Enqueue, chainVars, networkVars
<1>3. CASE row' = row
  BY <1>2, <1>3, CallMoves DEF Enqueue, chainVars, CallAgrees, ConfirmationIsTrue
<1>4. CASE row[m] = None /\ row' = [row EXCEPT ![m] = NewRecord]
  <2>1. row'[m] = NewRecord /\ \A n \in Matches \ {m} : row'[n] = row[n]
    BY <1>4 DEF TypeOK
  <2>2. TypeOK'
    BY <1>1, <1>2, <1>4 DEF TypeOK
  <2>3. RowsCarry'
    BY <1>2, <2>1 DEF RowsCarry, Carries, NewRecord
  <2>4. CallAgrees' /\ ChainAgrees' /\ ConfirmationIsTrue'
    BY <1>2 DEF CallAgrees, ChainAgrees, ConfirmationIsTrue
  <2>5. SentIsSaved'
    BY <1>2, <1>4, <2>1 DEF SentIsSaved, TypeOK, ChainAgrees, Transaction
  <2>6. ConfirmedIsOnChain'
    BY <1>2, <2>1 DEF ConfirmedIsOnChain, NewRecord
  <2> QED
    BY <2>2, <2>3, <2>4, <2>5, <2>6
<1> QED
  BY <1>3, <1>4 DEF Enqueue

LEMMA SaveOutcomeStep ==
  ASSUME IInv, NEW m \in Matches, NEW r \in Results, SaveOutcome(m, r)
  PROVE  IInv'
<1> USE DEF IInv
<1>1. /\ call = None /\ call' = None /\ UNCHANGED <<tx, mempool, chain, sequence, escrow>>
      /\ row[m] # None /\ row[m].state = "active"
      /\ row' = [row EXCEPT ![m].state = "pending", ![m].submission = r]
  BY DEF SaveOutcome, chainVars, networkVars
<1>2. row[m] \in Record /\ row[m].transaction = None
  BY <1>1 DEF TypeOK, RowsCarry
<1>3. /\ row'[m] \in Record /\ row'[m].transaction = None /\ row'[m].state = "pending"
      /\ \A n \in Matches \ {m} : row'[n] = row[n]
  BY <1>1, <1>2 DEF TypeOK, Record
<1>4. TypeOK'
  BY <1>1, <1>3 DEF TypeOK
<1>5. RowsCarry'
  <2> SUFFICES ASSUME NEW n \in Matches, row'[n] # None
               PROVE  /\ Carries(n, row[n])'
                      /\ row'[n].state = "active" =>
                           row'[n].transaction = None /\ row'[n].submission = None
    BY DEF RowsCarry
  <2>1. CASE n = m
    BY <1>3, <2>1 DEF Carries
  <2>2. CASE n # m
    BY <1>1, <1>3, <2>2 DEF RowsCarry, Carries
  <2> QED
    BY <2>1, <2>2
<1>6. CallAgrees' /\ ChainAgrees' /\ ConfirmationIsTrue'
  BY <1>1 DEF CallAgrees, ChainAgrees, ConfirmationIsTrue
<1>7. SentIsSaved'
  <2> SUFFICES ASSUME NEW h \in mempool
               PROVE  /\ row'[tx[h].match] # None
                      /\ row'[tx[h].match].transaction = h
                      /\ row'[tx[h].match].submission = tx[h].result
    BY <1>1 DEF SentIsSaved
  <2>1. h \in Hashes /\ tx[h] \in Transaction
    BY DEF TypeOK, ChainAgrees
  <2>2. h # None
    BY <2>1, OutboxAssumption DEF Hashes
  <2>3. tx[h].match \in Matches
    BY <2>1 DEF Transaction
  <2>4. /\ row[tx[h].match] # None /\ row[tx[h].match].transaction = h
        /\ row[tx[h].match].submission = tx[h].result
    BY DEF SentIsSaved
  <2>5. row'[tx[h].match] = row[tx[h].match]
    BY <1>2, <1>3, <2>2, <2>3, <2>4
  <2> QED
    BY <2>4, <2>5
<1>8. ConfirmedIsOnChain'
  BY <1>1, <1>3 DEF ConfirmedIsOnChain
<1> QED
  BY <1>4, <1>5, <1>6, <1>7, <1>8

\* The call starts from the row, or ends.
LEMMA AdvanceStep ==
  ASSUME IInv, NEW m \in Matches, Advance(m)
  PROVE  IInv'
<1> USE DEF IInv
<1> DEFINE at == IF row[m].transaction = None THEN "prepare" ELSE "status"
<1>1. /\ row[m] # None /\ row[m] \in Record /\ row[m].submission # None
      /\ row[m].state \notin Terminal
      /\ call' = [match |-> m, record |-> row[m], at |-> at]
      /\ UNCHANGED <<row, networkVars>>
  BY DEF Advance, TypeOK, chainVars
<1>2. call' \in Calls /\ call'.match = m /\ call'.record = row[m] /\ call'.at = at
  BY <1>1 DEF Calls, Points
<1>3. CallAgrees'
  BY <1>1, <1>2 DEF CallAgrees, RowsCarry, Carries, Terminal, networkVars
<1>4. ConfirmationIsTrue'
  BY <1>1, <1>2 DEF ConfirmationIsTrue, Terminal
<1> QED
  BY <1>1, <1>2, <1>3, <1>4, CallMoves

LEMMA CallEnds ==
  ASSUME IInv, call' = None, UNCHANGED <<row, networkVars>>
  PROVE  IInv'
  BY CallMoves DEF CallAgrees, ConfirmationIsTrue

LEMMA PrepareStep ==
  ASSUME IInv, Prepare
  PROVE  IInv'
<1> USE DEF IInv
<1> DEFINE m == call.match
           rec == call.record
<1>1. PICK h \in Hashes \ Prepared :
        /\ tx' = [tx EXCEPT ![h] = [match |-> m, result |-> rec.submission,
                                   sequence |-> sequence]]
        /\ call' = [match |-> m, record |-> [rec EXCEPT !.transaction = h, !.state = "submitted"],
                    at |-> "save prepared"]
  BY DEF Prepare, Goto
<1>2. /\ call # None /\ call.at = "prepare" /\ tx[h] = None
      /\ UNCHANGED <<row, mempool, chain, sequence, escrow>>
  BY <1>1 DEF Prepare, At, Prepared
<1>3. /\ call \in Calls /\ m \in Matches /\ rec \in Record /\ rec.submission \in Results
  BY <1>2 DEF TypeOK, Calls, CallAgrees, Record
<1>4. /\ tx'[h] \in Transaction /\ tx'[h].match = m /\ tx'[h].result = rec.submission
      /\ \A i \in Hashes \ {h} : tx'[i] = tx[i]
  BY <1>1, <1>3 DEF TypeOK, Transaction
<1>5. tx'[h] # None /\ h # None
  BY <1>4, NoneIsNoRecord, OutboxAssumption DEF Hashes
<1>6. /\ call'.match = m /\ call'.at = "save prepared" /\ call' \in Calls
      /\ call'.record.transaction = h /\ call'.record.submission = rec.submission
      /\ call'.record.state = "submitted"
  BY <1>1, <1>3 DEF Record, Calls, Points
<1>7. TypeOK'
  BY <1>1, <1>2, <1>4, <1>6 DEF TypeOK
<1>8. h \notin mempool /\ chain[h] # "SUCCESS"
  BY <1>1, <1>2 DEF ChainAgrees
<1>9. \A n \in Matches : row[n] # None => row[n].transaction \in (Hashes \ {h}) \cup {None}
  BY <1>2 DEF TypeOK, RowsCarry, Carries, Record
<1>10. RowsCarry'
  BY <1>2, <1>4, <1>9 DEF RowsCarry, Carries
<1>11. CallAgrees'
  BY <1>2, <1>3, <1>4, <1>5, <1>6, <1>8 DEF CallAgrees, Carries
<1>12. ChainAgrees'
  <2>1. ASSUME NEW i \in Hashes, chain[i] = "SUCCESS"
        PROVE  tx'[i] # None /\ escrow[tx'[i].match] = tx'[i].result
    BY <1>4, <1>8, <2>1 DEF ChainAgrees
  <2>2. ASSUME NEW i \in mempool PROVE tx'[i] # None
    BY <1>4, <1>8, <2>2 DEF ChainAgrees, TypeOK
  <2> QED
    BY <1>2, <2>1, <2>2 DEF ChainAgrees
<1>14. ConfirmationIsTrue'
  BY <1>6 DEF ConfirmationIsTrue
<1>13. SentIsSaved' /\ ConfirmedIsOnChain'
  BY <1>2, <1>4, <1>8 DEF SentIsSaved, ConfirmedIsOnChain, TypeOK
<1> QED
  BY <1>7, <1>10, <1>11, <1>12, <1>13, <1>14

\* The status of the transaction is known, or the clock says it is late.
LEMMA StatusStep ==
  ASSUME IInv, NEW status \in Statuses, Status(status) \/ StatusAfterSend(status)
  PROVE  IInv'
<1> USE DEF IInv
<1> DEFINE m == call.match
           rec == call.record
<1>1. /\ call # None /\ call.at \in {"status", "status after send"}
      /\ StatusOf(rec.transaction, status)
      /\ UNCHANGED <<row, networkVars>>
  BY DEF Status, StatusAfterSend, At, chainVars
<1>2. /\ m \in Matches /\ rec \in Record /\ rec.transaction \in Hashes
  BY <1>1 DEF TypeOK, Calls, CallAgrees, Record
<1>3. \E new \in Record, at \in {"save", "save before send"} :
        /\ call' = [match |-> m, record |-> new, at |-> at]
        /\ new.transaction = rec.transaction /\ new.submission = rec.submission
        /\ new.state # "active"
        /\ new.state = "confirmed" => at = "save" /\ status = "SUCCESS"
  <2>1. /\ [rec EXCEPT !.state = "confirmed"] \in Record
        /\ [rec EXCEPT !.state = "quarantined"] \in Record
    BY <1>2 DEF Record
  <2>2. rec.state \notin {"confirmed", "active"}
    BY <1>1 DEF CallAgrees
  <2>3. \/ /\ status = "SUCCESS"
           /\ call' = [match |-> m, record |-> [rec EXCEPT !.state = "confirmed"], at |-> "save"]
        \/ call' = [match |-> m, record |-> [rec EXCEPT !.state = "quarantined"], at |-> "save"]
        \/ \E at \in {"save", "save before send"} :
             call' = [match |-> m, record |-> rec, at |-> at]
    BY DEF Status, StatusAfterSend, ConfirmedBy, Quarantine, ExpiredUnknown, Goto
  <2> QED
    BY <1>2, <2>1, <2>2, <2>3 DEF Record
<1>4. PICK new \in Record, at \in {"save", "save before send"} :
        /\ call' = [match |-> m, record |-> new, at |-> at]
        /\ new.transaction = rec.transaction /\ new.submission = rec.submission
        /\ new.state # "active"
        /\ new.state = "confirmed" => at = "save" /\ status = "SUCCESS"
  BY <1>3
<1>5. call' \in Calls /\ call'.match = m /\ call'.record = new /\ call'.at = at
  BY <1>2, <1>4 DEF Calls, Points
<1>6. CallAgrees'
  BY <1>1, <1>4, <1>5 DEF CallAgrees, Carries, networkVars
<1>7. ConfirmationIsTrue'
  BY <1>1, <1>4, <1>5 DEF ConfirmationIsTrue, StatusOf, networkVars
<1> QED
  BY <1>1, <1>5, <1>6, <1>7, CallMoves

LEMMA SendStep ==
  ASSUME IInv, Send
  PROVE  IInv'
<1> USE DEF IInv
<1> DEFINE m == call.match
           rec == call.record
<1>1. /\ call # None /\ call.at = "send"
      /\ mempool' = mempool \cup {rec.transaction}
      /\ UNCHANGED <<row, tx, chain, sequence, escrow>>
      /\ \/ call' = [match |-> m, record |-> rec, at |-> "status after send"]
         \/ call' = None
  BY DEF Send, At, Goto, Return
<1>2. /\ m \in Matches /\ rec \in Record /\ rec.transaction \in Hashes
      /\ tx[rec.transaction] # None /\ tx[rec.transaction].match = m
      /\ tx[rec.transaction].result = rec.submission
      /\ row[m] # None /\ row[m].transaction = rec.transaction
      /\ row[m].submission = rec.submission
  BY <1>1 DEF TypeOK, Calls, CallAgrees, Record, Carries
<1>3. call' = None \/ (call' \in Calls /\ call'.match = m /\ call'.record = rec
                         /\ call'.at = "status after send")
  <2>1. "status after send" \in Points
    BY DEF Points
  <2>2. CASE call' = None
    BY <2>2
  <2>3. CASE call' = [match |-> m, record |-> rec, at |-> "status after send"]
    BY <1>2, <2>1, <2>3, CallIsTyped
  <2> QED
    BY <1>1, <2>2, <2>3
<1>4. TypeOK' /\ RowsCarry'
  BY <1>1, <1>2, <1>3 DEF TypeOK, RowsCarry, Carries
<1>5. CallAgrees'
  BY <1>1, <1>2, <1>3 DEF CallAgrees, Carries
<1>6. ChainAgrees' /\ ConfirmationIsTrue' /\ ConfirmedIsOnChain'
  BY <1>1, <1>2, <1>3 DEF ChainAgrees, ConfirmationIsTrue, ConfirmedIsOnChain
<1>7. SentIsSaved'
  BY <1>1, <1>2 DEF SentIsSaved
<1> QED
  BY <1>4, <1>5, <1>6, <1>7

\* The chain and the clocks move: what succeeded stays, what the escrow
\* holds stays.
LEMMA ApplyStep ==
  ASSUME IInv, NEW h \in Hashes, Apply(h)
  PROVE  /\ TypeOK' /\ ChainAgrees'
         /\ \A i \in Hashes : chain[i] = "SUCCESS" => chain'[i] = "SUCCESS"
         /\ \A m \in Matches : escrow[m] # None => escrow'[m] = escrow[m]
<1> USE DEF IInv
<1>1. /\ h \in mempool /\ chain[h] = "NOT_FOUND" /\ sequence' = sequence + 1
      /\ UNCHANGED <<row, call, tx, mempool>>
      /\ tx[h] \in Transaction
  BY DEF Apply, ChainAgrees, TypeOK
<1>2. tx[h].match \in Matches /\ tx[h].result \in Results /\ tx[h].result # None
  BY <1>1, OutboxAssumption DEF Transaction
<1>3. CASE /\ escrow[tx[h].match] = None
           /\ chain' = [chain EXCEPT ![h] = "SUCCESS"]
           /\ escrow' = [escrow EXCEPT ![tx[h].match] = tx[h].result]
  <2>1. TypeOK'
    BY <1>1, <1>2, <1>3 DEF TypeOK
  <2>2. \A i \in Hashes : chain[i] = "SUCCESS" => chain'[i] = "SUCCESS"
    BY <1>3 DEF TypeOK
  <2>3. \A m \in Matches : escrow[m] # None => escrow'[m] = escrow[m]
    BY <1>2, <1>3 DEF TypeOK
  <2>4. ASSUME NEW i \in Hashes, chain'[i] = "SUCCESS"
        PROVE  tx[i] # None /\ escrow'[tx[i].match] = tx[i].result
    <3>1. CASE i = h
      BY <1>1, <1>2, <1>3, <3>1 DEF TypeOK, ChainAgrees
    <3>2. CASE i # h
      <4>1. chain[i] = "SUCCESS"
        BY <1>3, <2>4, <3>2 DEF TypeOK
      <4>2. /\ tx[i] # None /\ tx[i] \in Transaction
            /\ escrow[tx[i].match] = tx[i].result
        BY <4>1 DEF ChainAgrees, TypeOK
      <4>3. tx[i].match \in Matches /\ tx[i].result # None
        BY <4>2, OutboxAssumption DEF Transaction
      <4> QED
        BY <2>3, <4>2, <4>3
    <3> QED
      BY <3>1, <3>2
  <2> QED
    BY <1>1, <2>1, <2>2, <2>3, <2>4 DEF ChainAgrees
<1>4. CASE chain' = [chain EXCEPT ![h] = "FAILED"] /\ escrow' = escrow
  <2>1. TypeOK'
    BY <1>1, <1>4 DEF TypeOK
  <2>2. /\ \A i \in Hashes : chain[i] = "SUCCESS" => chain'[i] = "SUCCESS"
        /\ \A i \in Hashes : chain'[i] = "SUCCESS" => chain[i] = "SUCCESS"
    BY <1>1, <1>4 DEF TypeOK
  <2> QED
    BY <1>1, <1>4, <2>1, <2>2 DEF ChainAgrees
<1> QED
  BY <1>3, <1>4 DEF Apply

LEMMA ClosesStep ==
  ASSUME IInv, NEW m \in Matches, MatchCloses(m)
  PROVE  /\ TypeOK' /\ ChainAgrees'
         /\ \A i \in Hashes : chain[i] = "SUCCESS" => chain'[i] = "SUCCESS"
         /\ \A n \in Matches : escrow[n] # None => escrow'[n] = escrow[n]
<1> USE DEF IInv
<1>1. /\ escrow[m] = None /\ escrow' = [escrow EXCEPT ![m] = "closed"]
      /\ UNCHANGED <<row, call, tx, mempool, chain, sequence>>
  BY DEF MatchCloses
<1>2. TypeOK'
  BY <1>1 DEF TypeOK
<1>3. \A n \in Matches : escrow[n] # None => escrow'[n] = escrow[n]
  BY <1>1 DEF TypeOK
<1>4. ASSUME NEW i \in Hashes, chain[i] = "SUCCESS"
      PROVE  tx[i] # None /\ escrow'[tx[i].match] = tx[i].result
  <2>1. /\ tx[i] # None /\ tx[i] \in Transaction
        /\ escrow[tx[i].match] = tx[i].result
    BY <1>4 DEF ChainAgrees, TypeOK
  <2>2. tx[i].match \in Matches /\ tx[i].result # None
    BY <2>1, OutboxAssumption DEF Transaction
  <2> QED
    BY <1>3, <2>1, <2>2
<1> QED
  BY <1>1, <1>2, <1>3, <1>4 DEF ChainAgrees

LEMMA NetworkStep ==
  ASSUME IInv,
         \/ \E h \in Hashes : Apply(h) \/ LedgerExpires(h) \/ ClockExpires(h)
         \/ \E m \in Matches : MatchCloses(m)
  PROVE  IInv'
<1> USE DEF IInv
<1>1. UNCHANGED <<row, call, tx, mempool>>
  BY DEF Apply, LedgerExpires, ClockExpires, MatchCloses
<1>2. /\ TypeOK' /\ ChainAgrees'
      /\ \A i \in Hashes : chain[i] = "SUCCESS" => chain'[i] = "SUCCESS"
      /\ \A m \in Matches : escrow[m] # None => escrow'[m] = escrow[m]
  <2>1. CASE \E h \in Hashes : Apply(h)
    BY <2>1, ApplyStep
  <2>2. CASE \E h \in Hashes : LedgerExpires(h) \/ ClockExpires(h)
    BY <2>2 DEF LedgerExpires, ClockExpires, TypeOK, ChainAgrees
  <2>3. CASE \E m \in Matches : MatchCloses(m)
    BY <2>3, ClosesStep
  <2> QED
    BY <2>1, <2>2, <2>3
<1>3. RowsCarry' /\ CallAgrees' /\ SentIsSaved'
  BY <1>1 DEF RowsCarry, Carries, CallAgrees, SentIsSaved
<1>4. ConfirmationIsTrue'
  <2>1. call # None /\ call.record.state = "confirmed" => call.record.transaction \in Hashes
    BY DEF TypeOK, Calls, CallAgrees, Record
  <2> QED
    BY <1>1, <1>2, <2>1 DEF ConfirmationIsTrue
<1>5. ConfirmedIsOnChain'
  <2> SUFFICES ASSUME NEW m \in Matches, row[m] # None, row[m].state = "confirmed"
               PROVE  /\ row[m].transaction # None
                      /\ chain'[row[m].transaction] = "SUCCESS"
                      /\ escrow'[m] = row[m].submission
    BY <1>1 DEF ConfirmedIsOnChain
  <2>1. /\ row[m] \in Record /\ row[m].transaction # None
        /\ chain[row[m].transaction] = "SUCCESS" /\ escrow[m] = row[m].submission
    BY DEF ConfirmedIsOnChain, TypeOK
  <2>2. row[m].transaction \in Hashes
    BY <2>1 DEF Record
  <2>3. row[m].submission \in Results /\ row[m].submission # None
    <3>1. /\ tx[row[m].transaction] \in Transaction
          /\ tx[row[m].transaction].result = row[m].submission
      BY <2>1, <2>2 DEF RowsCarry, Carries, TypeOK
    <3> QED
      BY <3>1, OutboxAssumption DEF Transaction
  <2> QED
    BY <1>2, <2>1, <2>2, <2>3
<1> QED
  BY <1>1, <1>2, <1>3, <1>4, <1>5

LEMMA NextIInv == IInv /\ [Next]_vars => IInv'
<1> SUFFICES ASSUME IInv, [Next]_vars PROVE IInv'
  OBVIOUS
<1>1. CASE PrepareRefused \/ Throw
  BY <1>1, CallEnds DEF PrepareRefused, Throw, Return, chainVars
<1>2. CASE SavePrepared \/ SaveBeforeSend \/ Save
  <2>1. /\ call # None /\ call.at \in {"save prepared", "save before send", "save"}
        /\ row' = [row EXCEPT ![call.match] = call.record]
        /\ UNCHANGED networkVars
        /\ \/ call' = None
           \/ /\ call.at # "save"
              /\ \/ call' = [match |-> call.match, record |-> call.record, at |-> "status"]
                 \/ call' = [match |-> call.match, record |-> call.record, at |-> "send"]
    BY <1>2 DEF SavePrepared, SaveBeforeSend, Save, At, Goto, Return, chainVars
  <2>2. call.match \in Matches /\ call.record \in Record
    BY <2>1 DEF IInv, TypeOK, Calls
  <2>3. "status" \in Points /\ "send" \in Points
    BY DEF Points
  <2>4. \/ call' = None
        \/ /\ call.at # "save" /\ call' \in Calls
           /\ call'.match = call.match /\ call'.record = call.record
           /\ call'.at \in {"status", "send"}
    <3>1. CASE call' = [match |-> call.match, record |-> call.record, at |-> "status"]
      BY <2>1, <2>2, <2>3, <3>1, CallIsTyped
    <3>2. CASE call' = [match |-> call.match, record |-> call.record, at |-> "send"]
      BY <2>1, <2>2, <2>3, <3>2, CallIsTyped
    <3> QED
      BY <2>1, <3>1, <3>2
  <2>5. call.at # "prepare" /\ call' \in Calls \cup {None}
    BY <2>1, <2>4
  <2> QED
    BY <2>1, <2>4, <2>5, RecordSaved
<1>3. CASE Prepare \/ Send
  BY <1>3, PrepareStep, SendStep
<1>4. CASE \E s \in Statuses : Status(s) \/ StatusAfterSend(s)
  BY <1>4, StatusStep
<1>5. CASE \E m \in Matches : Enqueue(m) \/ Advance(m)
  BY <1>5, EnqueueStep, AdvanceStep
<1>6. CASE \E m \in Matches, r \in Results : SaveOutcome(m, r)
  BY <1>6, SaveOutcomeStep
<1>7. CASE \/ \E h \in Hashes : Apply(h) \/ LedgerExpires(h) \/ ClockExpires(h)
           \/ \E m \in Matches : MatchCloses(m)
  BY <1>7, NetworkStep
<1>8. CASE UNCHANGED vars
  <2>1. UNCHANGED <<row, call, networkVars>>
    BY <1>8 DEF vars, networkVars
  <2>2. CallAgrees' /\ ConfirmationIsTrue' /\ call' \in Calls \cup {None}
    BY <2>1 DEF IInv, TypeOK, CallAgrees, Carries, ConfirmationIsTrue, networkVars
  <2> QED
    BY <2>1, <2>2, CallMoves
<1> QED
  BY <1>1, <1>2, <1>3, <1>4, <1>5, <1>6, <1>7, <1>8 DEF Next, CallNext

LEMMA IInvHolds == Spec => []IInv
<1>1. Init => IInv
  BY InitIInv
<1>2. IInv /\ [Next]_vars => IInv'
  BY NextIInv
<1> QED
  BY <1>1, <1>2, PTL DEF Spec

-----------------------------------------------------------------------------
\* Whatever crashes, a transaction that reached the network can be found again
\* through its match's record, and a record says "confirmed" only of a match
\* whose own transaction succeeded and whose escrow holds its outcome
\* (advanceSettlement saves the hash and the envelope before it broadcasts).
THEOREM RecordsMatchChain == Spec => []StoreMatchesChain
<1>1. IInv => StoreMatchesChain
  BY DEF IInv, StoreMatchesChain
<1> QED
  BY <1>1, IInvHolds, PTL

\* However often a match is retried, expires or is rebroadcast, at most one
\* transaction for it is ever on the network (oracle-submit.ts: unknown
\* outcomes only rebroadcast identical bytes).
THEOREM NoReplacement == Spec => []OneTransactionPerMatch
<1>1. SentIsSaved => OneTransactionPerMatch
  BY DEF SentIsSaved, OneTransactionPerMatch
<1>2. IInv => OneTransactionPerMatch
  BY <1>1 DEF IInv
<1> QED
  BY <1>2, IInvHolds, PTL

-----------------------------------------------------------------------------
(* The dead-letter queue: DeadLetterQueue.                                 *)

\* The dead-letter queue's part of a settlement behaviour.
QueueSpec == Dlq!Init /\ [][Dlq!Next]_queueVars

LEMMA QueueSteps == SettlementSpec => QueueSpec
<1>1. SettlementInit => Dlq!Init
  BY DEF SettlementInit
<1>2. [SettlementNext]_allVars => [Dlq!Next]_queueVars
  BY DEF SettlementNext, allVars, queueVars
<1> QED BY <1>1, <1>2, PTL DEF SettlementSpec, QueueSpec

\* What the run's constants are, as far as the proofs use it.
LEMMA QueueConstants == MaxEntries \in Nat /\ MaxAttempts \in Nat \ {0} /\ None \notin Matches
BY SettlementAssumption DEF Dlq!QueueAssumption

\* Copies of the queue, and how they differ from it or from later ones.
QueueEntries == [match : Matches \cup {None}, attempts : Nat]

\* Copies of some of the entries: the queue itself, and the list a cycle works through.
Copies == UNION {[S -> QueueEntries] : S \in SUBSET Dlq!Ids}

\* A copy that lost entries and kept the match of the others.
Shrinks(f, g) ==
  /\ DOMAIN g \subseteq DOMAIN f
  /\ \A id \in DOMAIN g : g[id].match = f[id].match

\* What copies are.
LEMMA CopyIs ==
  ASSUME NEW f \in Copies
  PROVE  /\ DOMAIN f \subseteq Dlq!Ids
         /\ f = [id \in DOMAIN f |-> f[id]]
         /\ \A id \in DOMAIN f : /\ f[id] \in QueueEntries /\ f[id].attempts \in Nat
                                 /\ f[id].match \in Matches \cup {None}
BY DEF Copies, QueueEntries

LEMMA IsCopy ==
  ASSUME NEW S \in SUBSET Dlq!Ids, NEW f \in [S -> QueueEntries]
  PROVE  f \in Copies /\ DOMAIN f = S
BY DEF Copies

LEMMA EmptyCopy == << >> \in Copies /\ DOMAIN << >> = {}
<1>1. << >> \in [{} -> QueueEntries]
  OBVIOUS
<1>2. {} \in SUBSET Dlq!Ids
  OBVIOUS
<1> QED BY <1>1, <1>2, IsCopy

\* What the operators of the queue make of a copy.
LEMMA OldestIn ==
  ASSUME NEW f \in Copies, DOMAIN f # {}
  PROVE  Dlq!Oldest(f) \in DOMAIN f
<1>1. DOMAIN f \subseteq Nat
  BY CopyIs, QueueConstants DEF Dlq!Ids
<1>2. \E x \in DOMAIN f : \A y \in DOMAIN f : x <= y
  BY <1>1, LeastNat
<1> QED BY <1>2 DEF Dlq!Oldest, Dlq!Min

LEMMA WithoutCopy ==
  ASSUME NEW f \in Copies, NEW id
  PROVE  /\ Dlq!Without(f, id) \in Copies
         /\ DOMAIN Dlq!Without(f, id) = DOMAIN f \ {id}
         /\ \A i \in DOMAIN f \ {id} : Dlq!Without(f, id)[i] = f[i]
         /\ Shrinks(f, Dlq!Without(f, id))
<1>1. PICK S : S = DOMAIN f \ {id}
  OBVIOUS
<1>2. S \in SUBSET Dlq!Ids
  BY <1>1, CopyIs
<1>3. PICK g : g = Dlq!Without(f, id)
  OBVIOUS
<1>4. g = [i \in S |-> f[i]]
  BY <1>1, <1>3 DEF Dlq!Without
<1>5. g \in [S -> QueueEntries]
  BY <1>1, <1>4, CopyIs
<1> QED BY <1>1, <1>2, <1>3, <1>4, <1>5, IsCopy DEF Shrinks

LEMMA MoreCounts ==
  /\ \A n \in Nat : Dlq!More(n) \in Nat /\ Dlq!More(n) >= n
  /\ \A n, k \in Nat : k <= n => Dlq!More(k) <= Dlq!More(n)
BY QueueConstants DEF Dlq!More

LEMMA AttemptsCopy ==
  ASSUME NEW f \in Copies, DOMAIN f # {}
  PROVE  /\ Dlq!Attempts(f) \in Copies
         /\ DOMAIN Dlq!Attempts(f) = DOMAIN f
         /\ Shrinks(f, Dlq!Attempts(f))
         /\ Dlq!Oldest(Dlq!Attempts(f)) = Dlq!Oldest(f)
         /\ \A i \in DOMAIN f :
              Dlq!Attempts(f)[i].attempts =
                IF i = Dlq!Oldest(f) THEN Dlq!More(f[i].attempts) ELSE f[i].attempts
<1>1. PICK id \in DOMAIN f : id = Dlq!Oldest(f)
  BY OldestIn
<1>2. PICK S \in SUBSET Dlq!Ids : S = DOMAIN f
  BY CopyIs
<1>3. PICK n \in Nat : n = Dlq!More(f[id].attempts)
  BY CopyIs, MoreCounts
<1>4. PICK e : e = [f[id] EXCEPT !.attempts = n]
  OBVIOUS
<1>5. e \in QueueEntries /\ e.attempts = n /\ e.match = f[id].match
  BY <1>4, CopyIs DEF QueueEntries
<1>6. PICK g : g = Dlq!Attempts(f)
  OBVIOUS
<1>7. g = [f EXCEPT ![id] = e]
  BY <1>1, <1>3, <1>4, <1>6 DEF Dlq!Attempts
<1>8. f \in [S -> QueueEntries]
  BY <1>2, CopyIs
<1>9. g \in [S -> QueueEntries]
  BY <1>1, <1>2, <1>5, <1>7, <1>8
<1>10. g \in Copies /\ DOMAIN g = DOMAIN f
  BY <1>2, <1>9, IsCopy
<1>11. Dlq!Oldest(g) = Dlq!Oldest(f)
  BY <1>10 DEF Dlq!Oldest
<1>12. \A i \in DOMAIN f : /\ g[i].match = f[i].match
                           /\ g[i].attempts = IF i = id THEN n ELSE f[i].attempts
  BY <1>2, <1>5, <1>7, <1>8
<1> QED BY <1>1, <1>3, <1>6, <1>10, <1>11, <1>12 DEF Shrinks

-----------------------------------------------------------------------------
(* The invariant.                                                          *)

\* The stages of a submission and of a cycle, and the values of the variables.
SubmitterPcs == {"idle", "handler", "settled", "dlq", "queued", "rejected", "crashed"}
CyclePcs == {"idle", "listed", "update", "handler", "remove", "next"}

QueueTypes ==
  /\ written \in 0 .. MaxEntries
  /\ queue \in Copies /\ \A id \in DOMAIN queue : id <= written
  /\ submitter \in [Matches -> [pc : SubmitterPcs, attempt : Nat]]
  /\ cycle \in [Cycles -> [pc : CyclePcs, todo : Copies]]
  /\ called \in [Dlq!Ids -> Nat] /\ \A id \in Dlq!Ids : id > written => called[id] = 0
  /\ evicting \subseteq aged

\* The copy a cycle works on: of entries that were written, with the matches
\* the queue has for them; one is removed once its match is on the chain.
CopiesAgree ==
  \A c \in Cycles :
    /\ cycle[c].pc # "idle" => DOMAIN cycle[c].todo # {}
    /\ \A id \in DOMAIN cycle[c].todo :
         /\ id <= written
         /\ id \in DOMAIN queue => queue[id].match = cycle[c].todo[id].match
    /\ cycle[c].pc = "remove" => Dlq!Entry(c).match \in onChain

\* The inductive invariant of the queue.
DlqInv == QueueTypes /\ CopiesAgree /\ Dlq!NothingDropped

-----------------------------------------------------------------------------
(* What a step does to the queue, and to the copy of a cycle.              *)

\* The shapes a step has: the queue loses entries or gains one for a match, and a cycle
\* keeps its list or moves on with fewer.
Kept == queue' \in Copies /\ Shrinks(queue, queue') /\ written' = written
Grown(m) ==
  /\ queue' \in Copies /\ written' = written + 1 /\ written' \in Dlq!Ids
  /\ DOMAIN queue' = DOMAIN queue \cup {written'}
  /\ \A id \in DOMAIN queue : queue'[id] = queue[id]
  /\ queue'[written'].match = m /\ queue'[written'].attempts = 0
Unmoved == cycle' = cycle
Moved(c, pc) ==
  \E todo \in Copies :
    /\ cycle' = [cycle EXCEPT ![c] = [pc |-> pc, todo |-> todo]]
    /\ pc # "idle" => DOMAIN todo # {}
    /\ pc = "remove" => todo = cycle[c].todo /\ Dlq!Entry(c).match \in onChain
    /\ Shrinks(cycle[c].todo, todo) \/ Shrinks(queue', todo)

\* The operations of the queue and the moves of a cycle have these shapes.
LEMMA AddGrows ==
  ASSUME QueueTypes, NEW m \in Matches \cup {None}, Dlq!Add(m)
  PROVE  Grown(m)
<1>1. PICK n \in Nat : n = written + 1 /\ n \in Dlq!Ids /\ written' = n
  BY QueueConstants DEF QueueTypes, Dlq!Add, Dlq!Ids
<1>2. PICK S \in SUBSET Dlq!Ids : S = DOMAIN queue \cup {n}
  BY <1>1, CopyIs DEF QueueTypes
<1>3. PICK e \in QueueEntries : e = Dlq!NewEntry(m) /\ e.match = m /\ e.attempts = 0
  <2>1. [match |-> m, attempts |-> 0] \in QueueEntries
    BY DEF QueueEntries
  <2> QED BY <2>1 DEF Dlq!NewEntry
<1>4. queue' = [i \in S |-> IF i \in DOMAIN queue THEN queue[i] ELSE e]
  BY <1>1, <1>2, <1>3 DEF Dlq!Add
<1>5. queue' \in [S -> QueueEntries]
  BY <1>3, <1>4, CopyIs DEF QueueTypes
<1>6. n \notin DOMAIN queue
  BY <1>1, QueueConstants DEF QueueTypes
<1>7. \A id \in DOMAIN queue : queue'[id] = queue[id]
  BY <1>2, <1>4
<1>8. queue'[n] = e
  BY <1>2, <1>4, <1>6
<1> QED BY <1>1, <1>2, <1>3, <1>5, <1>7, <1>8, IsCopy DEF Grown

LEMMA QueueKept ==
  ASSUME QueueTypes
  PROVE  /\ queue' = queue /\ written' = written => Kept
         /\ \A id : Dlq!RemoveEntry(id) => Kept
         /\ \A id, n \in Nat : Dlq!Update(id, n) => Kept
         /\ \A gone : Dlq!Sweep(gone) => Kept
<1>a. queue \in Copies
  BY DEF QueueTypes
<1>1. queue' = queue /\ written' = written => Kept
  BY <1>a DEF Kept, Shrinks
<1>2. ASSUME NEW id, Dlq!RemoveEntry(id) PROVE Kept
  BY <1>a, <1>2, WithoutCopy DEF Kept, Dlq!RemoveEntry
<1>3. ASSUME NEW id \in Nat, NEW n \in Nat, Dlq!Update(id, n) PROVE Kept
  <2>1. PICK S \in SUBSET Dlq!Ids : S = DOMAIN queue
    BY <1>a, CopyIs
  <2>2. \A i \in S : [queue[i] EXCEPT !.attempts = n] \in QueueEntries
                     /\ [queue[i] EXCEPT !.attempts = n].match = queue[i].match
    BY <1>a, <2>1, CopyIs DEF QueueEntries
  <2>3. queue' = [i \in S |-> IF i = id THEN [queue[i] EXCEPT !.attempts = n] ELSE queue[i]]
    BY <1>3, <2>1 DEF Dlq!Update
  <2>4. queue' \in [S -> QueueEntries]
    BY <1>a, <2>1, <2>2, <2>3, CopyIs
  <2>5. \A i \in S : queue'[i].match = queue[i].match
    BY <2>2, <2>3
  <2>6. written' = written
    BY <1>3 DEF Dlq!Update
  <2> QED BY <2>1, <2>4, <2>5, <2>6, IsCopy DEF Kept, Shrinks
<1>4. ASSUME NEW gone, Dlq!Sweep(gone) PROVE Kept
  <2>1. PICK S \in SUBSET Dlq!Ids : S = DOMAIN queue \ gone
    BY <1>a, CopyIs
  <2>2. queue' = [i \in S |-> queue[i]]
    BY <1>4, <2>1 DEF Dlq!Sweep
  <2>3. queue' \in [S -> QueueEntries]
    BY <1>a, <2>1, <2>2, CopyIs
  <2>4. written' = written
    BY <1>4 DEF Dlq!Sweep
  <2> QED BY <2>1, <2>2, <2>3, <2>4, IsCopy DEF Kept, Shrinks
<1> QED BY <1>1, <1>2, <1>3, <1>4

LEMMA CycleMoves ==
  ASSUME QueueTypes, CopiesAgree, NEW c \in Cycles
  PROVE  /\ cycle[c].todo \in Copies /\ cycle[c].pc \in CyclePcs
         /\ Dlq!Ends(c) => Moved(c, "idle")
         /\ cycle[c].pc # "idle" =>
              /\ Dlq!Handled(c) \in DOMAIN cycle[c].todo /\ Dlq!Handled(c) \in Dlq!Ids
              /\ Dlq!Handled(c) <= written
              /\ Dlq!Entry(c).attempts \in Nat
              /\ \A pc \in CyclePcs \ {"remove"} : Dlq!Goto(c, pc) => Moved(c, pc)
         /\ \A todo \in Copies : Shrinks(cycle[c].todo, todo) /\ DOMAIN todo # {} /\ Dlq!Attempt(c, todo)
              => Moved(c, "update")
<1>1. PICK old \in Copies : old = cycle[c].todo /\ cycle[c].pc \in CyclePcs
      /\ cycle[c] = [pc |-> cycle[c].pc, todo |-> old]
  BY DEF QueueTypes
<1>2. Shrinks(old, old)
  BY DEF Shrinks
<1>3. ASSUME Dlq!Ends(c) PROVE Moved(c, "idle")
  <2>1. cycle' = [cycle EXCEPT ![c] = [pc |-> "idle", todo |-> << >>]]
    BY <1>3 DEF Dlq!Ends, Dlq!Idle
  <2>2. << >> \in Copies /\ Shrinks(old, << >>)
    BY EmptyCopy DEF Shrinks
  <2> QED BY <1>1, <2>1, <2>2 DEF Moved
<1>4. ASSUME cycle[c].pc # "idle"
      PROVE  /\ Dlq!Handled(c) \in DOMAIN cycle[c].todo /\ Dlq!Handled(c) \in Dlq!Ids
             /\ Dlq!Handled(c) <= written
             /\ Dlq!Entry(c).attempts \in Nat
             /\ \A pc \in CyclePcs \ {"remove"} : Dlq!Goto(c, pc) => Moved(c, pc)
  <2>1. DOMAIN old # {}
    BY <1>1, <1>4 DEF CopiesAgree
  <2>2. Dlq!Handled(c) \in DOMAIN old /\ Dlq!Entry(c) = old[Dlq!Handled(c)]
    BY <1>1, <2>1, OldestIn DEF Dlq!Handled, Dlq!Entry
  <2>3. Dlq!Handled(c) \in Dlq!Ids /\ Dlq!Entry(c).attempts \in Nat
    BY <2>2, CopyIs
  <2>4. Dlq!Handled(c) <= written
    BY <1>1, <2>2 DEF CopiesAgree
  <2>5. ASSUME NEW pc \in CyclePcs \ {"remove"}, Dlq!Goto(c, pc) PROVE Moved(c, pc)
    <3>1. cycle' = [cycle EXCEPT ![c] = [pc |-> pc, todo |-> old]]
      <4>1. cycle' = [cycle EXCEPT ![c] = [cycle[c] EXCEPT !.pc = pc]]
        BY <2>5 DEF Dlq!Goto
      <4>2. [cycle[c] EXCEPT !.pc = pc] = [pc |-> pc, todo |-> old]
        BY <1>1
      <4> QED BY <4>1, <4>2
    <3> QED BY <1>1, <1>2, <2>1, <3>1 DEF Moved
  <2> QED BY <1>1, <2>2, <2>3, <2>4, <2>5
<1>5. ASSUME NEW todo \in Copies, Shrinks(cycle[c].todo, todo), DOMAIN todo # {},
             Dlq!Attempt(c, todo)
      PROVE  Moved(c, "update")
  <2>1. PICK new \in Copies : new = Dlq!Attempts(todo) /\ DOMAIN new # {} /\ Shrinks(todo, new)
    BY <1>5, AttemptsCopy
  <2>2. cycle' = [cycle EXCEPT ![c] = [pc |-> "update", todo |-> new]]
    BY <1>5, <2>1 DEF Dlq!Attempt
  <2>3. Shrinks(cycle[c].todo, new)
    BY <1>5, <2>1 DEF Shrinks
  <2> QED BY <2>1, <2>2, <2>3 DEF Moved
<1> QED BY <1>1, <1>3, <1>4, <1>5

\* What every step does: results stay on the chain and evictions on record, the
\* queue loses only what is settled or old, submitters answer truly.
SubmitterAnswers ==
  /\ submitter' \in [Matches -> [pc : SubmitterPcs, attempt : Nat]]
  /\ \A m \in Matches :
       /\ submitter'[m].pc = "settled" => submitter[m].pc = "settled" \/ m \in onChain
       /\ submitter'[m].pc = "queued" => submitter[m].pc = "queued" \/ Grown(m)

\* Calls are counted of entries that were written.
CallsCount ==
  /\ called' \in [Dlq!Ids -> Nat]
  /\ \A id \in Dlq!Ids : id > written => called'[id] = called[id]

\* What leaves is settled or old.
LeavesSettled ==
  \A id \in DOMAIN queue \ DOMAIN queue' :
    /\ queue[id].match \in onChain \/ id \in aged
    /\ queue[id].match \in onChain \/ queue[id].match \in evicted'

\* The shape of every step.
QueueStep ==
  /\ onChain \subseteq onChain' /\ evicted \subseteq evicted'
  /\ Kept \/ \E m \in Matches \cup {None} : Grown(m)
  /\ Unmoved \/ (\E c \in Cycles, pc \in CyclePcs : Moved(c, pc))
       \/ cycle' = [c \in Cycles |-> Dlq!Idle]
  /\ SubmitterAnswers /\ CallsCount /\ LeavesSettled
  /\ evicting' \subseteq aged'

LEMMA QueueStays ==
  ASSUME QueueTypes
  PROVE  /\ UNCHANGED <<queue, written>> => Kept /\ LeavesSettled
         /\ UNCHANGED submitter => SubmitterAnswers
         /\ UNCHANGED called => CallsCount
         /\ UNCHANGED <<evicting, aged>> => evicting' \subseteq aged'
         /\ \A m \in Matches \cup {None} : Dlq!Add(m) => Grown(m) /\ LeavesSettled
<1>1. UNCHANGED <<queue, written>> => Kept /\ LeavesSettled
  BY QueueKept DEF LeavesSettled
<1>2. UNCHANGED submitter => SubmitterAnswers
  BY DEF SubmitterAnswers, QueueTypes
<1>3. UNCHANGED called => CallsCount
  BY DEF CallsCount, QueueTypes
<1>4. UNCHANGED <<evicting, aged>> => evicting' \subseteq aged'
  BY DEF QueueTypes
<1>5. \A m \in Matches \cup {None} : Dlq!Add(m) => Grown(m) /\ LeavesSettled
  BY AddGrows DEF Grown, LeavesSettled
<1> QED BY <1>1, <1>2, <1>3, <1>4, <1>5

\* Every action has that shape.
LEMMA SubmitterSteps ==
  ASSUME DlqInv, NEW m \in Matches,
         \/ Dlq!Check(m) \/ Dlq!SubmitResolves(m) \/ Dlq!SubmitRejects(m) \/ Dlq!WriteToDlq(m)
         \/ Dlq!Apply(m)
  PROVE  QueueStep
<1> USE DEF DlqInv
<1>1. PICK s \in [Matches -> [pc : SubmitterPcs, attempt : Nat]] : s = submitter
  BY DEF QueueTypes
<1>2. \A pc \in SubmitterPcs :
        /\ [s[m] EXCEPT !.pc = pc] \in [pc : SubmitterPcs, attempt : Nat]
        /\ [s[m] EXCEPT !.pc = pc].pc = pc
  BY <1>1
<1>3. \A pc \in SubmitterPcs : Dlq!Submitting(m, pc) =>
        /\ submitter' \in [Matches -> [pc : SubmitterPcs, attempt : Nat]]
        /\ \A k \in Matches : submitter'[k].pc = IF k = m THEN pc ELSE submitter[k].pc
  <2> SUFFICES ASSUME NEW pc \in SubmitterPcs, Dlq!Submitting(m, pc)
               PROVE  /\ submitter' \in [Matches -> [pc : SubmitterPcs, attempt : Nat]]
                      /\ \A k \in Matches : submitter'[k].pc = IF k = m THEN pc ELSE submitter[k].pc
    OBVIOUS
  <2>1. PICK r \in [pc : SubmitterPcs, attempt : Nat] :
          r.pc = pc /\ r = [s[m] EXCEPT !.pc = pc]
    BY <1>2
  <2>2. submitter' = [s EXCEPT ![m] = r]
    BY <1>1, <2>1 DEF Dlq!Submitting
  <2> QED BY <1>1, <2>1, <2>2
<1>4. CASE Dlq!Check(m) \/ Dlq!SubmitResolves(m)
  <2>1. UNCHANGED <<onChain, queue, written, aged, cycle, evicting, called, evicted>>
    BY <1>4 DEF Dlq!Check, Dlq!SubmitResolves, Dlq!OnlySubmitter, Dlq!store
  <2>2. SubmitterAnswers
    <3>1. "settled" \in SubmitterPcs /\ "handler" \in SubmitterPcs
      BY DEF SubmitterPcs
    <3> QED BY <1>3, <1>4, <3>1 DEF Dlq!Check, Dlq!SubmitResolves, SubmitterAnswers
  <2> QED BY <2>1, <2>2, QueueStays DEF QueueStep, Unmoved
<1>5. CASE Dlq!SubmitRejects(m)
  <2>1. UNCHANGED <<onChain, queue, written, aged, cycle, evicting, called, evicted>>
    BY <1>5 DEF Dlq!SubmitRejects, Dlq!OnlySubmitter, Dlq!store
  <2>2. SubmitterAnswers
    <3>1. PICK r \in [pc : SubmitterPcs, attempt : Nat] :
            /\ r.pc \in {"handler", "dlq"}
            /\ r = [pc |-> Dlq!Exhausted(s[m].attempt), attempt |-> s[m].attempt + 1]
      <4>1. s[m].attempt + 1 \in Nat
        BY <1>1
      <4>2. Dlq!Exhausted(s[m].attempt) \in {"handler", "dlq"}
        BY DEF Dlq!Exhausted
      <4>3. {"handler", "dlq"} \subseteq SubmitterPcs
        BY DEF SubmitterPcs
      <4> QED BY <4>1, <4>2, <4>3
    <3>2. submitter' = [s EXCEPT ![m] = r]
      BY <1>1, <1>5, <3>1 DEF Dlq!SubmitRejects
    <3> QED BY <1>1, <3>1, <3>2 DEF SubmitterAnswers
  <2> QED BY <2>1, <2>2, QueueStays DEF QueueStep, Unmoved
<1>6. CASE Dlq!WriteToDlq(m)
  <2>1. UNCHANGED <<onChain, cycle, evicting, called, evicted>>
    BY <1>6 DEF Dlq!WriteToDlq, Dlq!OnlySubmitter
  <2>2. "queued" \in SubmitterPcs /\ "rejected" \in SubmitterPcs
    BY DEF SubmitterPcs
  <2>3. CASE Dlq!Add(m) /\ Dlq!Submitting(m, "queued")
    <3>1. Grown(m) /\ LeavesSettled /\ aged' = aged
      BY <2>3, QueueStays DEF Dlq!Add
    <3>2. SubmitterAnswers
      BY <1>3, <2>2, <2>3, <3>1 DEF SubmitterAnswers
    <3> QED BY <2>1, <3>1, <3>2, QueueStays DEF QueueStep, Unmoved
  <2>4. CASE Dlq!Submitting(m, "rejected") /\ UNCHANGED <<queue, written, aged>>
    <3>1. SubmitterAnswers
      BY <1>3, <2>2, <2>4 DEF SubmitterAnswers
    <3> QED BY <2>1, <2>4, <3>1, QueueStays DEF QueueStep, Unmoved
  <2> QED BY <1>6, <2>3, <2>4 DEF Dlq!WriteToDlq, Dlq!store
<1>7. CASE Dlq!Apply(m)
  <2>1. /\ UNCHANGED <<queue, written, aged, submitter, cycle, evicting, called, evicted>>
        /\ onChain \subseteq onChain'
    BY <1>7 DEF Dlq!Apply, Dlq!store, Dlq!process
  <2> QED BY <2>1, QueueStays DEF QueueStep, Unmoved
<1> QED BY <1>4, <1>5, <1>6, <1>7

LEMMA CycleSteps ==
  ASSUME DlqInv, NEW c \in Cycles, Dlq!CycleStep(c)
  PROVE  QueueStep
<1> USE DEF DlqInv
<1>1. CASE Dlq!List(c)
  <2>1. PICK gone \in SUBSET Dlq!Expired :
          /\ Dlq!Sweep(gone)
          /\ cycle' = [cycle EXCEPT ![c] = IF DOMAIN queue' = {} THEN Dlq!Idle
                                           ELSE [pc |-> "listed", todo |-> queue']]
    BY <1>1 DEF Dlq!List, Dlq!Overdue
  <2>2. UNCHANGED <<onChain, submitter, evicting, called, aged>>
    BY <1>1 DEF Dlq!List, Dlq!Sweep
  <2>3. Kept
    BY <2>1, QueueKept
  <2>4. LeavesSettled /\ evicted \subseteq evicted'
    BY <2>1 DEF Dlq!Sweep, LeavesSettled, Dlq!Expired
  <2>5. \E pc \in CyclePcs : Moved(c, pc)
    <3>1. CASE DOMAIN queue' = {}
      BY <2>1, <3>1, CycleMoves DEF Dlq!Ends, CyclePcs
    <3>2. CASE DOMAIN queue' # {}
      <4>1. Moved(c, "listed")
        BY <2>1, <2>3, <3>2 DEF Moved, Kept, Shrinks
      <4> QED BY <4>1 DEF CyclePcs
    <3> QED BY <3>1, <3>2
  <2> QED BY <2>2, <2>3, <2>4, <2>5, QueueStays DEF QueueStep
<1>2. CASE Dlq!Start(c)
  <2>1. UNCHANGED <<onChain, queue, written, aged, called, submitter, evicting, evicted>>
    BY <1>2 DEF Dlq!Start, Dlq!OnlyCycle, Dlq!store
  <2>2. \E pc \in CyclePcs : Moved(c, pc)
    <3>1. cycle[c].pc # "idle" /\ cycle[c].todo \in Copies /\ DOMAIN cycle[c].todo # {}
      BY <1>2, CycleMoves DEF Dlq!Start, CopiesAgree
    <3>2. Shrinks(cycle[c].todo, cycle[c].todo)
      BY DEF Shrinks
    <3>3. Moved(c, "idle") \/ Moved(c, "update")
      BY <1>2, <3>1, <3>2, CycleMoves DEF Dlq!Start
    <3> QED BY <3>3 DEF CyclePcs
  <2> QED BY <2>1, <2>2, QueueStays DEF QueueStep
<1>3. CASE Dlq!CallHandler(c)
  <2>1. UNCHANGED <<onChain, written, aged, submitter, evicting, evicted>>
    BY <1>3 DEF Dlq!CallHandler, Dlq!OnlyCycle, Dlq!Update
  <2>2. /\ Dlq!Handled(c) \in Dlq!Ids /\ Dlq!Handled(c) <= written /\ Dlq!Entry(c).attempts \in Nat
        /\ Moved(c, "handler") /\ "handler" \in CyclePcs
    BY <1>3, CycleMoves DEF Dlq!CallHandler, CyclePcs
  <2>3. Dlq!Handled(c) \in Nat
    BY <2>2, QueueConstants DEF Dlq!Ids
  <2>4. Kept
    BY <1>3, <2>2, <2>3, QueueKept DEF Dlq!CallHandler
  <2>5. DOMAIN queue' = DOMAIN queue
    BY <1>3 DEF Dlq!CallHandler, Dlq!Update
  <2>6. LeavesSettled
    BY <2>5 DEF LeavesSettled
  <2>7. CallsCount
    <3>1. PICK n \in Nat, id \in Dlq!Ids : id = Dlq!Handled(c) /\ n = Dlq!More(called[id])
      BY <2>2, MoreCounts DEF QueueTypes
    <3>2. called' = [called EXCEPT ![id] = n]
      BY <1>3, <3>1 DEF Dlq!CallHandler
    <3>3. \A k \in Dlq!Ids : k > written => k # id
      BY <2>2, <3>1, QueueConstants DEF QueueTypes, Dlq!Ids
    <3> QED BY <3>1, <3>2, <3>3 DEF CallsCount, QueueTypes
  <2> QED BY <2>1, <2>2, <2>4, <2>6, <2>7, QueueStays DEF QueueStep
<1>4. CASE Dlq!HandlerResolves(c)
  <2>1. UNCHANGED <<onChain, queue, written, aged, called, submitter, evicting, evicted>>
    BY <1>4 DEF Dlq!HandlerResolves, Dlq!OnlyCycle, Dlq!store
  <2>2. Moved(c, "remove")
    <3>1. PICK old \in Copies : old = cycle[c].todo /\ cycle[c] = [pc |-> cycle[c].pc, todo |-> old]
      BY DEF QueueTypes
    <3>2. Shrinks(old, old) /\ DOMAIN old # {}
      BY <1>4, <3>1 DEF Shrinks, Dlq!HandlerResolves, CopiesAgree
    <3>3. cycle' = [cycle EXCEPT ![c] = [cycle[c] EXCEPT !.pc = "remove"]]
      BY <1>4 DEF Dlq!HandlerResolves, Dlq!Goto
    <3>4. [cycle[c] EXCEPT !.pc = "remove"] = [pc |-> "remove", todo |-> old]
      BY <3>1
    <3>5. Dlq!Entry(c).match \in onChain
      BY <1>4 DEF Dlq!HandlerResolves
    <3> QED BY <3>1, <3>2, <3>3, <3>4, <3>5 DEF Moved
  <2>3. "remove" \in CyclePcs
    BY DEF CyclePcs
  <2> QED BY <2>1, <2>2, <2>3, QueueStays DEF QueueStep
<1>5. CASE Dlq!HandlerRejects(c) \/ Dlq!RpcFails(c) \/ Dlq!CycleFails(c)
  <2>1. UNCHANGED <<onChain, queue, written, aged, called, submitter, evicting, evicted>>
    BY <1>5 DEF Dlq!HandlerRejects, Dlq!RpcFails, Dlq!CycleFails, Dlq!OnlyCycle, Dlq!store
  <2>2. cycle[c].pc # "idle" /\ (Dlq!Goto(c, "next") \/ Dlq!Ends(c))
    BY <1>5 DEF Dlq!HandlerRejects, Dlq!RpcFails, Dlq!CycleFails
  <2>3. "next" \in CyclePcs \ {"remove"} /\ "idle" \in CyclePcs
    BY DEF CyclePcs
  <2> QED BY <2>1, <2>2, <2>3, CycleMoves, QueueStays DEF QueueStep
<1>6. CASE Dlq!Resolve(c) \/ Dlq!ResolveFails(c)
  <2>1. UNCHANGED <<onChain, called, submitter, evicting, evicted>>
    BY <1>6 DEF Dlq!Resolve, Dlq!ResolveFails, Dlq!OnlyCycle
  <2>2. cycle[c].pc = "remove" /\ Dlq!Goto(c, "next")
    BY <1>6 DEF Dlq!Resolve, Dlq!ResolveFails
  <2>3. "next" \in CyclePcs \ {"remove"}
    BY DEF CyclePcs
  <2>4. Moved(c, "next")
    BY <2>2, <2>3, CycleMoves
  <2>5. CASE UNCHANGED <<queue, written, aged>>
    BY <2>1, <2>3, <2>4, <2>5, QueueStays DEF QueueStep
  <2>6. CASE Dlq!RemoveEntry(Dlq!Handled(c))
    <3>1. Kept /\ aged' = aged
      BY <2>6, QueueKept DEF Dlq!RemoveEntry
    <3>2. LeavesSettled
      <4>1. Dlq!Handled(c) \in DOMAIN cycle[c].todo /\ Dlq!Entry(c).match \in onChain
        BY <2>2, CycleMoves DEF CopiesAgree
      <4>2. DOMAIN queue' = DOMAIN queue \ {Dlq!Handled(c)}
        BY <2>6 DEF Dlq!RemoveEntry, Dlq!Without
      <4>3. Dlq!Handled(c) \in DOMAIN queue => queue[Dlq!Handled(c)].match \in onChain
        BY <4>1 DEF CopiesAgree, Dlq!Entry
      <4> QED BY <4>2, <4>3 DEF LeavesSettled
    <3> QED BY <2>1, <2>3, <2>4, <3>1, <3>2, QueueStays DEF QueueStep
  <2> QED BY <1>6, <2>5, <2>6 DEF Dlq!Resolve, Dlq!ResolveFails, Dlq!store
<1>7. CASE Dlq!NextEntry(c)
  <2>1. UNCHANGED <<onChain, queue, written, aged, called, submitter, evicting, evicted>>
    BY <1>7 DEF Dlq!NextEntry, Dlq!OnlyCycle, Dlq!store
  <2>2. PICK rest \in Copies :
          rest = Dlq!Without(cycle[c].todo, Dlq!Handled(c)) /\ Shrinks(cycle[c].todo, rest)
    BY CycleMoves, WithoutCopy
  <2>3. Moved(c, "idle") \/ Moved(c, "update")
    BY <1>7, <2>2, CycleMoves DEF Dlq!NextEntry
  <2>4. "idle" \in CyclePcs /\ "update" \in CyclePcs
    BY DEF CyclePcs
  <2> QED BY <2>1, <2>3, <2>4, QueueStays DEF QueueStep
<1> QED BY <1>1, <1>2, <1>3, <1>4, <1>5, <1>6, <1>7 DEF Dlq!CycleStep

LEMMA OtherSteps ==
  ASSUME DlqInv,
         \/ Dlq!DeadLetterJob \/ Dlq!ListExpired \/ Dlq!EvictionFails
         \/ \E id \in evicting : Dlq!Evict(id)
         \/ \E id \in (DOMAIN queue \cap MayAge) \ aged : Dlq!Age(id)
         \/ Dlq!CoolDown \/ Dlq!Crash
  PROVE  QueueStep
<1> USE DEF DlqInv
<1>1. CASE Dlq!DeadLetterJob
  <2>1. UNCHANGED <<onChain, aged, called, submitter, cycle, evicting, evicted>>
    BY <1>1 DEF Dlq!DeadLetterJob, Dlq!process, Dlq!Add
  <2>2. Grown(None) /\ LeavesSettled
    BY <1>1, QueueStays DEF Dlq!DeadLetterJob
  <2> QED BY <2>1, <2>2, QueueStays DEF QueueStep, Unmoved
<1>2. CASE Dlq!ListExpired
  <2>1. PICK gone \in SUBSET Dlq!Expired : Dlq!Sweep(gone) /\ evicting' = Dlq!Expired \ gone
    BY <1>2 DEF Dlq!ListExpired, Dlq!Overdue
  <2>2. UNCHANGED <<onChain, aged, called, submitter, cycle>>
    BY <1>2 DEF Dlq!ListExpired, Dlq!Sweep
  <2>3. Kept
    BY <2>1, QueueKept
  <2>4. LeavesSettled /\ evicted \subseteq evicted' /\ evicting' \subseteq aged'
    BY <2>1, <2>2 DEF Dlq!Sweep, LeavesSettled, Dlq!Expired
  <2> QED BY <2>2, <2>3, <2>4, QueueStays DEF QueueStep, Unmoved
<1>3. CASE Dlq!EvictionFails
  <2>1. UNCHANGED <<onChain, queue, written, aged, called, submitter, cycle, evicted>>
        /\ evicting' \subseteq aged'
    BY <1>3 DEF Dlq!EvictionFails, Dlq!store
  <2> QED BY <2>1, QueueStays DEF QueueStep, Unmoved
<1>4. ASSUME NEW id \in evicting, Dlq!Evict(id) PROVE QueueStep
  <2>1. UNCHANGED <<onChain, aged, called, submitter, cycle>> /\ evicting' \subseteq aged'
        /\ id \in aged
    BY <1>4 DEF Dlq!Evict, Dlq!RemoveEntry, QueueTypes
  <2>2. Kept
    BY <1>4, QueueKept DEF Dlq!Evict
  <2>3. DOMAIN queue' = DOMAIN queue \ {id}
    BY <1>4 DEF Dlq!Evict, Dlq!RemoveEntry, Dlq!Without
  <2>4. LeavesSettled /\ evicted \subseteq evicted'
    BY <1>4, <2>1, <2>3 DEF LeavesSettled, Dlq!Evict
  <2> QED BY <2>1, <2>2, <2>4, QueueStays DEF QueueStep, Unmoved
<1>5. ASSUME NEW id, Dlq!Age(id) PROVE QueueStep
  <2>1. UNCHANGED <<onChain, queue, written, called, submitter, cycle, evicted>>
        /\ evicting' \subseteq aged'
    BY <1>5 DEF Dlq!Age, Dlq!process, QueueTypes
  <2> QED BY <2>1, QueueStays DEF QueueStep, Unmoved
<1>6. CASE Dlq!CoolDown
  <2>1. UNCHANGED <<onChain, queue, written, aged, called, submitter, cycle, evicting, evicted>>
    BY <1>6 DEF Dlq!CoolDown, Dlq!store
  <2> QED BY <2>1, QueueStays DEF QueueStep, Unmoved
<1>7. CASE Dlq!Crash
  <2>1. /\ UNCHANGED <<onChain, queue, written, aged, called, evicted>>
        /\ evicting' \subseteq aged' /\ cycle' = [c \in Cycles |-> Dlq!Idle]
    BY <1>7 DEF Dlq!Crash, Dlq!store
  <2>2. SubmitterAnswers
    <3>1. \A m \in Matches :
            /\ [submitter[m] EXCEPT !.pc = "crashed"] \in [pc : SubmitterPcs, attempt : Nat]
            /\ [submitter[m] EXCEPT !.pc = "crashed"].pc = "crashed"
      BY DEF QueueTypes, SubmitterPcs
    <3>2. submitter' = [m \in Matches |->
                          IF submitter[m].pc \in {"handler", "dlq"}
                          THEN [submitter[m] EXCEPT !.pc = "crashed"] ELSE submitter[m]]
      BY <1>7 DEF Dlq!Crash
    <3> QED BY <3>1, <3>2 DEF SubmitterAnswers, QueueTypes
  <2> QED BY <2>1, <2>2, QueueStays DEF QueueStep
<1> QED BY <1>1, <1>2, <1>3, <1>4, <1>5, <1>6, <1>7

LEMMA QueueStepsSo == DlqInv /\ Dlq!Next => QueueStep
<1> SUFFICES ASSUME DlqInv, Dlq!Next PROVE QueueStep
  OBVIOUS
<1> QED BY SubmitterSteps, CycleSteps, OtherSteps DEF Dlq!Next

-----------------------------------------------------------------------------
(* Such a step keeps the invariant.                                        *)

\* A step of that shape keeps each part of the invariant.
LEMMA QueueTypesStep == QueueTypes /\ CopiesAgree /\ QueueStep => QueueTypes'
<1> SUFFICES ASSUME QueueTypes, CopiesAgree, QueueStep PROVE QueueTypes'
  OBVIOUS
<1>1. written \in Nat /\ written <= written' /\ written' \in 0 .. MaxEntries /\ queue' \in Copies
      /\ \A id \in DOMAIN queue' : id <= written'
  <2>1. CASE Kept
    BY <2>1, QueueConstants DEF Kept, Shrinks, QueueTypes
  <2>2. ASSUME NEW m \in Matches \cup {None}, Grown(m)
        PROVE  /\ written \in Nat /\ written <= written' /\ written' \in 0 .. MaxEntries
               /\ queue' \in Copies
               /\ \A id \in DOMAIN queue' : id <= written'
    <3>1. DOMAIN queue \subseteq Dlq!Ids
      BY CopyIs DEF QueueTypes
    <3> QED BY <2>2, <3>1, QueueConstants DEF Grown, QueueTypes, Dlq!Ids
  <2> QED BY <2>1, <2>2 DEF QueueStep
<1>2. cycle' \in [Cycles -> [pc : CyclePcs, todo : Copies]]
  <2>1. CASE Unmoved
    BY <2>1 DEF Unmoved, QueueTypes
  <2>2. ASSUME NEW c \in Cycles, NEW pc \in CyclePcs, Moved(c, pc)
        PROVE  cycle' \in [Cycles -> [pc : CyclePcs, todo : Copies]]
    <3>1. PICK r \in [pc : CyclePcs, todo : Copies] : cycle' = [cycle EXCEPT ![c] = r]
      BY <2>2 DEF Moved
    <3> QED BY <3>1 DEF QueueTypes
  <2>3. CASE cycle' = [c \in Cycles |-> Dlq!Idle]
    <3>1. Dlq!Idle \in [pc : CyclePcs, todo : Copies]
      BY EmptyCopy DEF Dlq!Idle, CyclePcs
    <3> QED BY <2>3, <3>1
  <2> QED BY <2>1, <2>2, <2>3 DEF QueueStep
<1>3. \A id \in Dlq!Ids : id > written' => called'[id] = 0
  <2>1. \A id \in Dlq!Ids : id > written' => id > written
    BY <1>1, QueueConstants DEF Dlq!Ids
  <2> QED BY <2>1 DEF QueueStep, CallsCount, QueueTypes
<1> QED BY <1>1, <1>2, <1>3 DEF QueueStep, SubmitterAnswers, CallsCount, QueueTypes

\* What agrees with a copy agrees with a smaller one.
LEMMA CopiesAgreeStep == QueueTypes /\ CopiesAgree /\ QueueStep => CopiesAgree'
<1> SUFFICES ASSUME QueueTypes, CopiesAgree, QueueStep, NEW d \in Cycles
             PROVE  /\ cycle'[d].pc # "idle" => DOMAIN cycle'[d].todo # {}
                    /\ \A id \in DOMAIN cycle'[d].todo :
                         /\ id <= written'
                         /\ id \in DOMAIN queue' => queue'[id].match = cycle'[d].todo[id].match
                    /\ cycle'[d].pc = "remove" => Dlq!Entry(d)'.match \in onChain'
  BY DEF CopiesAgree
<1>1. /\ written \in Nat /\ written' \in Nat /\ written <= written'
      /\ \A id \in DOMAIN queue' : id <= written =>
           id \in DOMAIN queue /\ queue'[id].match = queue[id].match
      /\ \A id \in DOMAIN queue' : id <= written'
  <2>1. CASE Kept
    BY <2>1, QueueConstants DEF Kept, Shrinks, QueueTypes
  <2>2. ASSUME NEW m \in Matches \cup {None}, Grown(m)
        PROVE  /\ written \in Nat /\ written' \in Nat /\ written <= written'
               /\ \A id \in DOMAIN queue' : id <= written =>
                    id \in DOMAIN queue /\ queue'[id].match = queue[id].match
               /\ \A id \in DOMAIN queue' : id <= written'
    <3>1. written \in Nat /\ written' = written + 1
      BY <2>2, QueueConstants DEF Grown, QueueTypes
    <3>2. \A id \in DOMAIN queue : id <= written + 1
      BY CopyIs, QueueConstants DEF QueueTypes, Dlq!Ids
    <3> QED BY <2>2, <3>1, <3>2 DEF Grown
  <2> QED BY <2>1, <2>2 DEF QueueStep
<1>a. \A c \in Cycles : \A id \in DOMAIN cycle[c].todo : id \in Nat
  BY CopyIs, QueueConstants DEF QueueTypes, Dlq!Ids
<1>2. ASSUME cycle'[d] = cycle[d]
      PROVE  /\ cycle'[d].pc # "idle" => DOMAIN cycle'[d].todo # {}
             /\ \A id \in DOMAIN cycle'[d].todo :
                  /\ id <= written'
                  /\ id \in DOMAIN queue' => queue'[id].match = cycle'[d].todo[id].match
             /\ cycle'[d].pc = "remove" => Dlq!Entry(d)'.match \in onChain'
  <2>1. Dlq!Entry(d)' = Dlq!Entry(d) /\ onChain \subseteq onChain'
    BY <1>2 DEF Dlq!Entry, Dlq!Handled, QueueStep
  <2> QED BY <1>1, <1>2, <1>a, <2>1 DEF CopiesAgree
<1>3. ASSUME NEW pc \in CyclePcs, Moved(d, pc)
      PROVE  /\ cycle'[d].pc # "idle" => DOMAIN cycle'[d].todo # {}
             /\ \A id \in DOMAIN cycle'[d].todo :
                  /\ id <= written'
                  /\ id \in DOMAIN queue' => queue'[id].match = cycle'[d].todo[id].match
             /\ cycle'[d].pc = "remove" => Dlq!Entry(d)'.match \in onChain'
  <2>1. PICK todo \in Copies :
          /\ cycle'[d].pc = pc /\ cycle'[d].todo = todo
          /\ pc # "idle" => DOMAIN todo # {}
          /\ pc = "remove" => todo = cycle[d].todo /\ Dlq!Entry(d).match \in onChain
          /\ Shrinks(cycle[d].todo, todo) \/ Shrinks(queue', todo)
    BY <1>3 DEF Moved, QueueTypes
  <2>2. \A id \in DOMAIN todo :
          /\ id <= written'
          /\ id \in DOMAIN queue' => queue'[id].match = todo[id].match
    <3>1. CASE Shrinks(cycle[d].todo, todo)
      BY <1>1, <1>a, <3>1 DEF CopiesAgree, Shrinks
    <3>2. CASE Shrinks(queue', todo)
      BY <1>1, <3>2 DEF Shrinks
    <3> QED BY <2>1, <3>1, <3>2
  <2>3. pc = "remove" => Dlq!Entry(d)'.match \in onChain'
    BY <2>1 DEF Dlq!Entry, Dlq!Handled, QueueStep
  <2> QED BY <2>1, <2>2, <2>3
<1>4. CASE cycle' = [c \in Cycles |-> Dlq!Idle]
  BY <1>4, EmptyCopy DEF Dlq!Idle
<1>5. Unmoved \/ (\E c \in Cycles, pc \in CyclePcs : Moved(c, pc))
       \/ cycle' = [c \in Cycles |-> Dlq!Idle]
  BY DEF QueueStep
<1>6. ASSUME NEW c \in Cycles \ {d}, NEW pc \in CyclePcs, Moved(c, pc)
      PROVE  cycle'[d] = cycle[d]
  BY <1>6 DEF Moved, QueueTypes
<1>7. Unmoved => cycle'[d] = cycle[d]
  BY DEF Unmoved
<1> QED BY <1>2, <1>3, <1>4, <1>5, <1>6, <1>7

LEMMA DroppedStep == QueueTypes /\ Dlq!NothingDropped /\ QueueStep => Dlq!NothingDropped'
<1> SUFFICES ASSUME QueueTypes, Dlq!NothingDropped, QueueStep, NEW m \in Matches
             PROVE  /\ submitter'[m].pc = "settled" => m \in onChain'
                    /\ submitter'[m].pc = "queued" => m \in onChain' \/ m \in evicted' \/ Dlq!Pending(m)'
  BY DEF Dlq!NothingDropped
<1>1. submitter'[m].pc = "settled" => m \in onChain'
  BY DEF Dlq!NothingDropped, QueueStep, SubmitterAnswers
<1>2. ASSUME Dlq!Pending(m) PROVE m \in onChain' \/ m \in evicted' \/ Dlq!Pending(m)'
  <2>1. PICK id \in DOMAIN queue : queue[id].match = m
    BY <1>2 DEF Dlq!Pending
  <2>2. CASE id \in DOMAIN queue'
    <3>1. queue'[id].match = m
      BY <2>1, <2>2 DEF QueueStep, Kept, Grown, Shrinks
    <3> QED BY <2>2, <3>1 DEF Dlq!Pending
  <2>3. CASE id \notin DOMAIN queue'
    BY <2>1, <2>3 DEF QueueStep, LeavesSettled
  <2> QED BY <2>2, <2>3
<1>3. Grown(m) => Dlq!Pending(m)'
  BY DEF Grown, Dlq!Pending
<1>4. submitter'[m].pc = "queued" => submitter[m].pc = "queued" \/ Grown(m)
  BY DEF QueueStep, SubmitterAnswers
<1>5. m \in onChain \/ m \in evicted => m \in onChain' \/ m \in evicted'
  BY DEF QueueStep
<1> QED BY <1>1, <1>2, <1>3, <1>4, <1>5 DEF Dlq!NothingDropped

LEMMA QueueInit == Dlq!Init => DlqInv
<1> SUFFICES ASSUME Dlq!Init PROVE DlqInv
  OBVIOUS
<1>1. queue = << >> /\ queue \in Copies /\ DOMAIN queue = {} /\ written = 0 /\ evicting = {}
  BY EmptyCopy DEF Dlq!Init
<1>2. Dlq!NotStarted \in [pc : SubmitterPcs, attempt : Nat] /\ Dlq!NotStarted.pc = "idle"
  BY DEF Dlq!NotStarted, SubmitterPcs
<1>3. Dlq!Idle \in [pc : CyclePcs, todo : Copies] /\ Dlq!Idle.pc = "idle"
      /\ Dlq!Idle.todo = << >> /\ DOMAIN Dlq!Idle.todo = {}
  BY EmptyCopy DEF Dlq!Idle, CyclePcs
<1>4. /\ submitter \in [Matches -> [pc : SubmitterPcs, attempt : Nat]]
      /\ \A m \in Matches : submitter[m].pc = "idle"
  BY <1>2 DEF Dlq!Init
<1>5. /\ cycle \in [Cycles -> [pc : CyclePcs, todo : Copies]]
      /\ \A c \in Cycles : cycle[c].pc = "idle" /\ DOMAIN cycle[c].todo = {}
  BY <1>3 DEF Dlq!Init
<1>6. called \in [Dlq!Ids -> Nat] /\ \A id \in Dlq!Ids : called[id] = 0
  BY DEF Dlq!Init
<1>7. QueueTypes
  BY <1>1, <1>4, <1>5, <1>6, QueueConstants DEF QueueTypes
<1>8. CopiesAgree
  BY <1>5 DEF CopiesAgree
<1>9. Dlq!NothingDropped
  BY <1>4 DEF Dlq!NothingDropped
<1> QED BY <1>7, <1>8, <1>9 DEF DlqInv

LEMMA QueueInvariant == QueueSpec => []DlqInv
<1>1. Dlq!Init => DlqInv
  BY QueueInit
<1>2. DlqInv /\ [Dlq!Next]_queueVars => DlqInv'
  <2> SUFFICES ASSUME DlqInv, [Dlq!Next]_queueVars PROVE DlqInv'
    OBVIOUS
  <2>1. CASE Dlq!Next
    BY <2>1, QueueStepsSo, QueueTypesStep, CopiesAgreeStep, DroppedStep DEF DlqInv
  <2>2. CASE UNCHANGED queueVars
    BY <2>2 DEF queueVars, DlqInv, QueueTypes, CopiesAgree, Dlq!NothingDropped, Dlq!Pending,
       Dlq!Entry, Dlq!Handled
  <2> QED BY <2>1, <2>2
<1> QED BY <1>1, <1>2, PTL DEF QueueSpec

\* A submission submitWithIdempotence answered for is on the chain, queued, or was evicted, with any
\* number of cycles of the retry worker at once, whatever fails or crashes.
THEOREM AnswersAreKept == SettlementSpec => []Dlq!NothingDropped
<1>1. DlqInv => Dlq!NothingDropped
  BY DEF DlqInv
<1> QED BY <1>1, QueueInvariant, QueueSteps, PTL

\* An entry leaves the queue only when its result is on the chain or it has outlived the TTL,
\* whatever handlers, store calls and overlapping cycles do (removeDlqEntry,
\* evictExpiredDlqEntries).
THEOREM OnlySettledEntriesLeave == SettlementSpec => OnlySettledLeaves
<1>1. DlqInv /\ [Dlq!Next]_queueVars =>
        [\A id \in DOMAIN queue \ DOMAIN queue' : queue[id].match \in onChain \/ id \in aged]_(Dlq!vars)
  <2> SUFFICES ASSUME DlqInv, [Dlq!Next]_queueVars
      PROVE [\A id \in DOMAIN queue \ DOMAIN queue' : queue[id].match \in onChain \/ id \in aged]_(Dlq!vars)
    OBVIOUS
  <2>1. CASE Dlq!Next
    BY <2>1, QueueStepsSo DEF QueueStep, LeavesSettled
  <2>2. CASE UNCHANGED queueVars
    BY <2>2 DEF queueVars, Dlq!vars, Dlq!store, Dlq!process
  <2> QED BY <2>1, <2>2
<1> QED BY <1>1, QueueInvariant, QueueSteps, PTL DEF QueueSpec, OnlySettledLeaves, Dlq!OnlySettledLeaves

-----------------------------------------------------------------------------
(* The attempts of an entry, when cycles do not overlap.                   *)

\* At most one cycle of the retry worker at a time.
OneCycle == \A c, d \in Cycles : c = d

\* What a cycle's list says of the attempts is not behind the calls that were made.
CycleCounts(c) ==
  \A id \in DOMAIN cycle[c].todo :
    /\ cycle[c].pc = "listed" \/ id # Dlq!Handled(c) => cycle[c].todo[id].attempts >= called[id]
    /\ cycle[c].pc = "update" /\ id = Dlq!Handled(c) =>
         cycle[c].todo[id].attempts >= Dlq!More(called[id])
CountInv == Dlq!AttemptsCounted /\ \A c \in Cycles : CycleCounts(c)

\* A move that calls nothing keeps the count.
LEMMA CountMoves ==
  ASSUME QueueTypes, called' = called, NEW c \in Cycles
  PROVE  /\ cycle'[c] = cycle[c] /\ CycleCounts(c) => CycleCounts(c)'
         /\ cycle'[c] = Dlq!Idle => CycleCounts(c)'
         /\ Dlq!Ends(c) => CycleCounts(c)'
         /\ \A pc \in {"handler", "remove", "next"} :
              CycleCounts(c) /\ Dlq!Goto(c, pc) => CycleCounts(c)'
         /\ \A todo \in Copies :
              /\ DOMAIN todo # {}
              /\ \A id \in DOMAIN todo : todo[id].attempts >= called[id]
              /\ Dlq!Attempt(c, todo)
              => CycleCounts(c)'
<1>1. ASSUME cycle'[c] = cycle[c], CycleCounts(c) PROVE CycleCounts(c)'
  BY <1>1 DEF CycleCounts, Dlq!Handled
<1>2. ASSUME cycle'[c] = Dlq!Idle PROVE CycleCounts(c)'
  BY <1>2, EmptyCopy DEF CycleCounts, Dlq!Idle
<1>3. Dlq!Ends(c) => cycle'[c] = Dlq!Idle
  BY DEF Dlq!Ends, QueueTypes
<1>4. ASSUME NEW pc \in {"handler", "remove", "next"}, CycleCounts(c), Dlq!Goto(c, pc)
      PROVE  CycleCounts(c)'
  <2>1. cycle'[c].pc = pc /\ cycle'[c].todo = cycle[c].todo
    <3>1. cycle'[c] = [cycle[c] EXCEPT !.pc = pc]
      BY <1>4 DEF Dlq!Goto, QueueTypes
    <3>2. cycle[c] \in [pc : CyclePcs, todo : Copies]
      BY DEF QueueTypes
    <3> QED BY <3>1, <3>2
  <2> QED BY <1>4, <2>1 DEF CycleCounts, Dlq!Handled
<1>5. ASSUME NEW todo \in Copies, DOMAIN todo # {},
             \A id \in DOMAIN todo : todo[id].attempts >= called[id],
             Dlq!Attempt(c, todo)
      PROVE  CycleCounts(c)'
  <2>1. PICK new : new = Dlq!Attempts(todo)
    OBVIOUS
  <2>2. cycle'[c].pc = "update" /\ cycle'[c].todo = new
    BY <1>5, <2>1 DEF Dlq!Attempt, QueueTypes
  <2>3. Dlq!Handled(c)' = Dlq!Oldest(todo) /\ DOMAIN new = DOMAIN todo
        /\ \A i \in DOMAIN todo :
             new[i].attempts = IF i = Dlq!Oldest(todo) THEN Dlq!More(todo[i].attempts)
                               ELSE todo[i].attempts
    BY <1>5, <2>1, <2>2, AttemptsCopy DEF Dlq!Handled
  <2>4. \A i \in DOMAIN todo : /\ todo[i].attempts \in Nat /\ called[i] \in Nat
                               /\ Dlq!More(called[i]) <= Dlq!More(todo[i].attempts)
    BY <1>5, CopyIs, MoreCounts DEF QueueTypes
  <2> QED BY <1>5, <2>2, <2>3, <2>4 DEF CycleCounts
<1> QED BY <1>1, <1>2, <1>3, <1>4, <1>5

\* Only a call changes counts; an entry that is added has none.
LEMMA QuietSteps ==
  ASSUME DlqInv, Dlq!Next, \A c \in Cycles : ~ Dlq!CallHandler(c)
  PROVE  /\ called' = called
         /\ \/ \A id \in DOMAIN queue' : id \in DOMAIN queue /\ queue'[id] = queue[id]
            \/ \E m \in Matches \cup {None} : Grown(m)
<1> USE DEF DlqInv
<1>a. ASSUME NEW gone, Dlq!Sweep(gone)
      PROVE  \A id \in DOMAIN queue' : id \in DOMAIN queue /\ queue'[id] = queue[id]
  BY <1>a DEF Dlq!Sweep
<1>b. ASSUME NEW id, Dlq!RemoveEntry(id)
      PROVE  \A i \in DOMAIN queue' : i \in DOMAIN queue /\ queue'[i] = queue[i]
  BY <1>b DEF Dlq!RemoveEntry, Dlq!Without
<1>1. ASSUME NEW m \in Matches,
             \/ Dlq!Check(m) \/ Dlq!SubmitResolves(m) \/ Dlq!SubmitRejects(m)
             \/ Dlq!WriteToDlq(m) \/ Dlq!Apply(m)
      PROVE  /\ called' = called
             /\ queue' = queue \/ \E k \in Matches \cup {None} : Grown(k)
  BY <1>1, QueueStays DEF Dlq!Check, Dlq!SubmitResolves, Dlq!SubmitRejects, Dlq!WriteToDlq,
     Dlq!Apply, Dlq!OnlySubmitter, Dlq!store
<1>2. ASSUME Dlq!DeadLetterJob
      PROVE  /\ called' = called
             /\ \E k \in Matches \cup {None} : Grown(k)
  BY <1>2, QueueStays DEF Dlq!DeadLetterJob
<1>3. ASSUME NEW c \in Cycles, Dlq!CycleStep(c)
      PROVE  /\ called' = called
             /\ \A id \in DOMAIN queue' : id \in DOMAIN queue /\ queue'[id] = queue[id]
  <2>1. CASE Dlq!List(c)
    BY <1>a, <2>1 DEF Dlq!List
  <2>2. CASE Dlq!Resolve(c) \/ Dlq!ResolveFails(c)
    BY <1>b, <2>2 DEF Dlq!Resolve, Dlq!ResolveFails, Dlq!store
  <2>3. CASE \/ Dlq!Start(c) \/ Dlq!HandlerResolves(c) \/ Dlq!HandlerRejects(c)
             \/ Dlq!RpcFails(c) \/ Dlq!NextEntry(c) \/ Dlq!CycleFails(c)
    BY <2>3 DEF Dlq!Start, Dlq!HandlerResolves, Dlq!HandlerRejects, Dlq!RpcFails,
       Dlq!NextEntry, Dlq!CycleFails, Dlq!store
  <2> QED BY <1>3, <2>1, <2>2, <2>3 DEF Dlq!CycleStep
<1>4. ASSUME \/ Dlq!ListExpired \/ Dlq!EvictionFails
             \/ \E id \in evicting : Dlq!Evict(id)
             \/ \E id \in (DOMAIN queue \cap MayAge) \ aged : Dlq!Age(id)
             \/ Dlq!CoolDown \/ Dlq!Crash
      PROVE  /\ called' = called
             /\ \A id \in DOMAIN queue' : id \in DOMAIN queue /\ queue'[id] = queue[id]
  BY <1>4, <1>a, <1>b DEF Dlq!ListExpired, Dlq!EvictionFails, Dlq!Evict, Dlq!Age, Dlq!CoolDown,
     Dlq!Crash, Dlq!store
<1> QED BY <1>1, <1>2, <1>3, <1>4 DEF Dlq!Next

\* With one cycle at a time, every step keeps the count.
LEMMA CountInvNext ==
  ASSUME OneCycle, DlqInv, CountInv, Dlq!Next
  PROVE  CountInv'
<1> USE DEF DlqInv
<1>1. ASSUME NEW c \in Cycles, Dlq!CallHandler(c) PROVE CountInv'
  <2>1. PICK id \in Dlq!Ids, n \in Nat, k \in Nat :
          /\ id = Dlq!Handled(c) /\ n = Dlq!Entry(c).attempts
          /\ k = Dlq!More(called[id]) /\ k <= n
    <3>1. Dlq!Handled(c) \in DOMAIN cycle[c].todo /\ Dlq!Handled(c) \in Dlq!Ids
          /\ Dlq!Entry(c).attempts \in Nat /\ cycle[c].pc = "update"
      BY <1>1, CycleMoves DEF Dlq!CallHandler
    <3>2. Dlq!More(called[Dlq!Handled(c)]) \in Nat
      BY <3>1, MoreCounts DEF QueueTypes
    <3>3. Dlq!Entry(c).attempts >= Dlq!More(called[Dlq!Handled(c)])
      BY <3>1 DEF CountInv, CycleCounts, Dlq!Entry
    <3> QED BY <3>1, <3>2, <3>3
  <2>2. called' = [called EXCEPT ![id] = k]
    BY <1>1, <2>1 DEF Dlq!CallHandler
  <2>3. \A i \in Dlq!Ids : called'[i] = IF i = id THEN k ELSE called[i]
    BY <2>2 DEF QueueTypes
  <2>4. Dlq!AttemptsCounted'
    <3>1. queue' = [i \in DOMAIN queue |->
                      IF i = id THEN [queue[i] EXCEPT !.attempts = n] ELSE queue[i]]
      BY <1>1, <2>1 DEF Dlq!CallHandler, Dlq!Update
    <3>2. \A i \in DOMAIN queue : /\ [queue[i] EXCEPT !.attempts = n].attempts = n
                                  /\ i \in Dlq!Ids
      BY CopyIs DEF QueueTypes, QueueEntries
    <3>3. ASSUME NEW i \in DOMAIN queue' PROVE queue'[i].attempts >= called'[i]
      <4>1. i \in DOMAIN queue
        BY <3>1
      <4>2. CASE i = id
        BY <2>1, <2>3, <3>1, <3>2, <4>1, <4>2
      <4>3. CASE i # id
        BY <2>3, <3>1, <3>2, <4>1, <4>3 DEF CountInv, Dlq!AttemptsCounted
      <4> QED BY <4>2, <4>3
    <3> QED BY <3>3 DEF Dlq!AttemptsCounted
  <2>5. CycleCounts(c)'
    <3>1. cycle'[c].pc = "handler" /\ cycle'[c].todo = cycle[c].todo
      <4>1. cycle'[c] = [cycle[c] EXCEPT !.pc = "handler"]
        BY <1>1 DEF Dlq!CallHandler, Dlq!Goto, QueueTypes
      <4>2. cycle[c] \in [pc : CyclePcs, todo : Copies]
        BY DEF QueueTypes
      <4> QED BY <4>1, <4>2
    <3>2. Dlq!Handled(c)' = id
      BY <2>1, <3>1 DEF Dlq!Handled
    <3>3. DOMAIN cycle[c].todo \subseteq Dlq!Ids
      BY CopyIs DEF QueueTypes
    <3> QED BY <2>1, <2>3, <3>1, <3>2, <3>3 DEF CountInv, CycleCounts
  <2>6. \A d \in Cycles : d = c
    BY DEF OneCycle
  <2> QED BY <2>4, <2>5, <2>6 DEF CountInv
<1>2. CASE \A c \in Cycles : ~ Dlq!CallHandler(c)
  <2>1. called' = called
    BY <1>2, QuietSteps
  <2>2. Dlq!AttemptsCounted'
    <3>1. CASE \A id \in DOMAIN queue' : id \in DOMAIN queue /\ queue'[id] = queue[id]
      BY <2>1, <3>1 DEF CountInv, Dlq!AttemptsCounted
    <3>2. ASSUME NEW m \in Matches \cup {None}, Grown(m) PROVE Dlq!AttemptsCounted'
      <4>1. queue'[written'].attempts = 0 /\ called'[written'] = 0
        <5>1. written' \in Dlq!Ids /\ written' > written
          BY <3>2, QueueConstants DEF Grown, QueueTypes
        <5> QED BY <2>1, <3>2, <5>1 DEF Grown, QueueTypes
      <4> QED BY <2>1, <3>2, <4>1 DEF Grown, CountInv, Dlq!AttemptsCounted
    <3> QED BY <1>2, <3>1, <3>2, QuietSteps
  <2>3. ASSUME NEW c \in Cycles, Dlq!CycleStep(c) PROVE CycleCounts(c)'
    <3>1. CycleCounts(c) /\ cycle[c].todo \in Copies
      BY CycleMoves DEF CountInv
    <3>2. CASE Dlq!List(c)
      <4>1. \/ cycle'[c] = Dlq!Idle
            \/ cycle'[c] = [pc |-> "listed", todo |-> queue']
        BY <3>2 DEF Dlq!List, QueueTypes
      <4>2. ASSUME cycle'[c] = [pc |-> "listed", todo |-> queue'] PROVE CycleCounts(c)'
        BY <2>2, <4>2 DEF CycleCounts, Dlq!AttemptsCounted
      <4> QED BY <2>1, <4>1, <4>2, CountMoves
    <3>3. CASE Dlq!Start(c)
      <4>1. /\ DOMAIN cycle[c].todo # {}
            /\ \A id \in DOMAIN cycle[c].todo : cycle[c].todo[id].attempts >= called[id]
        BY <3>1, <3>3 DEF CycleCounts, Dlq!Start, CopiesAgree
      <4> QED BY <2>1, <3>1, <3>3, <4>1, CountMoves DEF Dlq!Start
    <3>4. CASE \/ Dlq!HandlerResolves(c) \/ Dlq!HandlerRejects(c) \/ Dlq!RpcFails(c)
               \/ Dlq!Resolve(c) \/ Dlq!ResolveFails(c) \/ Dlq!CycleFails(c)
      <4>1. Dlq!Goto(c, "next") \/ Dlq!Goto(c, "remove") \/ Dlq!Ends(c)
        BY <3>4 DEF Dlq!HandlerResolves, Dlq!HandlerRejects, Dlq!RpcFails, Dlq!Resolve,
           Dlq!ResolveFails, Dlq!CycleFails
      <4> QED BY <2>1, <3>1, <4>1, CountMoves
    <3>5. CASE Dlq!NextEntry(c)
      <4>a. PICK rest : rest = Dlq!Without(cycle[c].todo, Dlq!Handled(c))
        OBVIOUS
      <4>1. /\ rest \in Copies /\ DOMAIN rest = DOMAIN cycle[c].todo \ {Dlq!Handled(c)}
            /\ \A i \in DOMAIN cycle[c].todo \ {Dlq!Handled(c)} : rest[i] = cycle[c].todo[i]
        BY <3>1, <4>a, WithoutCopy
      <4>2. \A id \in DOMAIN rest : rest[id].attempts >= called[id]
        BY <3>1, <4>1 DEF CycleCounts
      <4>3. Dlq!Ends(c) \/ (DOMAIN rest # {} /\ Dlq!Attempt(c, rest))
        BY <3>5, <4>a DEF Dlq!NextEntry
      <4> QED BY <2>1, <4>1, <4>2, <4>3, CountMoves
    <3> QED BY <1>2, <2>3, <3>2, <3>3, <3>4, <3>5 DEF Dlq!CycleStep
  <2>4. ASSUME ~ \E c \in Cycles : Dlq!CycleStep(c), NEW d \in Cycles PROVE CycleCounts(d)'
    <3>1. cycle'[d] = cycle[d] \/ cycle'[d] = Dlq!Idle
      BY <2>4 DEF Dlq!Next, Dlq!Check, Dlq!SubmitResolves, Dlq!SubmitRejects, Dlq!WriteToDlq,
         Dlq!Apply, Dlq!OnlySubmitter, Dlq!DeadLetterJob, Dlq!ListExpired, Dlq!EvictionFails,
         Dlq!Evict, Dlq!Age, Dlq!CoolDown, Dlq!Crash, Dlq!process
    <3>2. CycleCounts(d)
      BY DEF CountInv
    <3> QED BY <2>1, <3>1, <3>2, CountMoves
  <2>5. \A c, d \in Cycles : c = d
    BY DEF OneCycle
  <2>6. \A d \in Cycles : CycleCounts(d)'
    BY <2>3, <2>4, <2>5
  <2> QED BY <2>2, <2>6 DEF CountInv
<1> QED BY <1>1, <1>2

\* With one cycle at a time a submission that was answered for is never dropped
\* and its attempts count every call of the handler.
THEOREM NothingIsDropped == OneCycle => (SettlementSpec => []NothingDropped)
<1> SUFFICES ASSUME OneCycle PROVE SettlementSpec => []NothingDropped
  OBVIOUS
<1>1. Dlq!Init => CountInv
  <2> SUFFICES ASSUME Dlq!Init PROVE CountInv
    OBVIOUS
  <2>1. \A c \in Cycles : cycle[c] = [pc |-> "idle", todo |-> << >>]
    BY DEF Dlq!Init, Dlq!Idle
  <2>2. queue = << >>
    BY DEF Dlq!Init
  <2> QED BY <2>1, <2>2, EmptyCopy DEF CountInv, CycleCounts, Dlq!AttemptsCounted
<1>2. DlqInv /\ CountInv /\ [Dlq!Next]_queueVars => CountInv'
  <2> SUFFICES ASSUME DlqInv, CountInv, [Dlq!Next]_queueVars PROVE CountInv'
    OBVIOUS
  <2>1. CASE Dlq!Next
    BY <2>1, CountInvNext
  <2>2. CASE UNCHANGED queueVars
    BY <2>2 DEF queueVars, CountInv, Dlq!AttemptsCounted, CycleCounts, Dlq!Handled
  <2> QED BY <2>1, <2>2
<1>3. DlqInv /\ CountInv => NothingDropped
  BY DEF DlqInv, CountInv, NothingDropped
<1> QED BY <1>1, <1>2, <1>3, QueueInvariant, QueueSteps, PTL DEF QueueSpec
=============================================================================
