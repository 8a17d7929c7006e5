-------------------------- MODULE LiveRestoreProofs --------------------------
(***************************************************************************)
(* Theorems about LiveRestore, for every set of entries and any number of  *)
(* backups, restores and crashes.                                          *)
(***************************************************************************)
EXTENDS LiveRestore, TLAPS

Stages == {"new", "queued", "resolved", "rejected"}
Steps  == {"none", "hold", "snapshot", "copied", "readd", "drop", "release"}

TypeOK ==
  /\ file \in SUBSET Ids /\ backup \in SUBSET Ids /\ onChain \in SUBSET Ids
  /\ dbOpen \in BOOLEAN /\ torn \in BOOLEAN /\ gate \in {"open", "held"}
  /\ op \in [Ids -> {"idle", "waiting", "woken", "running"}]
  /\ stage \in [Ids -> Stages]
  /\ restore \in [pc : Steps, live : SUBSET Ids, pre : SUBSET Ids,
                  restored : SUBSET Ids, todo : SUBSET Ids]

\* The gate is held exactly while a restore runs.
GateOfRestore == gate = "held" <=> restore.pc # "none"

\* A call has a cause, which it keeps: an entry to add, or one to remove
\* because its result is on the chain, where that of a resolved one is.
CallsHaveCause ==
  \A id \in Ids :
    /\ op[id] # "idle" => stage[id] = "new" \/ (stage[id] = "queued" /\ id \in onChain)
    /\ stage[id] = "resolved" => id \in onChain

\* The database f holds the work still to be done.
Whole(f) ==
  \A id \in Ids : /\ stage[id] = "queued" => id \in f \/ id \in onChain
                  /\ stage[id] = "resolved" => id \notin f

\* At each await of the restore, where the work still to be done is: in the
\* file before the swap; after it in the copy and in the list of live entries,
\* and in the file but for what `todo` is going to repair.
Recoverable ==
  ~ torn =>
    /\ restore.pc \notin {"readd", "drop"} => Whole(file)
    /\ restore.pc \in {"snapshot", "copied", "readd", "drop"} => Whole(restore.live)
    /\ restore.pc \in {"copied", "readd", "drop"} => Whole(restore.pre)
    /\ restore.pc = "readd" =>
         /\ restore.live \subseteq file \cup restore.todo
         /\ restore.todo \subseteq restore.live
         /\ file \subseteq restore.live \cup restore.restored
    /\ restore.pc = "drop" =>
         /\ restore.live \subseteq file
         /\ restore.todo \cap restore.live = {}
         /\ \A id \in file : stage[id] = "resolved" => id \in restore.todo

IInv == TypeOK /\ GateOfRestore /\ Quiesced /\ CallsHaveCause /\ Recoverable

-----------------------------------------------------------------------------
LEMMA InitIInv == Init => IInv
<1> SUFFICES ASSUME Init PROVE IInv
  OBVIOUS
<1>1. TypeOK
  BY DEF Init, TypeOK, NoRestore, Stages, Steps
<1>2. GateOfRestore /\ Quiesced /\ CallsHaveCause
  BY DEF Init, NoRestore, GateOfRestore, Quiesced, Touching, CallsHaveCause
<1>3. Recoverable
  BY DEF Init, NoRestore, Recoverable, Whole
<1> QED
  BY <1>1, <1>2, <1>3 DEF IInv

\* The awaits of performLiveRestore, one by one.
LEMMA RestoreStepIInv == IInv /\ RestoreStep => IInv'
<1> SUFFICES ASSUME IInv, RestoreStep PROVE IInv'
  OBVIOUS
<1> USE DEF IInv, TypeOK, Stages, Steps, At, Goto, Workers, GateOfRestore, Quiesced, Touching,
            Drained, CallsHaveCause, Recoverable, Whole
<1>1. CASE Snapshot
  BY <1>1 DEF Snapshot
<1>2. CASE CopyAside
  BY <1>2 DEF CopyAside
<1>3. CASE Swap
  BY <1>3 DEF Swap
<1>4. CASE ReAdded
  BY <1>4 DEF ReAdded
<1>5. CASE Reconciled
  BY <1>5 DEF Reconciled
<1>6. CASE Release
  BY <1>6 DEF Release, NoRestore
<1>7. CASE FailsBefore
  BY <1>7 DEF FailsBefore
<1>8. CASE CopyFails
  BY <1>8 DEF CopyFails
<1>9. CASE Fails
  BY <1>9 DEF Fails, Swapped
<1>10. CASE RollbackFails
  BY <1>10 DEF RollbackFails, Swapped
<1>11. ASSUME NEW id \in restore.todo, ReAdd(id) PROVE IInv'
  <2>1. /\ restore' = [restore EXCEPT !.todo = restore.todo \ {id}]
        /\ file' = file \cup {id} /\ id \in Ids
        /\ UNCHANGED <<dbOpen, gate, op, stage, onChain, backup, torn>>
    BY <1>11 DEF ReAdd
  <2>2. TypeOK'
    BY <2>1
  <2>3. GateOfRestore' /\ Quiesced' /\ CallsHaveCause'
    BY <2>1
  <2>4. Recoverable'
    <3>1. /\ restore.pc = "readd" /\ restore'.pc = "readd"
          /\ restore'.live = restore.live /\ restore'.pre = restore.pre
          /\ restore'.restored = restore.restored /\ restore'.todo = restore.todo \ {id}
      BY <1>11, <2>1 DEF ReAdd
    <3>2. ~ torn => id \in restore.live
      BY <3>1
    <3> QED
      BY <2>1, <3>1, <3>2
  <2> QED
    BY <2>2, <2>3, <2>4
<1>12. ASSUME NEW id \in restore.todo, Reconcile(id) PROVE IInv'
  BY <1>12 DEF Reconcile
<1> HIDE DEF IInv
<1> QED
  BY <1>1, <1>2, <1>3, <1>4, <1>5, <1>6, <1>7, <1>8, <1>9, <1>10, <1>11, <1>12
     DEF RestoreStep

LEMMA NextIInv == IInv /\ [Next]_vars => IInv'
<1> SUFFICES ASSUME IInv, [Next]_vars PROVE IInv'
  OBVIOUS
<1> USE DEF IInv, TypeOK, Stages, Steps
<1>1. ASSUME NEW id \in Ids, Call(id) PROVE IInv'
  <2>1. TypeOK'
    BY <1>1 DEF Call, Enter
  <2>2. GateOfRestore' /\ Recoverable'
    BY <1>1 DEF Call, GateOfRestore, Recoverable, Whole
  <2>3. Quiesced'
    BY <1>1 DEF Call, Enter, Quiesced, Touching, Drained
  <2>4. CallsHaveCause'
    BY <1>1 DEF Call, CallsHaveCause
  <2> QED
    BY <2>1, <2>2, <2>3, <2>4
<1>2. ASSUME NEW id \in Ids, Recheck(id) PROVE IInv'
  <2>1. TypeOK'
    BY <1>2 DEF Recheck, Enter
  <2>2. GateOfRestore' /\ Recoverable'
    BY <1>2 DEF Recheck, GateOfRestore, Recoverable, Whole
  <2>3. Quiesced'
    BY <1>2 DEF Recheck, Enter, Quiesced, Touching, Drained
  <2>4. CallsHaveCause'
    BY <1>2 DEF Recheck, CallsHaveCause
  <2> QED
    BY <2>1, <2>2, <2>3, <2>4
<1>3. ASSUME NEW id \in Ids, Finish(id) PROVE IInv'
  <2>1. restore' = restore /\ restore.pc \in {"none", "hold"}
    BY <1>3 DEF Finish, Quiesced, Touching, Drained
  <2>2. TypeOK'
    BY <1>3 DEF Finish
  <2>3. GateOfRestore' /\ Quiesced'
    BY <1>3, <2>1 DEF Finish, GateOfRestore, Quiesced, Touching
  <2>4. CallsHaveCause'
    BY <1>3 DEF Finish, CallsHaveCause
  <2>5. Recoverable'
    BY <1>3, <2>1 DEF Finish, CallsHaveCause, Recoverable, Whole
  <2> QED
    BY <2>2, <2>3, <2>4, <2>5
<1>4. ASSUME NEW id \in Ids, Reject(id) PROVE IInv'
  <2>1. restore' = restore /\ restore.pc \in {"none", "hold"}
    BY <1>4 DEF Reject, Quiesced, Touching, Drained
  <2>2. TypeOK'
    BY <1>4 DEF Reject
  <2>3. GateOfRestore' /\ Quiesced'
    BY <1>4, <2>1 DEF Reject, GateOfRestore, Quiesced, Touching
  <2>4. CallsHaveCause'
    BY <1>4 DEF Reject, CallsHaveCause
  <2>5. Recoverable'
    BY <1>4, <2>1 DEF Reject, Recoverable, Whole
  <2> QED
    BY <2>2, <2>3, <2>4, <2>5
<1>5. ASSUME NEW id \in Ids, Settle(id) PROVE IInv'
  <2>1. TypeOK' /\ GateOfRestore' /\ Quiesced' /\ CallsHaveCause'
    BY <1>5 DEF Settle, GateOfRestore, Quiesced, Touching, Drained, CallsHaveCause
  <2>2. Recoverable'
    BY <1>5 DEF Settle, Recoverable, Whole
  <2> QED
    BY <2>1, <2>2
<1>6. CASE Backup
  BY <1>6 DEF Backup, GateOfRestore, Quiesced, Touching, Drained, CallsHaveCause,
              Recoverable, Whole
<1>7. CASE Hold
  <2>1. restore' = [restore EXCEPT !.pc = "hold"] /\ restore.pc = "none"
    BY <1>7 DEF Hold, At, Goto
  <2> QED
    BY <1>7, <2>1 DEF Hold, GateOfRestore, Quiesced, Touching, CallsHaveCause,
                      Recoverable, Whole
<1>8. CASE RestoreStep
  BY <1>8, RestoreStepIInv
<1>9. CASE Crash
  BY <1>9 DEF Crash, At, NoRestore, GateOfRestore, Quiesced, Touching, Drained,
              CallsHaveCause, Recoverable, Whole
<1>10. CASE UNCHANGED vars
  BY <1>10 DEF vars, GateOfRestore, Quiesced, Touching, Drained, CallsHaveCause,
               Recoverable, Whole
<1> QED
  BY <1>1, <1>2, <1>3, <1>4, <1>5, <1>6, <1>7, <1>8, <1>9, <1>10 DEF Next

LEMMA InductiveInvariant == Spec => []IInv
  BY InitIInv, NextIInv, PTL DEF Spec

\* While a restore touches the database, no call of a worker is in flight
\* (run and hold of maintenance-gate.ts).
THEOREM RestoreIsAlone == Spec => []Quiesced
  BY InductiveInvariant, PTL DEF IInv

\* Nothing is lost and nothing is replayed, whatever backup is restored,
\* whichever await of the restore fails and wherever the process dies, unless
\* it dies between the swap and the end, or the rollback fails too
\* (performLiveRestore of live-restore.ts).
THEOREM RestoreKeepsTheWork == Spec => []QueueSurvives
<1>1. IInv => QueueSurvives
  BY DEF IInv, GateOfRestore, Recoverable, Whole, QueueSurvives, NothingLost,
         NothingReplayed, TypeOK, Steps
<1> QED
  BY <1>1, InductiveInvariant, PTL
=============================================================================
