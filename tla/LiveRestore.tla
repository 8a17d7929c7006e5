---------------------------- MODULE LiveRestore ----------------------------
(***************************************************************************)
(* Replacing the queue database under running workers: the maintenance     *)
(* gate every store call passes (store/maintenance-gate.ts) and            *)
(* performLiveRestore, await by await (store/live-restore.ts).             *)
(*                                                                         *)
(* The database is the set of the ids of its entries.  The entries' own    *)
(* lives are those of the workers: one is added, some handler settles its  *)
(* result on the chain, and it is removed.                                 *)
(***************************************************************************)
EXTENDS Naturals, FiniteSets

CONSTANTS
  Ids,           \* entries
  MaxBackups, MaxRestores, MaxCrashes   \* bounds

ASSUME RestoreAssumption ==
  /\ IsFiniteSet(Ids)
  /\ MaxBackups \in Nat /\ MaxRestores \in Nat /\ MaxCrashes \in Nat

VARIABLES
  file,       \* oracle-queue.db
  dbOpen,     \* the inner store is initialised
  gate,       \* "open" or "held"
  op,         \* the store call about each entry: see Call
  stage,      \* where each entry is in its life
  onChain,    \* entries whose result is on the chain
  backup,     \* the backup file
  restore,    \* performLiveRestore
  count,      \* backups, restores and crashes so far
  torn        \* history: a crash hit a restore after its swap, or its rollback failed

vars == <<file, dbOpen, gate, op, stage, onChain, backup, restore, count, torn>>

NoRestore == [pc |-> "none", live |-> {}, pre |-> {}, restored |-> {}, todo |-> {}]

Init ==
  /\ file = {} /\ dbOpen = TRUE
  /\ gate = "open"
  /\ op = [id \in Ids |-> "idle"]
  /\ stage = [id \in Ids |-> "new"]
  /\ onChain = {}
  /\ backup = {}
  /\ restore = NoRestore
  /\ count = [backups |-> 0, restores |-> 0, crashes |-> 0]
  /\ torn = FALSE

-----------------------------------------------------------------------------
(* MaintainableQueueStore.run: a call waits while the gate is held, looks  *)
(* again when it is woken, and is in flight once it has found it open.     *)

Enter == IF gate = "held" THEN "waiting" ELSE "running"

\* add of a new entry, or remove of one whose result is on the chain.
Call(id) ==
  /\ op[id] = "idle"
  /\ stage[id] = "new" \/ (stage[id] = "queued" /\ id \in onChain)
  /\ op' = [op EXCEPT ![id] = Enter]
  /\ UNCHANGED <<file, dbOpen, gate, stage, onChain, backup, restore, count, torn>>

Recheck_Once(id) ==
  /\ op[id] = "woken"
  /\ op' = [op EXCEPT ![id] = "running"]
  /\ UNCHANGED <<file, dbOpen, gate, stage, onChain, backup, restore, count, torn>>
Recheck(id) ==
  /\ op[id] = "woken"
  /\ op' = [op EXCEPT ![id] = Enter]
  /\ UNCHANGED <<file, dbOpen, gate, stage, onChain, backup, restore, count, torn>>

\* The operation ends and leaves inFlight.
Finish(id) ==
  /\ op[id] = "running" /\ dbOpen
  /\ op' = [op EXCEPT ![id] = "idle"]
  /\ IF stage[id] = "new"
     THEN file' = file \cup {id} /\ stage' = [stage EXCEPT ![id] = "queued"]
     ELSE file' = file \ {id} /\ stage' = [stage EXCEPT ![id] = "resolved"]
  /\ UNCHANGED <<dbOpen, gate, onChain, backup, restore, count, torn>>

\* It rejects; getDb throws when the store is closed.  An add is reported to
\* its caller, a remove is tried again in the next cycle.
Reject(id) ==
  /\ op[id] = "running"
  /\ op' = [op EXCEPT ![id] = "idle"]
  /\ stage' = [stage EXCEPT ![id] = IF @ = "new" THEN "rejected" ELSE @]
  /\ UNCHANGED <<file, dbOpen, gate, onChain, backup, restore, count, torn>>

\* The retry worker's handler settles a queued entry, gate or no gate.
Settle(id) ==
  /\ stage[id] = "queued" /\ id \notin onChain
  /\ onChain' = onChain \cup {id}
  /\ UNCHANGED <<file, dbOpen, gate, op, stage, backup, restore, count, torn>>

Backup ==
  /\ count.backups < MaxBackups /\ count' = [count EXCEPT !.backups = @ + 1]
  /\ backup' = file
  /\ UNCHANGED <<file, dbOpen, gate, op, stage, onChain, restore, torn>>

-----------------------------------------------------------------------------
(* performLiveRestore.                                                     *)

At(pc) == restore.pc = pc
Goto(pc) == restore' = [restore EXCEPT !.pc = pc]
\* What every step but the first leaves alone.
Workers == UNCHANGED <<stage, onChain, backup, count, torn>>

\* hold(): refused while held.
Hold ==
  /\ At("none") /\ gate = "open"
  /\ count.restores < MaxRestores /\ count' = [count EXCEPT !.restores = @ + 1]
  /\ gate' = "held"
  /\ Goto("hold")
  /\ UNCHANGED <<file, dbOpen, op, stage, onChain, backup, torn>>

\* ... and resolves when nothing is in flight; the live entries are read.
Drained_AllCalls == \A id \in Ids : op[id] = "idle"
Drained == \A id \in Ids : op[id] # "running"
Snapshot ==
  /\ At("hold") /\ Drained /\ dbOpen
  /\ restore' = [restore EXCEPT !.pc = "snapshot", !.live = file]
  /\ UNCHANGED <<file, dbOpen, gate, op>> /\ Workers

\* The backup passes validation, the store is closed and its file copied.
CopyAside ==
  /\ At("snapshot")
  /\ dbOpen' = FALSE
  /\ restore' = [restore EXCEPT !.pc = "copied", !.pre = file]
  /\ UNCHANGED <<file, gate, op>> /\ Workers

\* The backup is renamed into place, the store reopened and read.
Swap ==
  /\ At("copied")
  /\ file' = backup
  /\ dbOpen' = TRUE
  /\ restore' = [restore EXCEPT !.pc = "readd", !.restored = backup,
                                !.todo = restore.live \ backup]
  /\ UNCHANGED <<gate, op>> /\ Workers

\* Live entries the backup lacks are added back ...
ReAdd(id) ==
  /\ At("readd")
  /\ file' = file \cup {id}
  /\ restore' = [restore EXCEPT !.todo = @ \ {id}]
  /\ UNCHANGED <<dbOpen, gate, op>> /\ Workers

ReAdded ==
  /\ At("readd") /\ restore.todo = {}
  /\ restore' = [restore EXCEPT !.pc = "drop", !.todo = restore.restored \ restore.live]
  /\ UNCHANGED <<file, dbOpen, gate, op>> /\ Workers

\* ... and restored entries that were no longer live are dropped if the chain
\* says they are settled.
Reconcile(id) ==
  /\ At("drop")
  /\ file' = IF id \in onChain THEN file \ {id} ELSE file
  /\ restore' = [restore EXCEPT !.todo = @ \ {id}]
  /\ UNCHANGED <<dbOpen, gate, op>> /\ Workers

Reconciled ==
  /\ At("drop") /\ restore.todo = {}
  /\ Goto("release")
  /\ UNCHANGED <<file, dbOpen, gate, op>> /\ Workers

\* Before the swap a failure - a rejected read or close, a backup that does
\* not validate - goes straight to the finally.
FailsBefore ==
  /\ (At("hold") /\ Drained) \/ At("snapshot")
  /\ Goto("release")
  /\ UNCHANGED <<file, dbOpen, gate, op>> /\ Workers

\* So does a failed copy, but the store is closed by then.
CopyFails ==
  /\ At("snapshot")
  /\ dbOpen' = FALSE
  /\ Goto("release")
  /\ UNCHANGED <<file, gate, op>> /\ Workers

\* After it, the pre-restore file is put back: the copy into place failed,
\* or initialising, adding, removing or asking the chain did.
Swapped == At("copied") \/ At("readd") \/ At("drop")
Fails_NoRollback ==
  /\ Swapped
  /\ dbOpen' = TRUE /\ Goto("release")
  /\ UNCHANGED <<file, gate, op>> /\ Workers
Fails ==
  /\ Swapped
  /\ file' = restore.pre
  /\ dbOpen' = TRUE
  /\ Goto("release")
  /\ UNCHANGED <<gate, op>> /\ Workers

RollbackFails ==
  /\ Swapped
  /\ dbOpen' = FALSE /\ torn' = TRUE
  /\ Goto("release")
  /\ UNCHANGED <<file, gate, op, stage, onChain, backup, count>>

\* release(): the waiting calls are woken.
Release ==
  /\ At("release")
  /\ gate' = "open"
  /\ op' = [id \in Ids |-> IF op[id] = "waiting" THEN "woken" ELSE op[id]]
  /\ restore' = NoRestore
  /\ UNCHANGED <<file, dbOpen>> /\ Workers

-----------------------------------------------------------------------------
\* The process dies - shutdown does not wait for a restore - and starts again
\* on the file as it is.  Calls it was making are lost with it.
Crash ==
  /\ count.crashes < MaxCrashes /\ count' = [count EXCEPT !.crashes = @ + 1]
  /\ torn' = (torn \/ At("readd") \/ At("drop"))
  /\ gate' = "open" /\ dbOpen' = TRUE
  /\ op' = [id \in Ids |-> "idle"]
  /\ restore' = NoRestore
  /\ UNCHANGED <<file, stage, onChain, backup>>

RestoreStep ==
  \/ Snapshot \/ CopyAside \/ Swap \/ ReAdded \/ Reconciled \/ Release
  \/ FailsBefore \/ CopyFails \/ Fails \/ RollbackFails
  \/ \E id \in restore.todo : ReAdd(id) \/ Reconcile(id)

Next ==
  \/ \E id \in Ids : Call(id) \/ Recheck(id) \/ Finish(id) \/ Reject(id) \/ Settle(id)
  \/ Backup \/ Hold \/ RestoreStep \/ Crash

Spec == Init /\ [][Next]_vars

\* Store calls end, promises that resolved are continued, and every await of
\* the restore settles.
FairSpec ==
  /\ Spec
  /\ WF_vars(RestoreStep)
  /\ \A id \in Ids : WF_vars(Finish(id) \/ Reject(id)) /\ SF_vars(Recheck(id) /\ gate = "open")

-----------------------------------------------------------------------------
Touching == restore.pc \notin {"none", "hold"}

\* While the restore touches the database no worker's call is in flight, not
\* even one woken by the previous release (run, hold).
Quiesced == Touching => gate = "held" /\ Drained

\* An entry the queue accepted stays in it until its result is on the chain,
\* through restores of any backup and restores that fail and roll back: "so
\* nothing is lost" (docs/live-restore.md).
NothingLost ==
  ~ torn /\ gate = "open" =>
    \A id \in Ids : stage[id] = "queued" => id \in file \/ id \in onChain

\* A restore brings no settled entry back: "so nothing is replayed".
NothingReplayed ==
  ~ torn /\ gate = "open" => \A id \in Ids : stage[id] = "resolved" => id \notin file

\* Whatever a restore meets, the queue then holds the work still to be done.
QueueSurvives == NothingLost /\ NothingReplayed

\* "The workers are never left held": a call that waits at the gate gets to
\* run or reject, whatever the restore meets.
WaitersRun == \A id \in Ids : op[id] = "waiting" ~> op[id] \in {"running", "idle"}
=============================================================================
