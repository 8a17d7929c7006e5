------------------------------- MODULE Backups -------------------------------
(***************************************************************************)
(* Backup, verification, pruning and restore of a SQLite database          *)
(* (apps/backend/src/store/sqlite-backup.ts, the commands of               *)
(* cli/db-backup.ts), while the service writes, is killed and is started   *)
(* again, and any of the commands dies at any of its steps.                *)
(*                                                                         *)
(* A database is the number of commits it holds.  It is spread over its    *)
(* main file and the write-ahead log; a checkpoint that is under way, and  *)
(* a file that is half written, leave a torn file.  SQLite itself is       *)
(* external.  As its procedure asks, a restore runs while the service does *)
(* not, and the service is not started before it ends.                     *)
(***************************************************************************)
EXTENDS Integers

CONSTANTS
  RetentionDays,
  MaxCommits, LastDay,   \* bounds; a backup is named after the day it is taken on
  None, Torn

BackupAssumption ==
  /\ RetentionDays \in Nat \ {0} /\ MaxCommits \in Nat /\ LastDay \in Nat
  /\ None \notin Nat /\ Torn \notin Nat /\ None # Torn

VARIABLES
  date,
  commits,         \* commits so far
  main, wal,       \* the database's files; wal is None when there is none to replay
  serving,         \* the service runs
  backups,         \* the backup directory, by day
  backupJob,       \* the backup command: its step, its file, what it has read
  restoreJob,      \* the restore command: its step, and its backup
  staging,         \* <database>.restoring
  verified,        \* history: days whose backup the command reported as taken
  expected         \* history: what the database should hold, None if a restore died

backupVars == <<date, commits, main, wal, serving, backups, backupJob, restoreJob, staging,
                verified, expected>>

Days == 0 .. LastDay
Idle == [at |-> "idle", day |-> 0, read |-> None]

\* What SQLite finds when it opens the database: the log is replayed.
Contents(file, log) == IF log = None THEN file ELSE log

Init ==
  /\ date = 0 /\ commits = 0
  /\ main = 0 /\ wal = None /\ serving = TRUE
  /\ backups = [d \in Days |-> None]
  /\ backupJob = Idle /\ restoreJob = Idle
  /\ staging = None
  /\ verified = {} /\ expected = 0

-----------------------------------------------------------------------------
(* The service and SQLite.                                                 *)

Commit ==
  /\ serving /\ main # Torn /\ commits < MaxCommits
  /\ commits' = commits + 1
  /\ wal' = commits' /\ expected' = commits'
  /\ UNCHANGED <<date, main, serving, backups, backupJob, restoreJob, staging, verified>>

\* A checkpoint writes the log into the main file, then resets it.
CheckpointStarts ==
  /\ serving /\ wal # None /\ main # Torn
  /\ main' = Torn
  /\ UNCHANGED <<date, commits, wal, serving, backups, backupJob, restoreJob, staging,
                 verified, expected>>
CheckpointEnds ==
  /\ serving /\ main = Torn
  /\ main' = wal /\ wal' = None
  /\ UNCHANGED <<date, commits, serving, backups, backupJob, restoreJob, staging, verified,
                 expected>>

\* Killed: the files stay as they are.
Stops ==
  /\ serving
  /\ serving' = FALSE
  /\ UNCHANGED <<date, commits, main, wal, backups, backupJob, restoreJob, staging, verified,
                 expected>>
\* Opening a database whose main file is torn needs the log.
Starts ==
  /\ ~ serving /\ restoreJob.at = "idle" /\ Contents(main, wal) # Torn
  /\ serving' = TRUE
  /\ main' = Contents(main, wal) /\ wal' = None
  /\ UNCHANGED <<date, commits, backups, backupJob, restoreJob, staging, verified, expected>>

Midnight ==
  /\ date < LastDay
  /\ date' = date + 1
  /\ UNCHANGED <<commits, main, wal, serving, backups, backupJob, restoreJob, staging,
                 verified, expected>>

-----------------------------------------------------------------------------
(* backup: backupSqliteDatabase, verifySqliteBackup, pruneBackups.         *)

\* VACUUM INTO reads one snapshot; a file that exists is refused.
StartBackup ==
  /\ backupJob.at = "idle" /\ backups[date] = None /\ Contents(main, wal) # Torn
  /\ backupJob' = [at |-> "vacuum", day |-> date, read |-> Contents(main, wal)]
  /\ backups' = [backups EXCEPT ![date] = Torn]
  /\ UNCHANGED <<date, commits, main, wal, serving, restoreJob, staging, verified, expected>>

VacuumEnds ==
  /\ backupJob.at = "vacuum"
  /\ backupJob' = [backupJob EXCEPT !.at = "verify"]
  /\ backups' = [backups EXCEPT ![backupJob.day] = backupJob.read]
  /\ UNCHANGED <<date, commits, main, wal, serving, restoreJob, staging, verified, expected>>

\* Newest first; the newest keepAtLeast = 1 stay whatever their age.
Newest == CHOOSE d \in Days : backups[d] # None /\ \A e \in Days : backups[e] # None => e <= d
Pruned ==
  [d \in Days |-> IF backups[d] # None /\ d # Newest /\ date - d > RetentionDays
                  THEN None ELSE backups[d]]

VerifyAndPrune ==
  /\ backupJob.at = "verify"
  /\ backupJob' = Idle
  /\ IF backups[backupJob.day] \in {None, Torn} THEN UNCHANGED <<backups, verified>>
     ELSE verified' = verified \cup {backupJob.day} /\ backups' = Pruned
  /\ UNCHANGED <<date, commits, main, wal, serving, restoreJob, staging, expected>>

\* The prune command, on its own.
Prune ==
  /\ backups' = Pruned
  /\ UNCHANGED <<date, commits, main, wal, serving, backupJob, restoreJob, staging, verified,
                 expected>>

BackupDies ==
  /\ backupJob # Idle
  /\ backupJob' = Idle
  /\ UNCHANGED <<date, commits, main, wal, serving, backups, restoreJob, staging, verified,
                 expected>>

-----------------------------------------------------------------------------
(* restore: restoreSqliteDatabase.                                         *)

\* The backup is verified before anything is touched.
StartRestore(d) ==
  /\ restoreJob.at = "idle" /\ ~ serving
  /\ backups[d] \notin {None, Torn}
  /\ restoreJob' = [at |-> "copy", day |-> d, read |-> None]
  /\ UNCHANGED <<date, commits, main, wal, serving, backups, backupJob, staging, verified,
                 expected>>

\* copyFileSync; the backup may have been pruned since.
CopyStarts ==
  /\ restoreJob.at = "copy"
  /\ IF backups[restoreJob.day] = None
     THEN restoreJob' = Idle /\ UNCHANGED staging
     ELSE /\ restoreJob' = [restoreJob EXCEPT !.at = "copying", !.read = backups[restoreJob.day]]
          /\ staging' = Torn
  /\ UNCHANGED <<date, commits, main, wal, serving, backups, backupJob, verified, expected>>
CopyEnds ==
  /\ restoreJob.at = "copying"
  /\ restoreJob' = [restoreJob EXCEPT !.at = "copied"]
  /\ staging' = restoreJob.read
  /\ UNCHANGED <<date, commits, main, wal, serving, backups, backupJob, verified, expected>>

\* The stale log is removed ...
LogAfterRestore_Kept == wal
LogAfterRestore == None
RemoveLog ==
  /\ restoreJob.at = "copied"
  /\ restoreJob' = [restoreJob EXCEPT !.at = "logRemoved"]
  /\ wal' = LogAfterRestore
  /\ expected' = IF main = Contents(main, wal) THEN expected ELSE None
  /\ UNCHANGED <<date, commits, main, serving, backups, backupJob, staging, verified>>
\* ... and the copy renamed over the database.
Rename ==
  /\ restoreJob.at = "logRemoved"
  /\ restoreJob' = Idle
  /\ main' = staging /\ staging' = None
  /\ expected' = restoreJob.read
  /\ UNCHANGED <<date, commits, wal, serving, backups, backupJob, verified>>

RestoreDies ==
  /\ restoreJob # Idle
  /\ restoreJob' = Idle
  /\ UNCHANGED <<date, commits, main, wal, serving, backups, backupJob, staging, verified,
                 expected>>

Next ==
  \/ Commit \/ CheckpointStarts \/ CheckpointEnds \/ Stops \/ Starts \/ Midnight
  \/ StartBackup \/ VacuumEnds \/ VerifyAndPrune \/ Prune \/ BackupDies
  \/ \E d \in Days : StartRestore(d)
  \/ CopyStarts \/ CopyEnds \/ RemoveLog \/ Rename \/ RestoreDies

Spec == Init /\ [][Next]_backupVars

-----------------------------------------------------------------------------
Whole(file) == file \notin {None, Torn}

\* The database holds all that was committed to it, or after a restore
\* exactly what the verified backup held, with nothing of the old log
\* replayed onto it, unless a restore died between the log and the rename.
\* And a backup the command reported as taken stays whole for its retention,
\* whichever commands run or die: what such a restore needs to be run again.
BackupsHold ==
  /\ expected # None => Contents(main, wal) = expected
  /\ \A d \in verified : date - d <= RetentionDays => Whole(backups[d])
=============================================================================
