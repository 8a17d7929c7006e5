------------------------------ MODULE Polling -------------------------------
(***************************************************************************)
(* The game polling worker (apps/backend/src/services/polling.ts) and its  *)
(* in-memory job store.  A full cycle polls every stored job one after the *)
(* other; a job whose game is still in progress also arms a timer of its   *)
(* own, so the same job can be polled by a cycle and by timers at once.    *)
(*                                                                         *)
(* One action is one run of JavaScript between two awaits.  `at` says      *)
(* which await a poll stands at: the ledger height, the chess platform, or *)
(* the callback (oracle submission or dead-letter write).                  *)
(*                                                                         *)
(* ChessPlatformPoller.poll catches every error, so a poll always answers. *)
(***************************************************************************)
EXTENDS Integers, FiniteSets, FiniteSetsExt

CONSTANTS
  Matches,        \* match ids
  Games,          \* game ids
  None,           \* undefined
  MaxJobs,        \* bound: jobs ever created
  MaxAttempts,    \* maxPollingAttempts
  Slots,          \* bound: polls started by per-job timers in flight at once
  MaxTimers,      \* bound: unfired timers of one job
  CountTo         \* bound: how far the histories count calls

ASSUME PollingAssumption ==
  /\ MaxJobs \in Nat
  /\ MaxAttempts \in Nat \ {0}
  /\ MaxTimers \in Nat \ {0}
  /\ CountTo \in Nat \ {0}
  /\ None \notin Nat \cup Matches \cup Games \cup Slots
  /\ "cycle" \notin Slots

Jobs    == 1 .. MaxJobs          \* in creation order, as the Map lists them
Pollers == Slots \cup {"cycle"}

VARIABLES
  job,        \* the PollJob objects, kept by closures after their removal
  stored,     \* PollingJobStore.jobs: the jobs still in the store
  byMatch,    \* matchIdToJobId
  byKey,      \* matchGameKeyToJobId
  armed,      \* unfired per-job timers; `timers` knows only the newest
  cycleTimer, \* the '__cycle__' timer is armed
  cycling,    \* a pollAllJobs is running
  todo,       \* jobs its snapshot has left
  poll,       \* pollJob calls in flight
  phase,      \* "new", "running", "stopping" (stop() awaits), "stopped"
  over,       \* environment: games that have finished
  timedOut,   \* environment: jobs past their on-chain timeout
  completed,  \* history: onGameCompleted calls per job
  deadLetters,\* history: onMaxAttemptsExceeded calls per job
  quarantined \* history: jobs removed for review

storeVars == <<job, stored, byMatch, byKey>>
timerVars == <<armed, cycleTimer>>
cycleVars == <<cycling, todo>>
envVars   == <<over, timedOut>>
history   == <<completed, deadLetters, quarantined>>
vars == <<storeVars, timerVars, cycleVars, poll, phase, envVars, history>>

Job == [match : Matches, game : Games, bounded : BOOLEAN, attempts : 0 .. MaxAttempts]
Flight == [job : Jobs, at : {"ledger", "provider", "callback"}]
ASSUME NoneIsNoRecord == None \notin Job \cup Flight

stopped == phase \in {"stopping", "stopped"}
Flights(j) == {c \in Pollers : poll[c] # None /\ poll[c].job = j}
Up(n) == Min({n + 1, CountTo})

Init ==
  /\ job = [j \in Jobs |-> None]
  /\ stored = {}
  /\ byMatch = [m \in Matches |-> None]
  /\ byKey = [m \in Matches |-> [g \in Games |-> None]]
  /\ armed = [j \in Jobs |-> 0]
  /\ cycleTimer = FALSE
  /\ cycling = FALSE
  /\ todo = {}
  /\ poll = [c \in Pollers |-> None]
  /\ phase = "new"
  /\ over = {}
  /\ timedOut = {}
  /\ completed = [j \in Jobs |-> 0]
  /\ deadLetters = [j \in Jobs |-> 0]
  /\ quarantined = {}

-----------------------------------------------------------------------------
(* PollingJobStore *)

KeyTaken_Never(m, g) == FALSE
KeyTaken(m, g) == byKey[m][g] # None

\* `bounded`: the caller gave createdAtLedger.  The games are alike: the first
\* job's game may be any fixed one.
CreateJob(m, g, bounded) ==
  /\ ~ KeyTaken(m, g)
  /\ \E j \in Jobs :
       /\ job[j] = None
       /\ \A i \in Jobs : i < j => job[i] # None
       /\ j = 1 => g = CHOOSE x \in Games : TRUE
       /\ job' = [job EXCEPT ![j] =
            [match |-> m, game |-> g, bounded |-> bounded, attempts |-> 0]]
       /\ stored' = stored \cup {j}
       /\ byMatch' = [byMatch EXCEPT ![m] = j]
       /\ byKey' = [byKey EXCEPT ![m][g] = j]
  /\ UNCHANGED <<timerVars, cycleVars, poll, phase, envVars, history>>

\* completeJob and removeJob: an index entry goes only if it is this job's.
Owned(entry, j) == entry = j
Remove(j) ==
  IF j \in stored
  THEN LET m == job[j].match
           g == job[j].game
       IN /\ stored' = stored \ {j}
          /\ byMatch' = [byMatch EXCEPT ![m] = IF Owned(@, j) THEN None ELSE @]
          /\ byKey' = [byKey EXCEPT ![m][g] = IF Owned(@, j) THEN None ELSE @]
  ELSE UNCHANGED <<stored, byMatch, byKey>>

-----------------------------------------------------------------------------
(* pollJob *)

\* incrementAttempt, then the platform is asked.
Fetch(c, j) ==
  /\ poll' = [poll EXCEPT ![c] = [job |-> j, at |-> "provider"]]
  /\ job' = IF j \in stored
            THEN [job EXCEPT ![j].attempts = Min({@ + 1, MaxAttempts})]
            ELSE job

PollJob(c, j) ==
  IF job[j].bounded
  THEN poll' = [poll EXCEPT ![c] = [job |-> j, at |-> "ledger"]] /\ UNCHANGED job
  ELSE Fetch(c, j)

Done(c) == poll' = [poll EXCEPT ![c] = None]
Call(c, j) == poll' = [poll EXCEPT ![c] = [job |-> j, at |-> "callback"]]

\* checkLedgerTimeout: a failed height fetch counts as not timed out.
LedgerAnswer(c, late) ==
  /\ poll[c] # None /\ poll[c].at = "ledger"
  /\ LET j == poll[c].job IN
       IF late
       THEN /\ j \in timedOut
            /\ Remove(j)
            /\ Call(c, j)
            /\ deadLetters' = [deadLetters EXCEPT ![j] = Up(@)]
            /\ UNCHANGED <<job, completed, quarantined>>
       ELSE /\ Fetch(c, j)
            /\ UNCHANGED <<stored, byMatch, byKey, history>>
  /\ UNCHANGED <<timerVars, cycleVars, phase, envVars>>

AttemptsLeft(j) == job[j].attempts < MaxAttempts

InProgress(c, j) ==
  /\ armed[j] < MaxTimers
  /\ armed' = [armed EXCEPT ![j] = @ + 1]
  /\ Done(c)
  /\ UNCHANGED <<storeVars, history>>
GameCompleted(c, j) ==
  /\ job[j].game \in over
  /\ Remove(j)
  /\ Call(c, j)
  /\ completed' = [completed EXCEPT ![j] = Up(@)]
  /\ UNCHANGED <<job, armed, deadLetters, quarantined>>
PollFailed(c, j) ==
  IF AttemptsLeft(j)
  THEN Done(c) /\ UNCHANGED <<storeVars, armed, history>>
  ELSE /\ Remove(j)
       /\ Call(c, j)
       /\ deadLetters' = [deadLetters EXCEPT ![j] = Up(@)]
       /\ UNCHANGED <<job, armed, completed, quarantined>>
ReviewRequired(c, j) ==
  /\ Remove(j)
  /\ Done(c)
  /\ quarantined' = quarantined \cup {j}
  /\ UNCHANGED <<job, armed, completed, deadLetters>>

\* The platform answers; a rate limit is also reported as in_progress, and a
\* missing game as failed, with an action 'stop' the worker does not read.
Statuses == {"in_progress", "completed", "failed", "review_required"}
ProviderAnswer(c, status) ==
  /\ poll[c] # None /\ poll[c].at = "provider"
  /\ LET j == poll[c].job IN
       CASE status = "in_progress"          -> InProgress(c, j)
         [] status = "completed"            -> GameCompleted(c, j)
         [] status = "failed"               -> PollFailed(c, j)
         [] status = "review_required"      -> ReviewRequired(c, j)
  /\ UNCHANGED <<cycleTimer, cycleVars, phase, envVars>>

\* The awaited callback settles; a rejection is only logged.
CallbackReturns(c) ==
  /\ poll[c] # None /\ poll[c].at = "callback"
  /\ Done(c)
  /\ UNCHANGED <<storeVars, timerVars, cycleVars, phase, envVars, history>>

-----------------------------------------------------------------------------
(* Cycles, timers, start and stop *)

ReschedulesWhenIdle_Forgotten == stored # {}
ReschedulesWhenIdle == TRUE

\* pollAllJobs takes its snapshot; with no jobs it only re-arms the cycle.
PollAllJobs ==
  IF stored = {}
  THEN /\ cycling' = FALSE
       /\ todo' = {}
       /\ cycleTimer' = (~ stopped /\ ReschedulesWhenIdle)
  ELSE /\ cycling' = TRUE
       /\ todo' = stored
       /\ cycleTimer' = FALSE

Start ==
  /\ phase = "new"
  /\ phase' = "running"
  /\ PollAllJobs
  /\ UNCHANGED <<storeVars, armed, poll, envVars, history>>

CycleTimerFires ==
  /\ cycleTimer
  /\ PollAllJobs
  /\ UNCHANGED <<storeVars, armed, poll, phase, envVars, history>>

\* The loop of pollAllJobs: the next job of the snapshot, stored or not.
CyclePolls ==
  /\ cycling /\ poll["cycle"] = None
  /\ \E j \in todo :
       /\ \A i \in todo : j <= i
       /\ PollJob("cycle", j)
       /\ todo' = todo \ {j}
  /\ UNCHANGED <<stored, byMatch, byKey, timerVars, cycling, phase, envVars, history>>

CycleEnds ==
  /\ cycling /\ poll["cycle"] = None /\ todo = {}
  /\ cycling' = FALSE
  /\ cycleTimer' = ~ stopped
  /\ UNCHANGED <<storeVars, armed, todo, poll, phase, envVars, history>>

IgnoresTimers == stopped

\* Timers of one job fire in the order they were armed.
JobTimerFires(j) ==
  /\ armed[j] > 0
  /\ armed' = [armed EXCEPT ![j] = @ - 1]
  /\ IF IgnoresTimers
     THEN UNCHANGED <<job, poll>>
     ELSE \E c \in Slots : poll[c] = None /\ PollJob(c, j)
  /\ UNCHANGED <<stored, byMatch, byKey, cycleTimer, cycleVars, phase, envVars, history>>

Cleared(n) == IF n > 0 THEN n - 1 ELSE 0

\* stop(): clears the timers it knows, one per job, and then waits.
Stop ==
  /\ phase = "running"
  /\ phase' = "stopping"
  /\ armed' = [j \in Jobs |-> Cleared(armed[j])]
  /\ cycleTimer' = FALSE
  /\ UNCHANGED <<storeVars, cycleVars, poll, envVars, history>>

Drained_CycleOnly == ~ cycling
Drained == ~ cycling /\ \A c \in Pollers : poll[c] = None
StopReturns ==
  /\ phase = "stopping"
  /\ Drained
  /\ phase' = "stopped"
  /\ UNCHANGED <<storeVars, timerVars, cycleVars, poll, envVars, history>>

\* The environment: games end, ledgers pass.  Nobody looks at either but for
\* a job in the store or in flight.
Watched == stored \cup {poll[c].job : c \in {x \in Pollers : poll[x] # None}}
GameEnds(g) ==
  /\ \E j \in Watched : job[j].game = g
  /\ over' = over \cup {g}
  /\ UNCHANGED <<storeVars, timerVars, cycleVars, poll, phase, timedOut, history>>
TimeoutPasses(j) ==
  /\ j \in Watched /\ job[j].bounded
  /\ timedOut' = timedOut \cup {j}
  /\ UNCHANGED <<storeVars, timerVars, cycleVars, poll, phase, over, history>>

WorkerNext ==
  \/ Start \/ CycleTimerFires \/ CyclePolls \/ CycleEnds \/ StopReturns
  \/ \E j \in Jobs : JobTimerFires(j)
  \/ \E c \in Pollers :
       \/ \E late \in BOOLEAN : LedgerAnswer(c, late)
       \/ \E s \in Statuses : ProviderAnswer(c, s)
       \/ CallbackReturns(c)

Next ==
  \/ WorkerNext
  \/ Stop
  \/ \E m \in Matches, g \in Games, b \in BOOLEAN : CreateJob(m, g, b)
  \/ \E g \in Games : GameEnds(g)
  \/ \E j \in Jobs : TimeoutPasses(j)

Spec == Init /\ [][Next]_vars

\* Timers fire, promises settle, and a platform asked again and again about
\* a finished game reports it some time.
Fairness ==
  /\ WF_vars(Start) /\ WF_vars(CycleTimerFires)
  /\ WF_vars(CyclePolls) /\ WF_vars(CycleEnds) /\ WF_vars(StopReturns)
  /\ \A j \in Jobs : WF_vars(JobTimerFires(j))
  /\ \A c \in Pollers :
       /\ WF_vars(\E late \in BOOLEAN : LedgerAnswer(c, late))
       /\ WF_vars(\E s \in Statuses : ProviderAnswer(c, s))
       /\ WF_vars(CallbackReturns(c))
  /\ \A j \in Jobs : SF_vars(\E c \in Pollers :
       poll[c] # None /\ poll[c].job = j /\ ProviderAnswer(c, "completed"))

FairSpec == Spec /\ Fairness

-----------------------------------------------------------------------------
\* The two indexes describe the stored jobs, however creations, completions
\* and a match id reused for another game interleave: each stored job is the
\* one its (match, game) key names, no key names a job that is gone, and a
\* match lookup never returns a removed job or another match's
\* (createJob, removeJobIndexes).
IndexesAgree ==
  /\ \A j \in stored : byKey[job[j].match][job[j].game] = j
  /\ \A m \in Matches, g \in Games : byKey[m][g] # None => byKey[m][g] \in stored
  /\ \A m \in Matches : byMatch[m] # None =>
       byMatch[m] \in stored /\ job[byMatch[m]].match = m

\* A job leaves the store only with a consequence: a completion or a
\* dead-letter call was made for it, or it went to review.
NoJobVanishes ==
  \A j \in Jobs : job[j] # None /\ j \notin stored =>
    completed[j] > 0 \/ deadLetters[j] > 0 \/ j \in quarantined

\* No job is lost, from the indexes or from the store.
JobsAccountedFor == IndexesAgree /\ NoJobVanishes

\* Once stop() has returned, nothing is in flight and no callback is ever
\* made again, whatever timers are still pending in the process.
StopIsFinal ==
  [][phase = "stopped" =>
       /\ ~ cycling /\ \A c \in Pollers : poll[c] = None
       /\ UNCHANGED <<poll, cycling, completed, deadLetters, quarantined>>]_vars

\* The job of a finished game leaves the store, unless the worker stops.
FinishedGamesLeave ==
  \A j \in Jobs :
    (j \in stored /\ job[j].game \in over) ~> (j \notin stored \/ stopped)

-----------------------------------------------------------------------------
(* What a test in the source says, and the code does not do.               *)

\* provider-outage.test.ts:188: a finished game is reported once.
CompletedOnce == \A j \in Jobs : completed[j] <= 1
=============================================================================
