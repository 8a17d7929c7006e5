--------------------------- MODULE PollingProofs ----------------------------
(***************************************************************************)
(* Theorems about Polling, for every set of matches and games, any number  *)
(* of jobs and attempts, and any number of timers and polls at once; and   *)
(* about the results read from the chess platforms, GameResults, for       *)
(* whatever a platform answers.                                            *)
(***************************************************************************)
EXTENDS Polling, GameResults, TLAPS

Known(j) == job[j] # None
Busy(c) == poll[c] # None

TypeOK ==
  /\ job \in [Jobs -> Job \cup {None}]
  /\ stored \in SUBSET Jobs /\ todo \in SUBSET Jobs
  /\ byMatch \in [Matches -> Jobs \cup {None}]
  /\ byKey \in [Matches -> [Games -> Jobs \cup {None}]]
  /\ armed \in [Jobs -> Nat]
  /\ cycleTimer \in BOOLEAN /\ cycling \in BOOLEAN
  /\ poll \in [Pollers -> Flight \cup {None}]
  /\ phase \in {"new", "running", "stopping", "stopped"}
  /\ completed \in [Jobs -> Nat] /\ deadLetters \in [Jobs -> Nat]
  /\ quarantined \in SUBSET Jobs

\* Whatever names a job names one that was created.
NamesAreKnown ==
  /\ \A j \in stored \cup todo : Known(j)
  /\ \A j \in Jobs : armed[j] > 0 => Known(j)
  /\ \A c \in Pollers : Busy(c) => Known(poll[c].job)

\* A key names the job that was created with it.
KeysAreOwn ==
  \A m \in Matches, g \in Games :
    byKey[m][g] # None => job[byKey[m][g]].match = m /\ job[byKey[m][g]].game = g

\* Once the worker stops the cycle is not armed again; once it has stopped
\* nothing is in flight.
StopHolds ==
  /\ stopped => ~ cycleTimer
  /\ phase = "stopped" => ~ cycling /\ \A c \in Pollers : ~ Busy(c)

IInv == TypeOK /\ NamesAreKnown /\ KeysAreOwn /\ IndexesAgree /\ NoJobVanishes /\ StopHolds

-----------------------------------------------------------------------------
(* Counting *)

LEMMA MinOfTwo ==
  ASSUME NEW a \in Nat, NEW b \in Nat
  PROVE  Min({a, b}) = IF a <= b THEN a ELSE b
<1> DEFINE m == IF a <= b THEN a ELSE b
<1>1. m \in {a, b} /\ \A y \in {a, b} : m =< y
  OBVIOUS
<1>2. \A x \in {a, b} : (\A y \in {a, b} : x =< y) => x = m
  OBVIOUS
<1> QED
  BY <1>1, <1>2 DEF Min

LEMMA UpCounts ==
  ASSUME NEW n \in Nat
  PROVE  Up(n) \in Nat /\ Up(n) > 0
  BY PollingAssumption, MinOfTwo, n + 1 \in Nat DEF Up

-----------------------------------------------------------------------------
(* What the parts of a step do *)

\* Jobs keep their names, whatever happens to their attempts.
SameJobs ==
  \A i \in Jobs :
    /\ Known(i)' <=> Known(i)
    /\ Known(i) => job'[i].match = job[i].match /\ job'[i].game = job[i].game

LEMMA StoreKept ==
  ASSUME TypeOK, NamesAreKnown, KeysAreOwn, IndexesAgree, SameJobs,
         UNCHANGED <<stored, byMatch, byKey>>
  PROVE  KeysAreOwn' /\ IndexesAgree'
<1>1. KeysAreOwn'
  BY DEF TypeOK, NamesAreKnown, KeysAreOwn, IndexesAgree, SameJobs
<1>2. IndexesAgree'
  BY NoneIsNoRecord DEF TypeOK, NamesAreKnown, KeysAreOwn, IndexesAgree, SameJobs, Job
<1> QED
  BY <1>1, <1>2

\* Taking a job out takes out the entries of the indexes that name it, and no
\* other.
LEMMA StoreWithout ==
  ASSUME TypeOK, NamesAreKnown, KeysAreOwn, IndexesAgree, NEW j \in Jobs, Known(j),
         Remove(j), UNCHANGED job
  PROVE  /\ stored' = stored \ {j}
         /\ byMatch' \in [Matches -> Jobs \cup {None}]
         /\ byKey' \in [Matches -> [Games -> Jobs \cup {None}]]
         /\ KeysAreOwn' /\ IndexesAgree'
<1> DEFINE m == job[j].match
           g == job[j].game
<1>1. m \in Matches /\ g \in Games /\ None \notin Jobs
  BY PollingAssumption, NoneIsNoRecord DEF TypeOK, Known, Job, Jobs
<1>2. CASE j \notin stored
  BY <1>2, StoreKept DEF Remove, SameJobs, TypeOK, Known
<1>3. CASE j \in stored
  <2>1. /\ stored' = stored \ {j}
        /\ byMatch' = [byMatch EXCEPT ![m] = IF byMatch[m] = j THEN None ELSE byMatch[m]]
        /\ byKey' = [byKey EXCEPT ![m][g] = None]
    BY <1>1, <1>3 DEF Remove, Owned, TypeOK, IndexesAgree
  <2>2. /\ byMatch' \in [Matches -> Jobs \cup {None}]
        /\ byKey' \in [Matches -> [Games -> Jobs \cup {None}]]
    BY <1>1, <2>1 DEF TypeOK
  <2>3. \A n \in Matches, h \in Games :
          byKey'[n][h] = IF n = m /\ h = g THEN None ELSE byKey[n][h]
    BY <1>1, <2>1 DEF TypeOK
  <2>4. \A n \in Matches :
          byMatch'[n] = IF n = m /\ byMatch[m] = j THEN None ELSE byMatch[n]
    BY <1>1, <2>1 DEF TypeOK
  <2>5. KeysAreOwn'
    BY <2>3 DEF KeysAreOwn
  <2>6. \A i \in stored' : byKey'[job'[i].match][job'[i].game] = i
    BY <1>1, <1>3, <2>1, <2>3, NoneIsNoRecord DEF TypeOK, NamesAreKnown, Known, Job, IndexesAgree
  <2>7. \A n \in Matches, h \in Games : byKey'[n][h] # None => byKey'[n][h] \in stored'
    BY <2>1, <2>3 DEF KeysAreOwn, IndexesAgree
  <2>8. \A n \in Matches : byMatch'[n] # None =>
          byMatch'[n] \in stored' /\ job'[byMatch'[n]].match = n
    BY <2>1, <2>4 DEF IndexesAgree
  <2> QED
    BY <2>1, <2>2, <2>5, <2>6, <2>7, <2>8 DEF IndexesAgree
<1> QED
  BY <1>2, <1>3

\* A poll begins, or goes on to ask the platform.
LEMMA FetchStep ==
  ASSUME TypeOK, NEW c \in Pollers, NEW j \in Jobs, Known(j), NamesAreKnown, Fetch(c, j)
  PROVE  /\ job' \in [Jobs -> Job \cup {None}] /\ SameJobs
         /\ poll' = [poll EXCEPT ![c] = [job |-> j, at |-> "provider"]]
<1>1. CASE j \notin stored
  BY <1>1 DEF Fetch, SameJobs, Known, TypeOK
<1>2. CASE j \in stored
  <2>1. job[j] \in Job
    BY DEF TypeOK, Known
  <2>2. Min({job[j].attempts + 1, MaxAttempts}) \in 0 .. MaxAttempts
    BY <2>1, PollingAssumption, MinOfTwo, job[j].attempts + 1 \in Nat DEF Job
  <2>3. job' = [job EXCEPT ![j].attempts = Min({job[j].attempts + 1, MaxAttempts})]
    BY <1>2 DEF Fetch
  <2>4. /\ job'[j] \in Job
        /\ job'[j].match = job[j].match /\ job'[j].game = job[j].game
        /\ \A i \in Jobs \ {j} : job'[i] = job[i]
    BY <2>1, <2>2, <2>3 DEF TypeOK, Job
  <2>5. job' \in [Jobs -> Job \cup {None}]
    BY <2>3, <2>4 DEF TypeOK
  <2> QED
    BY <2>4, <2>5, NoneIsNoRecord DEF SameJobs, Known, Fetch
<1> QED
  BY <1>1, <1>2

LEMMA PollJobStep ==
  ASSUME TypeOK, NEW c \in Pollers, NEW j \in Jobs, Known(j), NamesAreKnown, PollJob(c, j)
  PROVE  /\ job' \in [Jobs -> Job \cup {None}] /\ SameJobs
         /\ \E at \in {"ledger", "provider"} :
              poll' = [poll EXCEPT ![c] = [job |-> j, at |-> at]]
<1>1. CASE job[j].bounded
  BY <1>1 DEF PollJob, SameJobs, Known, TypeOK
<1>2. CASE ~ job[j].bounded
  BY <1>2, FetchStep DEF PollJob
<1> QED
  BY <1>1, <1>2

\* A poll in flight is about a job that was created.
LEMMA FlightKnown ==
  ASSUME TypeOK, NamesAreKnown, NEW c \in Pollers, Busy(c)
  PROVE  poll[c] \in Flight /\ poll[c].job \in Jobs /\ Known(poll[c].job)
  BY DEF TypeOK, NamesAreKnown, Busy, Flight

\* A job that leaves the store with a consequence leaves a sound state.
LEMMA JobLeaves ==
  ASSUME IInv, NEW c \in Pollers, Busy(c), NEW j, j = poll[c].job, Remove(j),
         poll' \in [Pollers -> Flight \cup {None}],
         \A d \in Pollers : poll'[d] # None => poll'[d].job = poll[d].job /\ Busy(d),
         UNCHANGED <<job, armed, cycleTimer, todo, cycling, phase>>,
         completed' \in [Jobs -> Nat], deadLetters' \in [Jobs -> Nat],
         quarantined' \in SUBSET Jobs,
         \A i \in Jobs : /\ completed[i] > 0 => completed'[i] > 0
                         /\ deadLetters[i] > 0 => deadLetters'[i] > 0
                         /\ i \in quarantined => i \in quarantined',
         completed'[j] > 0 \/ deadLetters'[j] > 0 \/ j \in quarantined'
  PROVE  IInv'
<1> USE DEF IInv
<1>1. j \in Jobs /\ Known(j)
  BY FlightKnown
<1>2. /\ stored' = stored \ {j}
      /\ byMatch' \in [Matches -> Jobs \cup {None}]
      /\ byKey' \in [Matches -> [Games -> Jobs \cup {None}]]
      /\ KeysAreOwn' /\ IndexesAgree'
  BY <1>1, StoreWithout
<1>3. TypeOK'
  BY <1>2 DEF TypeOK
<1>4. NamesAreKnown'
  BY <1>2 DEF NamesAreKnown, Known, Busy
<1>5. NoJobVanishes'
  BY <1>1, <1>2, <1>3 DEF NoJobVanishes, TypeOK
<1>6. StopHolds'
  BY DEF StopHolds, stopped, Busy
<1> QED
  BY <1>2, <1>3, <1>4, <1>5, <1>6

-----------------------------------------------------------------------------
LEMMA InitIInv == Init => IInv
<1> SUFFICES ASSUME Init PROVE IInv
  OBVIOUS
<1>1. TypeOK
  BY DEF Init, TypeOK
<1>2. NamesAreKnown /\ KeysAreOwn /\ IndexesAgree /\ NoJobVanishes /\ StopHolds
  BY DEF Init, NamesAreKnown, Busy, KeysAreOwn, IndexesAgree, NoJobVanishes, StopHolds, stopped
<1> QED
  BY <1>1, <1>2 DEF IInv

LEMMA CreateJobStep ==
  ASSUME IInv, NEW m \in Matches, NEW g \in Games, NEW b \in BOOLEAN, CreateJob(m, g, b)
  PROVE  IInv'
<1> USE DEF IInv
<1>1. PICK j \in Jobs :
        /\ job[j] = None
        /\ job' = [job EXCEPT ![j] = [match |-> m, game |-> g, bounded |-> b, attempts |-> 0]]
        /\ stored' = stored \cup {j}
        /\ byMatch' = [byMatch EXCEPT ![m] = j]
        /\ byKey' = [byKey EXCEPT ![m][g] = j]
  BY DEF CreateJob
<1>2. /\ byKey[m][g] = None
      /\ UNCHANGED <<armed, cycleTimer, cycling, todo, poll, phase, completed, deadLetters,
                     quarantined>>
  BY DEF CreateJob, KeyTaken, timerVars, cycleVars, history
<1>3. job'[j] \in Job /\ job'[j] # None /\ job'[j].match = m /\ job'[j].game = g
  BY <1>1, NoneIsNoRecord, PollingAssumption DEF TypeOK, Job
<1>4. TypeOK'
  <2>1. job' \in [Jobs -> Job \cup {None}]
    BY <1>1, <1>3 DEF TypeOK
  <2>2. /\ byMatch' \in [Matches -> Jobs \cup {None}]
        /\ byKey' \in [Matches -> [Games -> Jobs \cup {None}]]
    BY <1>1 DEF TypeOK
  <2> QED
    BY <1>1, <1>2, <2>1, <2>2 DEF TypeOK
<1>5. \A i \in Jobs \ {j} : job'[i] = job[i]
  BY <1>1 DEF TypeOK
<1>6. j \notin stored /\ None \notin Jobs
  BY <1>1, PollingAssumption DEF NamesAreKnown, Known, Jobs
<1>7. \A n \in Matches, h \in Games :
        byKey'[n][h] = IF n = m /\ h = g THEN j ELSE byKey[n][h]
  BY <1>1 DEF TypeOK
<1>8. \A n \in Matches : byMatch'[n] = IF n = m THEN j ELSE byMatch[n]
  BY <1>1 DEF TypeOK
<1>9. NamesAreKnown'
  BY <1>1, <1>2, <1>3, <1>5, FlightKnown DEF NamesAreKnown, Known, Busy, TypeOK
<1>10. KeysAreOwn'
  BY <1>1, <1>3, <1>5, <1>6, <1>7 DEF KeysAreOwn, IndexesAgree, TypeOK
<1>11. IndexesAgree'
  <2>1. \A i \in stored' : byKey'[job'[i].match][job'[i].game] = i
    BY <1>1, <1>2, <1>3, <1>5, <1>6, <1>7, NoneIsNoRecord
       DEF TypeOK, NamesAreKnown, Known, Job, IndexesAgree
  <2>2. \A n \in Matches, h \in Games : byKey'[n][h] # None => byKey'[n][h] \in stored'
    BY <1>1, <1>7 DEF IndexesAgree
  <2>3. \A n \in Matches : byMatch'[n] # None =>
          byMatch'[n] \in stored' /\ job'[byMatch'[n]].match = n
    BY <1>1, <1>3, <1>5, <1>6, <1>8 DEF IndexesAgree, TypeOK
  <2> QED
    BY <2>1, <2>2, <2>3 DEF IndexesAgree
<1>12. NoJobVanishes'
  BY <1>1, <1>2, <1>5 DEF NoJobVanishes
<1>13. StopHolds'
  BY <1>2 DEF StopHolds, stopped, Busy
<1> QED
  BY <1>4, <1>9, <1>10, <1>11, <1>12, <1>13

LEMMA LedgerAnswerStep ==
  ASSUME IInv, NEW c \in Pollers, NEW late \in BOOLEAN, LedgerAnswer(c, late)
  PROVE  IInv'
<1> USE DEF IInv
<1> DEFINE j == poll[c].job
<1>1. /\ Busy(c) /\ UNCHANGED <<armed, cycleTimer, cycling, todo, phase>>
      /\ j \in Jobs /\ Known(j) /\ poll[c] \in Flight
  BY FlightKnown DEF LedgerAnswer, Busy, timerVars, cycleVars
<1>2. CASE late
  <2>1. /\ Remove(j) /\ poll' = [poll EXCEPT ![c] = [job |-> j, at |-> "callback"]]
        /\ deadLetters' = [deadLetters EXCEPT ![j] = Up(deadLetters[j])]
        /\ UNCHANGED <<job, completed, quarantined>>
    BY <1>2 DEF LedgerAnswer, Call
  <2>2. /\ deadLetters' \in [Jobs -> Nat] /\ deadLetters'[j] > 0
        /\ \A i \in Jobs : deadLetters[i] > 0 => deadLetters'[i] > 0
    BY <1>1, <2>1, UpCounts DEF TypeOK
  <2>3. /\ poll' \in [Pollers -> Flight \cup {None}]
        /\ \A d \in Pollers : poll'[d] # None => poll'[d].job = poll[d].job /\ Busy(d)
    BY <1>1, <2>1 DEF TypeOK, Flight, Busy
  <2>4. completed' \in [Jobs -> Nat] /\ quarantined' \in SUBSET Jobs
        /\ \A i \in Jobs : completed[i] > 0 => completed'[i] > 0
    BY <2>1 DEF TypeOK
  <2> QED
    BY <1>1, <2>1, <2>2, <2>3, <2>4, JobLeaves
<1>3. CASE ~ late
  <2>1. Fetch(c, j) /\ UNCHANGED <<stored, byMatch, byKey, completed, deadLetters, quarantined>>
    BY <1>3 DEF LedgerAnswer, history
  <2>2. /\ job' \in [Jobs -> Job \cup {None}] /\ SameJobs
        /\ poll' = [poll EXCEPT ![c] = [job |-> j, at |-> "provider"]]
    BY <1>1, <2>1, FetchStep
  <2>3. TypeOK' /\ NamesAreKnown'
    BY <1>1, <2>1, <2>2 DEF TypeOK, NamesAreKnown, SameJobs, Busy, Flight, Known
  <2>4. KeysAreOwn' /\ IndexesAgree'
    BY <2>1, <2>2, StoreKept
  <2>5. NoJobVanishes' /\ StopHolds'
    BY <1>1, <2>1, <2>2 DEF NoJobVanishes, StopHolds, stopped, SameJobs, Known, Busy
  <2> QED
    BY <2>3, <2>4, <2>5
<1> QED
  BY <1>2, <1>3

LEMMA ProviderAnswerStep ==
  ASSUME IInv, NEW c \in Pollers, NEW status \in Statuses, ProviderAnswer(c, status)
  PROVE  IInv'
<1> USE DEF IInv
<1> DEFINE j == poll[c].job
<1>1. /\ Busy(c) /\ UNCHANGED <<cycleTimer, cycling, todo, phase>>
      /\ j \in Jobs /\ Known(j) /\ poll[c] \in Flight
  BY FlightKnown DEF ProviderAnswer, Busy, cycleVars
<1>2. ASSUME poll' = [poll EXCEPT ![c] = None] \/
             poll' = [poll EXCEPT ![c] = [job |-> j, at |-> "callback"]]
      PROVE  /\ poll' \in [Pollers -> Flight \cup {None}]
             /\ \A d \in Pollers : poll'[d] # None => poll'[d].job = poll[d].job /\ Busy(d)
             /\ \A d \in Pollers : poll'[d] # None => poll[d] # None
  BY <1>1, <1>2 DEF TypeOK, Flight, Busy
<1>3. CASE InProgress(c, j)
  <2>1. /\ armed' = [armed EXCEPT ![j] = armed[j] + 1]
        /\ poll' = [poll EXCEPT ![c] = None]
        /\ UNCHANGED <<job, stored, byMatch, byKey, completed, deadLetters, quarantined>>
    BY <1>3 DEF InProgress, Done, storeVars, history
  <2>2. TypeOK' /\ NamesAreKnown'
    BY <1>1, <1>2, <2>1 DEF TypeOK, NamesAreKnown, Known, Busy
  <2>3. KeysAreOwn' /\ IndexesAgree' /\ NoJobVanishes'
    BY <2>1 DEF KeysAreOwn, IndexesAgree, NoJobVanishes
  <2>4. StopHolds'
    BY <1>1, <1>2, <2>1 DEF StopHolds, stopped, Busy
  <2> QED
    BY <2>2, <2>3, <2>4
<1>4. CASE PollFailed(c, j) /\ AttemptsLeft(j)
  <2>1. /\ poll' = [poll EXCEPT ![c] = None]
        /\ UNCHANGED <<job, stored, byMatch, byKey, armed, completed, deadLetters, quarantined>>
    BY <1>4 DEF PollFailed, Done, storeVars, history
  <2>2. TypeOK' /\ NamesAreKnown'
    BY <1>1, <1>2, <2>1 DEF TypeOK, NamesAreKnown, Known, Busy
  <2>3. KeysAreOwn' /\ IndexesAgree' /\ NoJobVanishes'
    BY <2>1 DEF KeysAreOwn, IndexesAgree, NoJobVanishes
  <2>4. StopHolds'
    BY <1>1, <1>2, <2>1 DEF StopHolds, stopped, Busy
  <2> QED
    BY <2>2, <2>3, <2>4
<1>5. CASE PollFailed(c, j) /\ ~ AttemptsLeft(j)
  <2>1. /\ Remove(j) /\ poll' = [poll EXCEPT ![c] = [job |-> j, at |-> "callback"]]
        /\ deadLetters' = [deadLetters EXCEPT ![j] = Up(deadLetters[j])]
        /\ UNCHANGED <<job, armed, completed, quarantined>>
    BY <1>5 DEF PollFailed, Call
  <2>2. /\ deadLetters' \in [Jobs -> Nat] /\ deadLetters'[j] > 0
        /\ \A i \in Jobs : deadLetters[i] > 0 => deadLetters'[i] > 0
    BY <1>1, <2>1, UpCounts DEF TypeOK
  <2>3. completed' \in [Jobs -> Nat] /\ quarantined' \in SUBSET Jobs
    BY <2>1 DEF TypeOK
  <2> QED
    BY <1>1, <1>2, <2>1, <2>2, <2>3, JobLeaves
<1>6. CASE GameCompleted(c, j)
  <2>1. /\ Remove(j) /\ poll' = [poll EXCEPT ![c] = [job |-> j, at |-> "callback"]]
        /\ completed' = [completed EXCEPT ![j] = Up(completed[j])]
        /\ UNCHANGED <<job, armed, deadLetters, quarantined>>
    BY <1>6 DEF GameCompleted, Call
  <2>2. /\ completed' \in [Jobs -> Nat] /\ completed'[j] > 0
        /\ \A i \in Jobs : completed[i] > 0 => completed'[i] > 0
    BY <1>1, <2>1, UpCounts DEF TypeOK
  <2>3. deadLetters' \in [Jobs -> Nat] /\ quarantined' \in SUBSET Jobs
    BY <2>1 DEF TypeOK
  <2> QED
    BY <1>1, <1>2, <2>1, <2>2, <2>3, JobLeaves
<1>7. CASE ReviewRequired(c, j)
  <2>1. /\ Remove(j) /\ poll' = [poll EXCEPT ![c] = None]
        /\ quarantined' = quarantined \cup {j}
        /\ UNCHANGED <<job, armed, completed, deadLetters>>
    BY <1>7 DEF ReviewRequired, Done
  <2>2. /\ deadLetters' \in [Jobs -> Nat] /\ completed' \in [Jobs -> Nat]
        /\ quarantined' \in SUBSET Jobs
    BY <1>1, <2>1 DEF TypeOK
  <2> QED
    BY <1>1, <1>2, <2>1, <2>2, JobLeaves
<1> QED
  BY <1>3, <1>4, <1>5, <1>6, <1>7 DEF ProviderAnswer, Statuses

\* The cycle takes a snapshot of the jobs of the store.
LEMMA PollAllJobsStep ==
  ASSUME IInv, PollAllJobs, UNCHANGED <<storeVars, armed, poll, history>>,
         phase' \in {"new", "running", "stopping", "stopped"},
         ~ stopped, ~ stopped'
  PROVE  IInv'
<1> USE DEF IInv, storeVars, history
<1>1. /\ todo' \in SUBSET stored /\ cycling' \in BOOLEAN /\ cycleTimer' \in BOOLEAN
  BY DEF PollAllJobs, stopped
<1>2. TypeOK' /\ NamesAreKnown'
  BY <1>1 DEF TypeOK, NamesAreKnown, Known, Busy
<1>3. KeysAreOwn' /\ IndexesAgree' /\ NoJobVanishes'
  BY DEF KeysAreOwn, IndexesAgree, NoJobVanishes
<1>4. StopHolds'
  BY DEF StopHolds, stopped, Busy
<1> QED
  BY <1>2, <1>3, <1>4

\* A cycle or a timer starts a poll.
LEMMA PollStarts ==
  ASSUME IInv, NEW c \in Pollers, NEW j \in Jobs, Known(j), PollJob(c, j),
         armed' \in [Jobs -> Nat], \A i \in Jobs : armed'[i] <= armed[i],
         todo' \in SUBSET todo, phase # "stopped",
         UNCHANGED <<stored, byMatch, byKey, cycleTimer, cycling, phase, history>>
  PROVE  IInv'
<1> USE DEF IInv, history
<1>1. /\ job' \in [Jobs -> Job \cup {None}] /\ SameJobs
      /\ \E at \in {"ledger", "provider"} :
           poll' = [poll EXCEPT ![c] = [job |-> j, at |-> at]]
  BY PollJobStep
<1>2. poll' \in [Pollers -> Flight \cup {None}] /\ poll'[c].job = j
  BY <1>1 DEF TypeOK, Flight
<1>3. TypeOK'
  BY <1>1, <1>2 DEF TypeOK
<1>4. NamesAreKnown'
  <2>1. \A i \in stored' \cup todo' : Known(i)'
    BY <1>1 DEF TypeOK, NamesAreKnown, SameJobs
  <2>2. \A i \in Jobs : armed'[i] > 0 => Known(i)'
    <3> SUFFICES ASSUME NEW i \in Jobs, armed'[i] > 0 PROVE Known(i)'
      OBVIOUS
    <3>1. armed[i] \in Nat /\ armed'[i] \in Nat /\ armed'[i] <= armed[i]
      BY DEF TypeOK
    <3> QED
      BY <1>1, <3>1 DEF NamesAreKnown, SameJobs
  <2>3. \A d \in Pollers \ {c} : poll'[d] = poll[d]
    BY <1>1 DEF TypeOK
  <2>4. \A d \in Pollers : Busy(d)' => Known(poll[d].job)'
    BY <1>1, <1>2, <2>3, FlightKnown DEF SameJobs, Busy
  <2> QED
    BY <2>1, <2>2, <2>4 DEF NamesAreKnown
<1>5. KeysAreOwn' /\ IndexesAgree'
  BY <1>1, StoreKept
<1>6. NoJobVanishes' /\ StopHolds'
  BY <1>1 DEF NoJobVanishes, StopHolds, stopped, SameJobs, Known, Busy
<1> QED
  BY <1>3, <1>4, <1>5, <1>6

LEMMA NextIInv == IInv /\ [Next]_vars => IInv'
<1> SUFFICES ASSUME IInv, [Next]_vars PROVE IInv'
  OBVIOUS
<1> USE DEF IInv
<1>1. CASE Start
  BY <1>1, PollAllJobsStep DEF Start, StopHolds, stopped
<1>2. CASE CycleTimerFires
  <2>1. ~ stopped
    BY <1>2 DEF CycleTimerFires, StopHolds
  <2>2. /\ PollAllJobs /\ UNCHANGED <<storeVars, armed, poll, history>>
        /\ ~ stopped' /\ phase' \in {"new", "running", "stopping", "stopped"}
    BY <1>2, <2>1 DEF CycleTimerFires, stopped, TypeOK
  <2> QED
    BY <2>1, <2>2, PollAllJobsStep
<1>3. CASE CyclePolls
  <2>1. PICK j \in todo : PollJob("cycle", j) /\ todo' = todo \ {j}
    BY <1>3 DEF CyclePolls
  <2>2. j \in Jobs /\ Known(j) /\ "cycle" \in Pollers /\ phase # "stopped"
    BY <1>3 DEF TypeOK, NamesAreKnown, Pollers, CyclePolls, StopHolds
  <2>3. armed' \in [Jobs -> Nat] /\ \A i \in Jobs : armed'[i] <= armed[i]
    BY <1>3 DEF CyclePolls, timerVars, TypeOK
  <2> QED
    BY <1>3, <2>1, <2>2, <2>3, PollStarts DEF CyclePolls, timerVars
<1>4. CASE CycleEnds
  <2>1. TypeOK' /\ NamesAreKnown'
    BY <1>4 DEF CycleEnds, storeVars, history, TypeOK, NamesAreKnown, Known, Busy, stopped
  <2>2. KeysAreOwn' /\ IndexesAgree' /\ NoJobVanishes'
    BY <1>4 DEF CycleEnds, storeVars, history, KeysAreOwn, IndexesAgree, NoJobVanishes
  <2>3. StopHolds'
    BY <1>4 DEF CycleEnds, StopHolds, stopped, Busy
  <2> QED
    BY <2>1, <2>2, <2>3
<1>5. CASE StopReturns
  <2>1. TypeOK' /\ NamesAreKnown'
    BY <1>5 DEF StopReturns, storeVars, timerVars, cycleVars, history, TypeOK, NamesAreKnown,
                Known, Busy
  <2>2. KeysAreOwn' /\ IndexesAgree' /\ NoJobVanishes'
    BY <1>5 DEF StopReturns, storeVars, history, KeysAreOwn, IndexesAgree, NoJobVanishes
  <2>3. StopHolds'
    BY <1>5 DEF StopReturns, Drained, timerVars, cycleVars, StopHolds, stopped, Busy
  <2> QED
    BY <2>1, <2>2, <2>3
<1>6. ASSUME NEW j \in Jobs, JobTimerFires(j) PROVE IInv'
  <2>1. /\ armed' \in [Jobs -> Nat] /\ \A i \in Jobs : armed'[i] <= armed[i]
        /\ Known(j) /\ todo' = todo
        /\ UNCHANGED <<stored, byMatch, byKey, cycleTimer, cycling, phase, history>>
    BY <1>6 DEF JobTimerFires, cycleVars, TypeOK, NamesAreKnown
  <2>2. CASE stopped
    <3>1. UNCHANGED <<job, poll>>
      BY <1>6, <2>2 DEF JobTimerFires, IgnoresTimers
    <3>2. TypeOK' /\ NamesAreKnown'
      BY <2>1, <3>1 DEF history, TypeOK, NamesAreKnown, Known, Busy
    <3>3. KeysAreOwn' /\ IndexesAgree' /\ NoJobVanishes' /\ StopHolds'
      BY <2>1, <3>1 DEF history, KeysAreOwn, IndexesAgree, NoJobVanishes, StopHolds, stopped, Busy
    <3> QED
      BY <3>2, <3>3
  <2>3. CASE ~ stopped
    <3>1. PICK c \in Slots : PollJob(c, j)
      BY <1>6, <2>3 DEF JobTimerFires, IgnoresTimers
    <3>2. c \in Pollers /\ phase # "stopped"
      BY <2>3 DEF Pollers, stopped
    <3> QED
      BY <2>1, <3>1, <3>2, PollStarts
  <2> QED
    BY <2>2, <2>3
<1>7. ASSUME NEW c \in Pollers, NEW late \in BOOLEAN, LedgerAnswer(c, late) PROVE IInv'
  BY <1>7, LedgerAnswerStep
<1>8. ASSUME NEW c \in Pollers, NEW s \in Statuses, ProviderAnswer(c, s) PROVE IInv'
  BY <1>8, ProviderAnswerStep
<1>9. ASSUME NEW c \in Pollers, CallbackReturns(c) PROVE IInv'
  <2>1. /\ poll' = [poll EXCEPT ![c] = None]
        /\ UNCHANGED <<storeVars, timerVars, cycleVars, phase, history>>
    BY <1>9 DEF CallbackReturns, Done
  <2>2. TypeOK' /\ NamesAreKnown'
    BY <2>1 DEF storeVars, timerVars, cycleVars, history, TypeOK, NamesAreKnown, Known, Busy
  <2>3. KeysAreOwn' /\ IndexesAgree' /\ NoJobVanishes'
    BY <2>1 DEF storeVars, history, KeysAreOwn, IndexesAgree, NoJobVanishes
  <2>4. StopHolds'
    BY <2>1 DEF timerVars, cycleVars, StopHolds, stopped, Busy, TypeOK
  <2> QED
    BY <2>2, <2>3, <2>4
<1>10. CASE Stop
  <2>1. armed' \in [Jobs -> Nat] /\ \A i \in Jobs : armed'[i] <= armed[i]
    BY <1>10 DEF Stop, Cleared, TypeOK
  <2>2. TypeOK'
    BY <1>10, <2>1 DEF Stop, storeVars, cycleVars, history, TypeOK
  <2>3. NamesAreKnown'
    BY <1>10, <2>1 DEF Stop, storeVars, cycleVars, TypeOK, NamesAreKnown, Known, Busy
  <2>4. KeysAreOwn' /\ IndexesAgree' /\ NoJobVanishes' /\ StopHolds'
    BY <1>10 DEF Stop, storeVars, history, KeysAreOwn, IndexesAgree, NoJobVanishes, StopHolds,
                 stopped
  <2> QED
    BY <2>2, <2>3, <2>4
<1>11. ASSUME NEW m \in Matches, NEW g \in Games, NEW b \in BOOLEAN, CreateJob(m, g, b)
       PROVE  IInv'
  BY <1>11, CreateJobStep
<1>12. CASE UNCHANGED <<storeVars, timerVars, cycleVars, poll, phase, history>>
  <2>1. TypeOK' /\ NamesAreKnown'
    BY <1>12 DEF storeVars, timerVars, cycleVars, history, TypeOK, NamesAreKnown, Known, Busy
  <2>2. KeysAreOwn' /\ IndexesAgree' /\ NoJobVanishes' /\ StopHolds'
    BY <1>12 DEF storeVars, timerVars, cycleVars, history, KeysAreOwn, IndexesAgree,
                 NoJobVanishes, StopHolds, stopped, Busy
  <2> QED
    BY <2>1, <2>2
<1>13. ASSUME NEW g \in Games, GameEnds(g) PROVE IInv'
  BY <1>12, <1>13 DEF GameEnds
<1>14. ASSUME NEW j \in Jobs, TimeoutPasses(j) PROVE IInv'
  BY <1>12, <1>14 DEF TimeoutPasses
<1>15. CASE UNCHANGED vars
  BY <1>12, <1>15 DEF vars
<1> HIDE DEF IInv
<1> QED
  BY <1>1, <1>2, <1>3, <1>4, <1>5, <1>6, <1>7, <1>8, <1>9, <1>10, <1>11, <1>13, <1>14, <1>15
     DEF Next, WorkerNext

LEMMA InductiveInvariant == Spec => []IInv
  BY InitIInv, NextIInv, PTL DEF Spec

\* No job is lost, from the indexes of PollingJobStore or from the store,
\* however creations, cycles, timers and answers interleave.
THEOREM NoJobIsLost == Spec => []JobsAccountedFor
<1>1. IInv => JobsAccountedFor
  BY DEF IInv, JobsAccountedFor
<1> QED
  BY <1>1, InductiveInvariant, PTL

\* Once stop() has returned, nothing is in flight and no callback is made,
\* whatever timers are left in the process.
THEOREM StoppedForGood == Spec => StopIsFinal
<1> DEFINE Quiet == phase = "stopped" =>
             /\ ~ cycling /\ \A c \in Pollers : poll[c] = None
             /\ UNCHANGED <<poll, cycling, completed, deadLetters, quarantined>>
<1>1. IInv /\ [Next]_vars => [Quiet]_vars
  <2> SUFFICES ASSUME IInv, Next, phase = "stopped" PROVE Quiet
    BY DEF vars
  <2>1. ~ cycling /\ ~ cycleTimer /\ \A c \in Pollers : poll[c] = None
    BY DEF IInv, StopHolds, stopped, Busy
  <2>2. stopped
    BY DEF stopped
  <2> QED
    BY <2>1, <2>2 DEF Next, WorkerNext, Start, CycleTimerFires, CyclePolls, CycleEnds,
       StopReturns, JobTimerFires, IgnoresTimers, LedgerAnswer, ProviderAnswer,
       CallbackReturns, Stop, CreateJob, GameEnds, TimeoutPasses, cycleVars, history
<1> QED
  BY <1>1, InductiveInvariant, PTL DEF Spec, StopIsFinal

-----------------------------------------------------------------------------
(* The results of the platforms: GameResults.                              *)

LichessGames ==
  [status : STRING, winner : {"white", "black", "none"},
   named : BOOLEAN, dated : BOOLEAN, same : BOOLEAN]

LichessAnswers == [http : Nat, game : LichessGames]

\* The same game with the colours exchanged, and the result it should have.
Other(winner) ==
  IF winner = "white" THEN "black" ELSE IF winner = "black" THEN "white" ELSE "none"
Flip(result) ==
  IF result = "Player1Wins" THEN "Player2Wins"
  ELSE IF result = "Player2Wins" THEN "Player1Wins" ELSE result

\* Exchanging the colours of a Lichess game exchanges the winner and changes
\* nothing else: not whether there is a result, nor whether it is refused
\* (fetchLichessResult, normalizeResult).
THEOREM LichessIsFair ==
  ASSUME NEW game \in LichessGames
  PROVE  LET swapped == [game EXCEPT !.winner = Other(game.winner)] IN
         LichessAnswer([http |-> 200, game |-> swapped])
           = Flip(LichessAnswer([http |-> 200, game |-> game]))
<1> DEFINE swapped == [game EXCEPT !.winner = Other(game.winner)]
<1>1. /\ swapped.status = game.status /\ swapped.winner = Other(game.winner)
      /\ swapped.named = game.named /\ swapped.dated = game.dated
      /\ swapped.same = game.same
      /\ game.winner \in {"white", "black", "none"}
      /\ game.named \in BOOLEAN /\ game.dated \in BOOLEAN /\ game.same \in BOOLEAN
  BY DEF LichessGames
<1> HIDE DEF swapped
<1>2. LichessOutcome(swapped) = Flip(LichessOutcome(game))
  BY <1>1 DEF LichessOutcome, Flip, Other, WinOf
<1>3. LichessOutcome(game) \in MatchResult \cup {"null", "ambiguous"}
  BY <1>1 DEF LichessOutcome, WinOf, MatchResult, Wins
<1>4. normalizeResult(LichessOutcome(swapped), swapped)
        = Flip(normalizeResult(LichessOutcome(game), game))
  BY <1>1, <1>2, <1>3 DEF normalizeResult, Flip, MatchResult, Wins
<1>5. LichessAnswer([http |-> 200, game |-> swapped])
        = Flip(LichessAnswer([http |-> 200, game |-> game]))
  BY <1>1, <1>4 DEF LichessAnswer, Flip
<1> QED BY <1>5 DEF swapped

\* Of a Chess.com game too (mapResult).
THEOREM ChessDotComIsFair ==
  ASSUME NEW white \in STRING, NEW black \in STRING
  PROVE  mapResult(black, white) = Flip(mapResult(white, black))
BY DEF mapResult, Flip, LOSS_RESULTS, DRAW_RESULTS, IN_PROGRESS

\* The fetch of a Lichess game gives up on the rate limit after exactly four
\* refusals in a row: any earlier answer is used ("up to MAX_RETRIES times.
\* Throws RateLimitError if still rate-limited after that").
THEOREM FourRefusals ==
  ASSUME NEW answers \in Seq(LichessAnswers),
         Len(answers) >= 4
  PROVE  FetchLichessResult(answers) = "rate_limited"
           <=> \A i \in 1 .. 4 : answers[i].http = 429
<1> DEFINE s == SubSeq(answers, 1, 4)
           IsFirst(i) == /\ \A j \in 1 .. i - 1 : Limited(s[j])
                         /\ ~ Limited(s[i]) \/ i = Len(s)
           first == FirstNot(s, Limited)
<1>1. Len(s) = 4 /\ DOMAIN s = 1 .. 4 /\ \A i \in 1 .. 4 : s[i] = answers[i]
  OBVIOUS
<1> HIDE DEF s
<1>2. \E i \in DOMAIN s : IsFirst(i)
  <2>1. CASE \A i \in 1 .. 3 : Limited(s[i])
    BY <2>1, <1>1
  <2>2. CASE ~ Limited(s[1])
    BY <2>2, <1>1
  <2>3. CASE Limited(s[1]) /\ ~ Limited(s[2])
    BY <2>3, <1>1
  <2>4. CASE Limited(s[1]) /\ Limited(s[2]) /\ ~ Limited(s[3])
    BY <2>4, <1>1
  <2> QED BY <2>1, <2>2, <2>3, <2>4
<1>3. first \in DOMAIN s /\ IsFirst(first)
  BY <1>2 DEF FirstNot
<1> HIDE DEF first
<1>4. LichessAnswer(s[first]) = "rate_limited" <=> Limited(s[first])
  <2>1. s[first] = answers[first] /\ first \in 1 .. 4
    BY <1>1, <1>3
  <2>2. answers[first] \in LichessAnswers
    BY <2>1
  <2> DEFINE game == s[first].game
  <2>3. LichessOutcome(game) # "rate_limited"
    BY DEF LichessOutcome, WinOf
  <2>4. normalizeResult(LichessOutcome(game), game) # "rate_limited"
    BY <2>3 DEF normalizeResult
  <2> QED BY <2>1, <2>2, <2>4 DEF LichessAnswer, Limited, LichessAnswers
<1>5. Limited(s[first]) <=> \A i \in 1 .. 4 : Limited(s[i])
  BY <1>1, <1>3
<1>6. s = SubSeq(answers, 1, MAX_RETRIES + 1)
  BY DEF s, MAX_RETRIES
<1>7. FetchLichessResult(answers) = LichessAnswer(s[first])
  BY <1>1, <1>3, <1>6 DEF FetchLichessResult, first
<1>8. \A i \in 1 .. 4 : Limited(s[i]) <=> answers[i].http = 429
  BY <1>1 DEF Limited
<1> QED BY <1>4, <1>5, <1>7, <1>8

\* A game that is accepted for a wager is one the poller will poll: on the same
\* answer it reports a game in progress or a result, and never a failure; and
\* apart from the rate limit, which it waits out, it polls no other game.
THEOREM AcceptedIsPolled ==
  ASSUME NEW platform, NEW username \in BOOLEAN, NEW fetched \in FetchResults
  PROVE  ValidateGame(platform, username, fetched) = 200
           <=> /\ Poll(platform, username, fetched) # "failed"
               /\ fetched # "rate_limited"
BY DEF ValidateGame, Poll, FetchResults, Errors, MatchResult, Wins, errorToHttpStatus,
       checkGameEligibility, FetchedMetadata, NoMetadata, SUPPORTED_SPEEDS,
       UNVERIFIABLE_END_STATUSES

\* No game is ever refused by the eligibility rules: the fetchers attach no
\* metadata and their status is "in_progress" or "finished", so "Completion is
\* checked for every game, from the status the fetcher returns"
\* (docs/supported-games.md) checks nothing.  Aborted games are refused all the
\* same, as ambiguous.
THEOREM RulesNeverRefuse ==
  ASSUME NEW platform, NEW username \in BOOLEAN, NEW fetched \in FetchResults
  PROVE  ValidateGame(platform, username, fetched) # 422
BY DEF ValidateGame, FetchResults, Errors, MatchResult, Wins, errorToHttpStatus,
       checkGameEligibility, FetchedMetadata, NoMetadata, SUPPORTED_SPEEDS,
       UNVERIFIABLE_END_STATUSES
=============================================================================
