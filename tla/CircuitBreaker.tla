--------------------------- MODULE CircuitBreaker ---------------------------
(***************************************************************************)
(* The global circuit breaker over time, with its persistence: every call  *)
(* that may change it saves a snapshot without waiting for the save        *)
(* (persist); a save that finds the database locked sleeps and tries       *)
(* again, so saves may land in any order; a restart restores what the      *)
(* last save to land wrote (initializeCircuitBreaker, restoreState).       *)
(*                                                                         *)
(* Results are recorded in any state: the requests they belong to may have *)
(* been allowed long before.                                               *)
(***************************************************************************)
EXTENDS BreakerState, SequencesExt

CONSTANTS
  CooldownMs, BackoffMultiplier, MaxCooldownMs,   \* in ticks of the clock
  MaxTime,      \* bound: last clock value
  MaxSaves      \* bound: saves in flight at once

\* The cooldown has reached its cap when attemptCount saturates.
CooldownAssumption ==
  /\ CooldownMs \in Nat /\ BackoffMultiplier \in Nat \ {0} /\ MaxCooldownMs \in Nat
  /\ MaxTime \in Nat /\ MaxSaves \in Nat
  /\ CooldownMs * BackoffMultiplier ^ MaxAttemptCount >= MaxCooldownMs

VARIABLES
  breaker,   \* the CircuitBreaker instance
  now,       \* Date.now()
  saves,     \* snapshots on their way to the store, in the order of the calls
  row,       \* circuit_breaker_state, None before the first save
  newest,    \* history: what became of the snapshot of the last call
  streak,    \* history: failures since the last success
  good,      \* history: successes since the breaker went half open
  tests,     \* history: failed tests since the breaker was last closed
  quietTill  \* history: end of the cooldown the last opening started

calls == <<streak, good, tests, quietTill>>
breakerVars == <<breaker, now, saves, row, newest, calls>>

Least(a, b) == IF a < b THEN a ELSE b
calculateCooldown(n) == Least(CooldownMs * BackoffMultiplier ^ n, MaxCooldownMs)
Cooled(b) == now - b.openedAt >= calculateCooldown(b.attemptCount)

Init ==
  /\ breaker = Closed
  /\ now = 0
  /\ saves = << >>
  /\ row = None
  /\ newest = "landed"
  /\ streak = 0 /\ good = 0 /\ tests = 0 /\ quietTill = 0

\* persist(): the store is asked to save, nobody waits.
Persist(b) ==
  /\ Len(saves) < MaxSaves
  /\ saves' = Append(saves, b)
  /\ newest' = "pending"
  /\ UNCHANGED row

\* allowRequest, when it changes anything.
AllowRequest ==
  /\ breaker.state = "OPEN" /\ Cooled(breaker)
  /\ breaker' = AfterAllow(breaker, TRUE)
  /\ Persist(breaker')
  /\ good' = 0
  /\ UNCHANGED <<now, streak, tests, quietTill>>

RecordSuccess ==
  /\ breaker' = AfterSuccess(breaker)
  /\ Persist(breaker')
  /\ streak' = 0
  /\ good' = Least(good + 1, SuccessThreshold)
  /\ tests' = IF breaker'.state = "CLOSED" THEN 0 ELSE tests
  /\ UNCHANGED <<now, quietTill>>

RecordFailure ==
  /\ breaker' = AfterFailure(breaker, now)
  /\ Persist(breaker')
  /\ streak' = Least(streak + 1, FailureThreshold)
  /\ good' = 0
  /\ tests' = IF breaker.state = "HALF_OPEN" THEN Tried(tests) ELSE tests
  /\ quietTill' = IF breaker'.state = "OPEN" /\ breaker.state # "OPEN"
                  THEN now + calculateCooldown(tests') ELSE quietTill
  /\ UNCHANGED now

Reset ==
  /\ breaker' = Closed
  /\ Persist(Closed)
  /\ streak' = 0 /\ good' = 0 /\ tests' = 0
  /\ UNCHANGED <<now, quietTill>>

\* The snapshot of the last call is the last in flight, if it still is.
IsNewest(i) == newest = "pending" /\ i = Len(saves)

\* A save lands, perhaps before an older one that found the database locked.
SaveLands(i) ==
  /\ row' = saves[i]
  /\ saves' = RemoveAt(saves, i)
  /\ newest' = IF IsNewest(i) THEN "landed"
               ELSE IF newest = "landed" THEN "overwritten" ELSE newest
  /\ UNCHANGED <<breaker, now, calls>>

\* withRetry gives up; onPersist logs it and the snapshot is gone.
SaveFails(i) ==
  /\ saves' = RemoveAt(saves, i)
  /\ newest' = IF IsNewest(i) THEN "lost" ELSE newest
  /\ UNCHANGED <<breaker, now, row, calls>>

\* restoreState: an open or half-open breaker whose cooldown is over at the
\* restart comes back closed.
Restored_IgnoresBackoff(b) ==
  IF b.state # "CLOSED" /\ now - b.openedAt >= CooldownMs THEN Closed ELSE b
Restored(b) ==
  IF b.state # "CLOSED" /\ Cooled(b) THEN Closed ELSE b

\* The process dies with its saves and starts again.
Restart ==
  /\ LET b == IF row = None THEN Closed ELSE Restored(row) IN
       /\ breaker' = b
       /\ saves' = IF row = None THEN << >> ELSE <<b>>
       /\ newest' = IF row = None THEN "landed" ELSE "pending"
       /\ streak' = b.failureCount
       /\ good' = b.successCount
       /\ tests' = b.attemptCount
       /\ quietTill' = IF b.state = "OPEN"
                       THEN b.openedAt + calculateCooldown(b.attemptCount) ELSE now
  /\ UNCHANGED <<now, row>>

Tick ==
  /\ now < MaxTime
  /\ now' = now + 1
  /\ UNCHANGED <<breaker, saves, row, newest, calls>>

Next ==
  \/ AllowRequest \/ RecordSuccess \/ RecordFailure \/ Reset \/ Restart \/ Tick
  \/ \E i \in DOMAIN saves : SaveLands(i) \/ SaveFails(i)

Spec == Init /\ [][Next]_breakerVars

-----------------------------------------------------------------------------
\* The circuit moves for a reason only.  recordFailure opens it after
\* FailureThreshold failures with no success between them, however they
\* interleave with tests and results of older requests, or after a failed
\* test; and nothing but successes after the cooldown, a reset or a restart
\* closes it: late successes of requests allowed before it opened do not count
\* (recordSuccess).
TransitionsForCause ==
  [][~ Reset /\ ~ Restart =>
       /\ breaker.state # "OPEN" /\ breaker'.state = "OPEN" =>
            breaker.state = "HALF_OPEN" \/ streak' >= FailureThreshold
       /\ breaker.state # "CLOSED" /\ breaker'.state = "CLOSED" =>
            breaker.state = "HALF_OPEN" /\ good' >= SuccessThreshold]_breakerVars

\* Once open, the breaker refuses until its cooldown is over, which doubles
\* with every failed test since it was last closed (calculateCooldown,
\* allowRequest); and "restoring from disk must not bypass it": when the last
\* snapshot reached the store and nothing overwrote it, a restart comes back
\* open, with the same cooldown to wait for.
CooldownKept ==
  [][breaker.state = "OPEN" /\ now < quietTill /\ ~ Reset =>
       \/ breaker'.state = "OPEN" /\ quietTill' = quietTill
       \/ Restart /\ newest # "landed"]_breakerVars

=============================================================================
