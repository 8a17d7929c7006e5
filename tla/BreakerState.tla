---------------------------- MODULE BreakerState ----------------------------
(***************************************************************************)
(* The circuit breaker's record and what each call makes of it             *)
(* (apps/backend/src/services/circuit-breaker.ts).  lastFailureTime is     *)
(* left out: it is read only when an open breaker has no openedAt, and     *)
(* every transition to OPEN sets it.                                       *)
(***************************************************************************)
EXTENDS Integers

CONSTANTS
  FailureThreshold,   \* consecutive failures that open the circuit
  SuccessThreshold,   \* successes that close it again
  None,               \* null
  MaxAttemptCount     \* bound: attemptCount saturates, as the cooldown does

Breaker ==
  [state : {"CLOSED", "OPEN", "HALF_OPEN"},
   failureCount : 0 .. FailureThreshold,
   successCount : 0 .. SuccessThreshold,
   openedAt : Nat \cup {None},
   attemptCount : 0 .. MaxAttemptCount]

BreakerAssumption ==
  /\ FailureThreshold \in Nat \ {0}
  /\ SuccessThreshold \in Nat \ {0}
  /\ MaxAttemptCount \in Nat
  /\ None \notin Nat /\ None \notin Breaker

Closed == [state |-> "CLOSED", failureCount |-> 0, successCount |-> 0,
           openedAt |-> None, attemptCount |-> 0]

\* recordSuccess: openedAt is left as it was.
AfterSuccess(b) ==
  CASE b.state = "HALF_OPEN" ->
         IF b.successCount + 1 >= SuccessThreshold
         THEN [Closed EXCEPT !.openedAt = b.openedAt]
         ELSE [b EXCEPT !.successCount = @ + 1]
    [] b.state = "CLOSED" -> [b EXCEPT !.failureCount = 0]
    [] b.state = "OPEN" -> b

\* recordFailure; it answers whether the circuit opened.
Opens(b) ==
  \/ b.state = "HALF_OPEN"
  \/ b.state = "CLOSED" /\ b.failureCount + 1 >= FailureThreshold

Tried(n) == IF n < MaxAttemptCount THEN n + 1 ELSE n
AfterFailure(b, now) ==
  CASE b.state = "HALF_OPEN" /\ Opens(b) ->
         [b EXCEPT !.state = "OPEN", !.successCount = 0,
                   !.attemptCount = Tried(@), !.openedAt = now]
    [] b.state = "CLOSED" /\ Opens(b) ->
         [b EXCEPT !.state = "OPEN", !.failureCount = @ + 1,
                   !.openedAt = now, !.attemptCount = 0]
    [] b.state # "OPEN" /\ ~ Opens(b) -> [b EXCEPT !.failureCount = @ + 1]
    [] b.state = "OPEN" -> b

\* allowRequest, `cooled` saying whether the cooldown of an open breaker is
\* over.  It answers TRUE unless the breaker stays open.
AfterAllow_OnlyAnswers(b, cooled) == b
AfterAllow(b, cooled) ==
  IF b.state = "OPEN" /\ cooled
  THEN [b EXCEPT !.state = "HALF_OPEN", !.successCount = 0, !.failureCount = 0]
  ELSE b
Allowed(b, cooled) == AfterAllow(b, cooled).state # "OPEN"
=============================================================================
