---------------------------- MODULE MCSettlement ----------------------------
(***************************************************************************)
(* The two ways a verified result reaches the escrow, for TLC: the         *)
(* settlement outbox, and the submission with retries behind the           *)
(* dead-letter queue.  They share no state, so each behaviour is one of a  *)
(* single part.                                                            *)
(***************************************************************************)
EXTENDS Outbox

CONSTANTS
  FailureThreshold, SuccessThreshold, MaxAttemptCount,
  Cycles, MaxEntries, MayAge, MaxRetries, MaxAttempts, MaxFailures, MaxCrashes

VARIABLES
  part,
  onChain, queue, written, aged, submitter, cycle, evicting, breaker, cooled,
  failures, crashes, called, evicted

Dlq == INSTANCE DeadLetterQueue

ASSUME SettlementAssumption ==
  Dlq!BreakerAssumption /\ Dlq!QueueAssumption

queueVars ==
  <<onChain, queue, written, aged, submitter, cycle, evicting, breaker, cooled,
    failures, crashes, called, evicted>>
allVars == <<part, vars, queueVars>>

SettlementInit ==
  /\ part \in {"outbox", "queue"}
  /\ Init /\ Dlq!Init

SettlementNext ==
  /\ UNCHANGED part
  /\ \/ part = "outbox" /\ Next /\ UNCHANGED queueVars
     \/ part = "queue" /\ Dlq!Next /\ UNCHANGED vars

\* The fairness of each component, for the behaviours of its part.
SettlementFairness ==
  /\ WF_vars(part = "outbox" /\ CallNext)
  /\ \A h \in Hashes : WF_vars(part = "outbox" /\ ClockExpires(h))
  /\ \A m \in Followed : SF_vars(part = "outbox" /\ Advance(m))
  /\ WF_queueVars(part = "queue" /\ Dlq!CoolDown)
  /\ \A m \in Matches : WF_queueVars(part = "queue" /\ Dlq!Apply(m))
  /\ \A c \in Cycles : WF_queueVars(part = "queue" /\ Dlq!CycleStep(c))

SettlementSpec == SettlementInit /\ [][SettlementNext]_allVars /\ SettlementFairness

\* A submission that was answered for is never dropped, and its attempts are
\* counted.
NothingDropped == Dlq!NothingDropped /\ Dlq!AttemptsCounted
\* An entry leaves the queue settled or past its age.
OnlySettledLeaves == Dlq!OnlySettledLeaves
\* A verified outcome is in the end confirmed or put before an operator, and
\* a queued submission that can succeed is settled or outlives the TTL.
ResultsGetSettled ==
  \A m \in Followed :
    (Awaited(m) \/ Dlq!Pending(m))
      ~> (Decided(m) \/ Hopeless(m) \/ m \in onChain \cup evicted)
=============================================================================
