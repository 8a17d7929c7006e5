---------------------------- MODULE ReviewLedger ----------------------------
(***************************************************************************)
(* The decisions about one game under its lock                             *)
(* (apps/backend/src/store/evidence-store.ts and routes/oracle-review.ts): *)
(* operators may ask to fetch the evidence again when a review is due.     *)
(* The callers that record verdicts are not in the source; they are        *)
(* modelled as the lock's comment has them, verification under the lock.   *)
(* Games do not meet: rows and locks are per game.                         *)
(***************************************************************************)
EXTENDS Integers, Sequences, SequencesExt

CONSTANTS
  Operators, Verifiers,   \* calls of the retry route, verifications
  None,
  MaxDecisions            \* bound: rows of the ledger

Callers == Operators \cup Verifiers
ReviewAssumption == Operators \cap Verifiers = {} /\ MaxDecisions \in Nat

VARIABLES
  ledger,   \* oracle_decisions of the game, in the order of their ids
  locked,   \* locks: the callers chained by withGameLock, the one at work first
  pending   \* what each caller is at: waiting, reading, or about to append a state

reviewVars == <<ledger, locked, pending>>

Init ==
  /\ ledger = << >>
  /\ locked = << >>
  /\ pending = [c \in Callers |-> "idle"]

\* withGameLock chains the caller behind the previous one.
WithGameLock(c) ==
  /\ pending[c] = "idle"
  /\ locked' = Append(locked, c)
  /\ pending' = [pending EXCEPT ![c] = "waiting"]
  /\ UNCHANGED ledger

\* The action starts when the one before it has settled, either way.
MyTurn_Any(c) == Contains(locked, c)
MyTurn(c) == locked # << >> /\ Head(locked) = c
Settles(c) ==
  /\ locked' = Tail(locked)
  /\ pending' = [pending EXCEPT ![c] = "idle"]

ReviewDue == ledger # << >> /\ Last(ledger) = "review_required"

\* history() answers; an operator goes on only if a review is due.
History(c) ==
  /\ pending[c] = "waiting" /\ MyTurn(c)
  /\ \/ /\ c \in Operators
        /\ ReviewDue
        /\ pending' = [pending EXCEPT ![c] = "retry_requested"]
        /\ UNCHANGED locked
     \/ /\ c \in Operators
        /\ ~ ReviewDue
        /\ Settles(c)
     \/ /\ c \in Verifiers
        /\ \E state \in {"review_required", "verified", "in_progress"} :
             pending' = [pending EXCEPT ![c] = state]
        /\ UNCHANGED locked
  /\ UNCHANGED ledger

AppendDecision(c) ==
  /\ pending[c] \notin {"idle", "waiting"} /\ Len(ledger) < MaxDecisions
  /\ ledger' = Append(ledger, pending[c])
  /\ Settles(c)

\* A statement fails.
StoreFails(c) ==
  /\ pending[c] # "idle" /\ MyTurn(c)
  /\ Settles(c)
  /\ UNCHANGED ledger

\* The process starts again: the locks were in its memory.
Restart ==
  /\ locked' = << >>
  /\ pending' = [c \in Callers |-> "idle"]
  /\ UNCHANGED ledger

Next ==
  \/ Restart
  \/ \E c \in Callers :
       WithGameLock(c) \/ History(c) \/ AppendDecision(c) \/ StoreFails(c)

Spec == Init /\ [][Next]_reviewVars

-----------------------------------------------------------------------------
\* A review is answered by one retry: every retry_requested follows the
\* review_required it answers directly, whatever operators and verifications
\* run for the game at once (oracle-review.ts answers 409 otherwise).
OneRetryPerReview ==
  \A i \in DOMAIN ledger : ledger[i] = "retry_requested" =>
    i > 1 /\ ledger[i - 1] = "review_required"
=============================================================================
