-------------------------- MODULE DeadLetterQueue --------------------------
(***************************************************************************)
(* The path of an oracle submission that fails: submitWithIdempotence and  *)
(* submitWithRetry (oracle-submit.ts), the dead-letter queue they and the  *)
(* polling worker write to, its retry worker behind the circuit breaker    *)
(* and its eviction task (queue.ts), await by await, over the durable      *)
(* store of the queue.                                                     *)
(*                                                                         *)
(* The retry worker's body is an async callback of setInterval: a cycle    *)
(* that outlasts the interval overlaps the next one, so cycles are a set.  *)
(* The handler that talks to the chain is external: it may apply the       *)
(* submission and then fail, and it resolves only once the result is on    *)
(* the chain.                                                              *)
(***************************************************************************)
EXTENDS BreakerState, FiniteSets, FiniteSetsExt

CONSTANTS
  Matches,
  Followed,     \* matches whose settlement the run follows
  Cycles,       \* bound: cycles of the retry worker that may overlap
  MaxEntries,   \* bound: entries ever written
  MayAge,       \* bound: entries that may outlive the TTL
  MaxRetries,   \* ORACLE_MAX_RETRIES
  MaxAttempts,  \* bound: attempts are counted up to here
  MaxFailures,  \* bound: awaits of the retry worker that reject
  MaxCrashes    \* bound: crashes

QueueAssumption ==
  /\ MaxEntries \in Nat /\ MayAge \subseteq Nat /\ MaxRetries \in Nat
  /\ MaxAttempts \in Nat \ {0} /\ MaxFailures \in Nat /\ MaxCrashes \in Nat
  /\ None \notin Matches

VARIABLES
  onChain,    \* matches whose result the contract has recorded
  queue,      \* oracle_dlq: id -> entry, ids in the order of createdAt
  written,    \* ids handed out so far
  aged,       \* entries older than DLQ_TTL_DAYS
  submitter,  \* submitWithIdempotence for each match
  cycle,      \* each running callback of the retry worker, its entries a copy
  evicting,   \* ids the running eviction pass has still to remove
  breaker,    \* the circuit breaker the worker consults
  cooled,     \* whether its cooldown is over
  failures,   \* awaits of the retry worker that rejected
  crashes,
  called,     \* history: handler calls made for each entry
  evicted     \* history: matches an eviction dropped

store == <<queue, written, aged>>
process == <<submitter, cycle, evicting, breaker, cooled>>
vars == <<onChain, store, process, failures, crashes, called, evicted>>

Ids == 1 .. MaxEntries
Counts == 0 .. MaxAttempts
More(n) == IF n < MaxAttempts THEN n + 1 ELSE n

Idle == [pc |-> "idle", todo |-> << >>]
NotStarted == [pc |-> "idle", attempt |-> 0]

Init ==
  /\ onChain = {}
  /\ queue = << >> /\ written = 0 /\ aged = {}
  /\ submitter = [m \in Matches |-> NotStarted]
  /\ cycle = [c \in Cycles |-> Idle]
  /\ evicting = {}
  /\ breaker = Closed /\ cooled = TRUE
  /\ failures = 0 /\ crashes = 0
  /\ called = [id \in Ids |-> 0]
  /\ evicted = {}

-----------------------------------------------------------------------------
(* The store.                                                              *)

Expired == DOMAIN queue \cap aged
Without(q, id) == [i \in DOMAIN q \ {id} |-> q[i]]

\* writeToDlq: attempts start at 0.
NewEntry(m) == [match |-> m, attempts |-> 0]
\* add
Add(m) ==
  /\ written < MaxEntries
  /\ written' = written + 1
  /\ queue' = [i \in DOMAIN queue \cup {written + 1} |->
                 IF i \in DOMAIN queue THEN queue[i] ELSE NewEntry(m)]
  /\ UNCHANGED aged

RemoveEntry(id) ==
  /\ queue' = Without(queue, id)
  /\ UNCHANGED <<written, aged>>

\* update: UPDATE ... WHERE id = ?, which does nothing to an entry that is gone.
Update(id, attempts) ==
  /\ queue' = [i \in DOMAIN queue |->
                 IF i = id THEN [queue[i] EXCEPT !.attempts = attempts] ELSE queue[i]]
  /\ UNCHANGED <<written, aged>>

\* getAll deletes the entries past expireAt, 30 days (DLQ_TTL_DAYS is at most
\* that), and lists the others, ORDER BY createdAt ASC: the caller takes the
\* oldest of its copy first.
Overdue == SUBSET Expired
Oldest(entries) == Min(DOMAIN entries)
Sweep(gone) ==
  /\ queue' = [i \in DOMAIN queue \ gone |-> queue[i]]
  /\ evicted' = evicted \cup {queue[i].match : i \in gone}
  /\ UNCHANGED <<written, aged>>

-----------------------------------------------------------------------------
(* submitWithIdempotence, submitWithRetry.                                 *)

Submitting(m, pc) == submitter' = [submitter EXCEPT ![m].pc = pc]
OnlySubmitter ==
  UNCHANGED <<cycle, evicting, breaker, cooled, failures, crashes, called, evicted>>

\* existenceChecker answers, or throws and is ignored.
Check(m) ==
  /\ submitter[m].pc = "idle"
  /\ \/ m \in onChain /\ Submitting(m, "settled")
     \/ Submitting(m, "handler")
  /\ UNCHANGED <<onChain, store>> /\ OnlySubmitter

SubmitResolves(m) ==
  /\ submitter[m].pc = "handler" /\ m \in onChain
  /\ Submitting(m, "settled")
  /\ UNCHANGED <<onChain, store>> /\ OnlySubmitter

\* A failure is retried after a sleep until the retries are exhausted.
Exhausted_GivesUp(n) == IF n < MaxRetries THEN "handler" ELSE "settled"
Exhausted(n) == IF n < MaxRetries THEN "handler" ELSE "dlq"
SubmitRejects(m) ==
  /\ submitter[m].pc = "handler"
  /\ submitter' = [submitter EXCEPT ![m] =
                     [pc |-> Exhausted(@.attempt), attempt |-> @.attempt + 1]]
  /\ UNCHANGED <<onChain, store>> /\ OnlySubmitter

\* writeToDlq; when the store rejects, so does submitWithRetry.
WriteToDlq(m) ==
  /\ submitter[m].pc = "dlq"
  /\ \/ Add(m) /\ Submitting(m, "queued")
     \/ Submitting(m, "rejected") /\ UNCHANGED store
  /\ UNCHANGED onChain /\ OnlySubmitter

\* onMaxAttemptsExceeded dead-letters a polling job, which is no submission.
DeadLetterJob ==
  /\ Add(None)
  /\ UNCHANGED <<onChain, process, failures, crashes, called, evicted>>

-----------------------------------------------------------------------------
(* The retry worker.                                                       *)

Handled(c) == Oldest(cycle[c].todo)
Entry(c) == cycle[c].todo[Handled(c)]
Goto(c, pc) == cycle' = [cycle EXCEPT ![c].pc = pc]
Ends(c) == cycle' = [cycle EXCEPT ![c] = Idle]
\* Record the attempt before calling the handler.
Attempts(todo) == [todo EXCEPT ![Oldest(todo)].attempts = More(@)]
Attempt(c, todo) ==
  cycle' = [cycle EXCEPT ![c] = [pc |-> "update", todo |-> Attempts(todo)]]
OnlyCycle == UNCHANGED <<submitter, evicting, crashes, evicted>>
Failure == failures < MaxFailures /\ failures' = failures + 1

\* The interval fires and listDlqEntries reads the store; no entries, no cycle.
List(c) ==
  /\ cycle[c].pc = "idle"
  /\ \E gone \in Overdue :
       /\ Sweep(gone)
       /\ cycle' = [cycle EXCEPT ![c] = IF DOMAIN queue' = {} THEN Idle
                                        ELSE [pc |-> "listed", todo |-> queue']]
  /\ UNCHANGED <<onChain, submitter, evicting, breaker, cooled, called, failures, crashes>>

\* The list arrives and the circuit breaker is asked.
Start(c) ==
  /\ cycle[c].pc = "listed"
  /\ breaker' = AfterAllow(breaker, cooled)
  /\ IF Allowed(breaker, cooled) THEN Attempt(c, cycle[c].todo) ELSE Ends(c)
  /\ UNCHANGED <<onChain, store, cooled, called, failures>> /\ OnlyCycle

\* The attempt is recorded and the handler called.
CallHandler(c) ==
  /\ cycle[c].pc = "update"
  /\ Update(Handled(c), Entry(c).attempts)
  /\ called' = [called EXCEPT ![Handled(c)] = More(@)]
  /\ Goto(c, "handler")
  /\ UNCHANGED <<onChain, breaker, cooled, failures>> /\ OnlyCycle

HandlerResolves(c) ==
  /\ cycle[c].pc = "handler" /\ Entry(c).match \in onChain
  /\ Goto(c, "remove")
  /\ UNCHANGED <<onChain, store, breaker, cooled, called, failures>> /\ OnlyCycle

\* Handler errors that do not name the RPC or the network: every error over
\* a payload that is no submission, and now and then one over a submission.
MayReject(c) == IF Entry(c).match = None THEN UNCHANGED failures ELSE Failure
HandlerRejects_Swallowed(c) ==
  /\ cycle[c].pc = "handler"
  /\ MayReject(c)
  /\ Goto(c, "remove")
  /\ UNCHANGED <<onChain, store, breaker, cooled, called>> /\ OnlyCycle
HandlerRejects(c) ==
  /\ cycle[c].pc = "handler"
  /\ MayReject(c)
  /\ Goto(c, "next")
  /\ UNCHANGED <<onChain, store, breaker, cooled, called>> /\ OnlyCycle

\* An RPC error counts; the cycle stops if it opened the circuit.
RpcFails(c) ==
  /\ cycle[c].pc = "handler" /\ Entry(c).match # None
  /\ Failure
  /\ breaker' = AfterFailure(breaker, 0)
  /\ cooled' = (cooled /\ ~ Opens(breaker))
  /\ IF Opens(breaker) THEN Ends(c) ELSE Goto(c, "next")
  /\ UNCHANGED <<onChain, store, called>> /\ OnlyCycle

\* removeDlqEntry, then recordSuccess; a rejected remove or count lands in
\* the catch of the handler and is no RPC error.
Resolve(c) ==
  /\ cycle[c].pc = "remove"
  /\ RemoveEntry(Handled(c)) /\ breaker' = AfterSuccess(breaker)
  /\ Goto(c, "next")
  /\ UNCHANGED <<onChain, cooled, failures, called>> /\ OnlyCycle
ResolveFails(c) ==
  /\ cycle[c].pc = "remove"
  /\ Failure
  /\ RemoveEntry(Handled(c)) \/ UNCHANGED store
  /\ Goto(c, "next")
  /\ UNCHANGED <<onChain, breaker, cooled, called>> /\ OnlyCycle

\* emitDlqDepth, then the next entry.
NextEntry(c) ==
  /\ cycle[c].pc = "next"
  /\ LET rest == Without(cycle[c].todo, Handled(c)) IN
       IF DOMAIN rest = {} THEN Ends(c) ELSE Attempt(c, rest)
  /\ UNCHANGED <<onChain, store, breaker, cooled, called, failures>> /\ OnlyCycle

\* An update or a count rejects: the outer catch ends the cycle.
CycleFails(c) ==
  /\ cycle[c].pc \in {"update", "next"}
  /\ Failure
  /\ Ends(c)
  /\ UNCHANGED <<onChain, store, breaker, cooled, called>> /\ OnlyCycle

-----------------------------------------------------------------------------
(* Eviction, the chain, the clock and crashes.                             *)

\* evictExpiredDlqEntries lists the entries older than the cutoff ...
ListExpired ==
  /\ evicting = {} /\ Expired # {}
  /\ \E gone \in Overdue : Sweep(gone) /\ evicting' = Expired \ gone
  /\ UNCHANGED <<onChain, submitter, cycle, breaker, cooled, failures, crashes, called>>

\* ... and removes them one by one.
Evict(id) ==
  /\ evicting' = evicting \ {id}
  /\ RemoveEntry(id)
  /\ evicted' = evicted \cup {queue[i].match : i \in DOMAIN queue \cap {id}}
  /\ UNCHANGED <<onChain, submitter, cycle, breaker, cooled, failures, crashes, called>>

EvictionFails ==
  /\ evicting # {} /\ evicting' = {}
  /\ UNCHANGED <<onChain, store, submitter, cycle, breaker, cooled, failures, crashes, called, evicted>>

Age(id) ==
  /\ aged' = aged \cup {id}
  /\ UNCHANGED <<onChain, queue, written, process, failures, crashes, called, evicted>>

\* A submission some handler is waiting for reaches the contract.
Apply(m) ==
  /\ m \notin onChain
  /\ \/ submitter[m].pc = "handler"
     \/ \E c \in Cycles : cycle[c].pc = "handler" /\ Entry(c).match = m
  /\ onChain' = onChain \cup {m}
  /\ UNCHANGED <<store, process, failures, crashes, called, evicted>>

CoolDown ==
  /\ ~ cooled /\ cooled' = TRUE
  /\ UNCHANGED <<onChain, store, submitter, cycle, evicting, breaker, failures, crashes, called, evicted>>

\* The process dies; a job of the polling worker's that was being submitted
\* is not submitted again.  The breaker comes back as it was, or closed.
Crash ==
  /\ crashes < MaxCrashes /\ crashes' = crashes + 1
  /\ submitter' = [m \in Matches |->
                     IF submitter[m].pc \in {"handler", "dlq"}
                     THEN [submitter[m] EXCEPT !.pc = "crashed"] ELSE submitter[m]]
  /\ cycle' = [c \in Cycles |-> Idle]
  /\ evicting' = {}
  /\ breaker' \in {breaker, Closed}
  /\ UNCHANGED <<onChain, store, cooled, failures, called, evicted>>

CycleStep(c) ==
  \/ List(c) \/ Start(c) \/ CallHandler(c) \/ HandlerResolves(c) \/ HandlerRejects(c)
  \/ RpcFails(c) \/ Resolve(c) \/ ResolveFails(c) \/ NextEntry(c) \/ CycleFails(c)

Next ==
  \/ \E m \in Matches :
       Check(m) \/ SubmitResolves(m) \/ SubmitRejects(m) \/ WriteToDlq(m) \/ Apply(m)
  \/ DeadLetterJob
  \/ \E c \in Cycles : CycleStep(c)
  \/ ListExpired \/ EvictionFails
  \/ \E id \in evicting : Evict(id)
  \/ \E id \in (DOMAIN queue \cap MayAge) \ aged : Age(id)
  \/ CoolDown \/ Crash

Spec == Init /\ [][Next]_vars

\* The interval keeps firing, the cooldown ends, no await hangs, and a
\* submission some handler goes on waiting for reaches the contract; finitely
\* many awaits reject for an entry the handler can settle.
Fairness ==
  /\ WF_vars(CoolDown)
  /\ \A m \in Matches : WF_vars(Apply(m))
  /\ \A c \in Cycles : WF_vars(CycleStep(c))
FairSpec == Spec /\ Fairness

-----------------------------------------------------------------------------
Pending(m) == \E id \in DOMAIN queue : queue[id].match = m

\* An entry leaves the queue only when its result is on the chain or it has
\* outlived the TTL (removeDlqEntry, evictExpiredDlqEntries), whatever
\* handlers, store calls and overlapping cycles do.
OnlySettledLeaves ==
  [][\A id \in DOMAIN queue \ DOMAIN queue' : queue[id].match \in onChain \/ id \in aged]_vars

\* A submission submitWithIdempotence answered for is on the chain, queued,
\* or was evicted; it is never silently dropped.
NothingDropped ==
  \A m \in Matches :
    /\ submitter[m].pc = "settled" => m \in onChain
    /\ submitter[m].pc = "queued" => m \in onChain \/ m \in evicted \/ Pending(m)

\* "Record the attempt before calling the handler" (queue.ts): the attempts
\* of a queued entry count every handler call made for it, crashes included.
AttemptsCounted == \A id \in DOMAIN queue : queue[id].attempts >= called[id]

\* A queued submission that can succeed is settled or outlives the TTL
\* (startRetryWorker: "Automatic recovery testing after cooldown expires").
QueuedGetSettled ==
  \A m \in Followed : Pending(m) ~> (m \in onChain \/ m \in evicted)
=============================================================================
