------------------------------ MODULE RateLimit ------------------------------
(***************************************************************************)
(* The token bucket of one client, in the memory of a process              *)
(* (apps/backend/src/middleware/rate-limit.ts) or in a SQLite file that    *)
(* instances share (store/sqlite-rate-limit-store.ts).  Clients do not     *)
(* meet: every call touches the bucket of its client only.  Tokens are     *)
(* counted in shares of 1 / RefillInterval, so the continuous refill of    *)
(* the SQLite store is exact.                                              *)
(***************************************************************************)
EXTENDS Integers, FiniteSets, FiniteSetsExt

CONSTANTS
  Capacity, RefillInterval, RefillAmount,
  StaleThreshold,   \* cleanup's 30 minutes
  Instances,        \* requests that can be under way at once
  None,
  LastTime          \* bound: last clock value

\* A bucket that goes stale would be full by then: cleanup forgets nothing.
RateLimitAssumption ==
  /\ Capacity \in Nat \ {0} /\ RefillInterval \in Nat \ {0}
  /\ RefillAmount \in Nat \ {0} /\ StaleThreshold \in Nat /\ LastTime \in Nat
  /\ RefillAmount * (StaleThreshold \div RefillInterval) >= Capacity
  /\ None \notin [tokens : Nat, lastRefill : Nat]

VARIABLES
  backend,   \* resolveRateLimitStoreType: "memory" or "sqlite"
  time,      \* Date.now()
  bucket,    \* the client's bucket or row
  asking,    \* isAllowed of the SQLite store: the time it read, and its next statement
  granted    \* history: requests allowed by their time

rateVars == <<backend, time, bucket, asking, granted>>

Full == Capacity * RefillInterval
Token == RefillInterval
Nothing == [now |-> 0, next |-> "none"]
AtMostFull(tokens) == IF tokens > Full THEN Full ELSE tokens

Init ==
  /\ backend \in {"memory", "sqlite"}
  /\ time = 0
  /\ bucket = None
  /\ asking = [i \in Instances |-> Nothing]
  /\ granted = [t \in 0 .. LastTime |-> 0]

Grant(t) == granted' = [granted EXCEPT ![t] = @ + 1]
FirstBucket(t) == [tokens |-> Full - Token, lastRefill |-> t]

\* RateLimitStore.isAllowed: no await inside, whole intervals only.
Refills == (time - bucket.lastRefill) \div RefillInterval
Refilled == IF Refills > 0
            THEN [tokens |-> AtMostFull(bucket.tokens + Refills * RefillAmount * Token),
                  lastRefill |-> time]
            ELSE bucket
IsAllowedInMemory ==
  /\ backend = "memory"
  /\ \/ /\ bucket = None
        /\ bucket' = FirstBucket(time)
        /\ Grant(time)
     \/ /\ bucket # None /\ Refilled.tokens >= Token
        /\ bucket' = [Refilled EXCEPT !.tokens = @ - Token]
        /\ Grant(time)
     \/ /\ bucket # None /\ Refilled.tokens < Token
        /\ bucket' = Refilled
        /\ UNCHANGED granted
  /\ UNCHANGED <<backend, time, asking>>

Cleanup ==
  /\ backend = "memory"
  /\ bucket # None /\ time - bucket.lastRefill > StaleThreshold
  /\ bucket' = None
  /\ UNCHANGED <<backend, time, asking, granted>>

\* SqliteRateLimitStore.isAllowed reads the clock before its first statement.
IsAllowed(i) ==
  /\ backend = "sqlite" /\ asking[i] = Nothing
  /\ asking' = [asking EXCEPT ![i] = [now |-> time, next |-> "insert"]]
  /\ UNCHANGED <<backend, time, bucket, granted>>

Answered(i) == asking' = [asking EXCEPT ![i] = Nothing]

InsertNew(i) ==
  /\ asking[i].next = "insert"
  /\ \/ /\ bucket = None
        /\ bucket' = FirstBucket(asking[i].now)
        /\ Grant(asking[i].now)
        /\ Answered(i)
     \/ /\ bucket # None
        /\ asking' = [asking EXCEPT ![i].next = "consume"]
        /\ UNCHANGED <<bucket, granted>>
  /\ UNCHANGED <<backend, time>>

\* refillExpr; a request that read the clock before lastRefill takes away.
RefillExpr_Uncapped(now) ==
  bucket.tokens + (now - bucket.lastRefill) * RefillAmount
RefillExpr(now) ==
  AtMostFull(bucket.tokens + (now - bucket.lastRefill) * RefillAmount)

\* One UPDATE refills, checks and consumes.
Consume(i) ==
  /\ asking[i].next = "consume"
  /\ LET now == asking[i].now IN
       IF RefillExpr(now) >= Token
       THEN /\ bucket' = [tokens |-> RefillExpr(now) - Token, lastRefill |-> now]
            /\ Grant(now)
       ELSE UNCHANGED <<bucket, granted>>
  /\ Answered(i)
  /\ UNCHANGED <<backend, time>>

\* A statement fails for good, or its process dies.  The middleware then lets
\* the request pass without a token (it fails open); no grant of the store.
StoreFails(i) ==
  /\ asking[i] # Nothing
  /\ Answered(i)
  /\ UNCHANGED <<backend, time, bucket, granted>>

Tick ==
  /\ time < LastTime
  /\ time' = time + 1
  /\ UNCHANGED <<backend, bucket, asking, granted>>

Next ==
  \/ IsAllowedInMemory \/ Cleanup \/ Tick
  \/ \E i \in Instances : IsAllowed(i) \/ InsertNew(i) \/ Consume(i) \/ StoreFails(i)

Spec == Init /\ [][Next]_rateVars

-----------------------------------------------------------------------------
GrantedIn(s, t) == MapThenSumSet(LAMBDA u : granted[u], s .. t)
Earned(span) ==
  IF backend = "sqlite" THEN (span * RefillAmount) \div RefillInterval
  ELSE RefillAmount * ((span + RefillInterval - 1) \div RefillInterval)

\* Over any stretch of time the store grants at most a full bucket and what
\* the stretch refills, whole intervals rounded up in memory, to the tick in
\* SQLite: also when instances race with clock readings of different age
\* (isAllowed: "the limit holds globally"), and when a stale bucket is
\* forgotten (cleanup).
LimitHolds ==
  \A s, t \in 0 .. time : s <= t => GrantedIn(s, t) <= Capacity + Earned(t - s)
=============================================================================
