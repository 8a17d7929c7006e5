------------------------------ MODULE Shutdown ------------------------------
(***************************************************************************)
(* The end of the backend process (apps/backend/src/shutdown.ts, wired in  *)
(* server.ts): requests, polls and the workers that are not drained run    *)
(* beside the signal handler.  server.ts passes neither an outbox          *)
(* dispatcher nor a close for the match store.                             *)
(***************************************************************************)
EXTENDS Integers

CONSTANTS
  HttpRequests, Polls,   \* work that is drained: connections, from being accepted
                         \* until they close, and polls
  Workers,               \* the retry worker and the eviction task, not drained
  Stores,                \* the queue store and the breaker's store
  None

ShutdownAssumption ==
  /\ HttpRequests \cap Polls = {} /\ (HttpRequests \cup Polls) \cap Workers = {}
  /\ None \notin Nat

VARIABLES
  isShuttingDown,
  stage,        \* of the handler: "off", "draining", "closing" or "ended"
  running,      \* requests, polls and workers with work in flight
  closedStores,
  exitCode      \* None while the process lives

shutdownVars == <<isShuttingDown, stage, running, closedStores, exitCode>>

Init ==
  /\ isShuttingDown = FALSE /\ stage = "off"
  /\ running = {} /\ closedStores = {}
  /\ exitCode = None

Alive == exitCode = None

\* A connection is accepted, a poll timer or an interval fires: until the
\* handler closes the server and stops them, in one go.
Starts(w) ==
  /\ Alive /\ ~ isShuttingDown
  /\ w \notin running
  /\ running' = running \cup {w}
  /\ UNCHANGED <<isShuttingDown, stage, closedStores, exitCode>>

Finishes(w) ==
  /\ Alive /\ w \in running
  /\ running' = running \ {w}
  /\ UNCHANGED <<isShuttingDown, stage, closedStores, exitCode>>

\* SIGTERM or SIGINT; the second one returns at once.
Signal ==
  /\ Alive /\ ~ isShuttingDown
  /\ isShuttingDown' = TRUE
  /\ stage' = "draining"
  /\ UNCHANGED <<running, closedStores, exitCode>>

\* The first Promise.all: the server closed and the polls drained.
Drained_ServerOnly == running \cap HttpRequests = {}
Drained == running \cap (HttpRequests \cup Polls) = {}
StartClosing ==
  /\ Alive /\ stage = "draining" /\ Drained
  /\ stage' = "closing"
  /\ UNCHANGED <<isShuttingDown, running, closedStores, exitCode>>

\* The second: the stores close side by side.
CloseStore(s) ==
  /\ Alive /\ stage = "closing" /\ s \notin closedStores
  /\ closedStores' = closedStores \cup {s}
  /\ UNCHANGED <<isShuttingDown, stage, running, exitCode>>

ExitClean ==
  /\ Alive /\ stage = "closing" /\ closedStores = Stores
  /\ stage' = "ended" /\ exitCode' = 0
  /\ UNCHANGED <<isShuttingDown, running, closedStores>>

\* An await of the handler rejects, or its watchdog fires.
ExitForced ==
  /\ Alive /\ stage \in {"draining", "closing"}
  /\ stage' = "ended" /\ exitCode' = 1
  /\ UNCHANGED <<isShuttingDown, running, closedStores>>

Next ==
  \/ Signal \/ StartClosing \/ ExitClean \/ ExitForced
  \/ \E w \in HttpRequests \cup Polls \cup Workers : Starts(w) \/ Finishes(w)
  \/ \E s \in Stores : CloseStore(s)

Spec == Init /\ [][Next]_shutdownVars

-----------------------------------------------------------------------------
\* Stores close "after, not concurrently with, anything that might still
\* write through them" as far as the handler waits for it, requests and
\* polls; and exit code 0 means that they all closed, whatever failed, hung or
\* signalled again meanwhile (shutdown.ts).
StoresCloseLast ==
  /\ closedStores # {} => running \cap (HttpRequests \cup Polls) = {}
  /\ exitCode = 0 => closedStores = Stores
=============================================================================
