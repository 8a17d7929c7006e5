----------------------------- MODULE MatchStatus -----------------------------
(***************************************************************************)
(* The details page of a match (apps/frontend/src/components/              *)
(* MatchStatus.tsx, rendered by pages/Wager.tsx): a fetch at once and one  *)
(* at every tick of an interval that a final state ends.  Fetches are      *)
(* never cancelled, and what is shown outlives a change of the match.      *)
(***************************************************************************)
EXTENDS Integers

CONSTANTS
  None,
  Ids,         \* matches a page may show: ids on a network and contract
  MaxRequests  \* bound: fetches in flight

VARIABLES
  matchId,
  matchData,    \* what is shown: [id, state], or None
  fetchStatus,
  interval,     \* the polling interval of the current effect is armed
  requests,     \* fetches in flight: requests[i] is None or [id, got]
  escrow,       \* the contract's state of each match, None before it exists
  misled        \* history: an answer of another match, or one older than what
                \* is shown, came in for the current effect

pageVars == <<matchId, matchData, fetchStatus, interval>>
statusVars == <<pageVars, requests, escrow, misled>>

\* TERMINAL_STATES
Terminal_Pending == {"PendingResult", "Completed", "Cancelled"}
Terminal == {"Completed", "Cancelled"}
States == {"Pending", "Active", "PendingResult"} \cup {"Completed", "Cancelled"}

Slots == 1 .. MaxRequests
Free == {i \in Slots : requests[i] = None}
Unread == "unread"

Begin(id) == [i \in Slots |-> IF i = 1 THEN [id |-> id, got |-> Unread] ELSE None]

Init ==
  /\ matchId \in Ids
  /\ matchData = None /\ fetchStatus = "loading" /\ interval = TRUE
  /\ escrow \in [Ids -> {None, "Pending"}]
  /\ requests = Begin(matchId)
  /\ misled = FALSE

-----------------------------------------------------------------------------
Final(data) == data # None /\ data.state \in Terminal

\* fetchMatch as it starts
FetchMatch(id) ==
  \E i \in Free :
    /\ \A j \in Free : i <= j
    /\ requests' = [requests EXCEPT ![i] = [id |-> id, got |-> Unread]]

\* The effect on matchId and fetchMatch; Wager.tsx passes a new reader at every
\* render of its own, so the effect also runs for the same match.
Effect ==
  /\ matchId' \in Ids
  /\ FetchMatch(matchId')
  /\ fetchStatus' = "loading" /\ interval' = TRUE
  /\ misled' = (matchId' = matchId /\ misled)
  /\ UNCHANGED <<matchData, escrow>>

\* A tick of the interval reads matchDataRef, whatever match it is of.
Poll ==
  /\ interval
  /\ IF Final(matchData)
       THEN /\ interval' = FALSE
            /\ misled' = (misled \/ matchData.id # matchId)
            /\ UNCHANGED requests
       ELSE FetchMatch(matchId) /\ UNCHANGED <<interval, misled>>
  /\ UNCHANGED <<matchId, matchData, fetchStatus, escrow>>

Retry ==
  /\ fetchStatus = "error" /\ matchData = None
  /\ FetchMatch(matchId)
  /\ UNCHANGED <<pageVars, escrow, misled>>

ReaderReads(i) ==
  /\ requests[i] # None /\ requests[i].got = Unread
  /\ requests' = [requests EXCEPT ![i].got = escrow[requests[i].id]]
  /\ UNCHANGED <<pageVars, escrow, misled>>

\* A reader that finds no match answers null.
Answer(i) ==
  LET r == requests[i] IN
  /\ r # None /\ r.got # Unread
  /\ matchData' = IF r.got = None THEN None ELSE [id |-> r.id, state |-> r.got]
  /\ fetchStatus' = "idle"
  /\ misled' = \/ misled \/ r.id # matchId
               \/ Final(matchData) /\ matchData.id = matchId /\ r.got \notin Terminal
  /\ requests' = [requests EXCEPT ![i] = None]
  /\ UNCHANGED <<matchId, interval, escrow>>

\* A failure keeps what is shown; whether the reader had read does not matter.
Fail(i) ==
  /\ requests[i] # None /\ requests[i].got # Unread
  /\ fetchStatus' = "error"
  /\ requests' = [requests EXCEPT ![i] = None]
  /\ UNCHANGED <<matchId, matchData, interval, escrow, misled>>

-----------------------------------------------------------------------------
Successors(s) ==
  CASE s = None -> {"Pending"}
    [] s = "Pending" -> {"Active", "Cancelled"}
    [] s = "Active" -> {"PendingResult", "Cancelled"}
    [] s = "PendingResult" -> {"Completed"}
    [] OTHER -> {}

MatchMoves(id) ==
  /\ \E s \in Successors(escrow[id]) : escrow' = [escrow EXCEPT ![id] = s]
  /\ UNCHANGED <<pageVars, requests, misled>>

Next ==
  \/ Effect \/ Poll \/ Retry
  \/ \E i \in Slots : ReaderReads(i) \/ Answer(i) \/ Fail(i)
  \/ \E id \in Ids : MatchMoves(id)

Fairness ==
  /\ WF_statusVars(Poll)
  /\ \A i \in Slots : WF_statusVars(ReaderReads(i)) /\ SF_statusVars(Answer(i))

Spec == Init /\ [][Next]_statusVars /\ Fairness

-----------------------------------------------------------------------------
\* "Poll every 10 seconds; stop automatically when a terminal state is reached"
\* (MatchStatus.tsx): a page that stays on a match shows in the end that the
\* match is over, through failures, retries and renders that start over, unless
\* it was misled by an answer of another match or by one that a newer answer
\* had overtaken: then it may have stopped polling with something else shown.
Over(id) == escrow[id] \in Terminal
ShowsTheEnd ==
  \A id \in Ids :
    [](Over(id) => <>(\/ matchId # id \/ misled
                      \/ matchData = [id |-> id, state |-> escrow[id]]))
=============================================================================
