--------------------------- MODULE OutcomeMonitor ---------------------------
(***************************************************************************)
(* The review signal over settled matches                                  *)
(* (apps/backend/src/services/outcome-disagreement-service.ts and          *)
(* outcome-disagreement-monitor.ts): delayed checks that read the chain    *)
(* and then the platform, and a window of their observations.  Counts per  *)
(* platform only appear in the log and are left out.                       *)
(***************************************************************************)
EXTENDS Integers, Sequences, FiniteSets, Filters

CONSTANTS
  Matches,
  Game,       \* each match's game: how it ended and what was submitted of it
  WindowSize, MaxAge, MinDecided, MinDisagreements,
  RateNumerator, RateDenominator,   \* minDisagreementRate
  MaxAttempts,
  LastTime                          \* bound: last clock value

Results == {"Player1Wins", "Player2Wins", "Draw"}

\* validateConfig.  ended and submitted are as player 1 sees them.
OutcomeAssumption ==
  /\ IsFiniteSet(Matches)
  /\ Game \in [Matches -> [ended : Results, submitted : Results, player1 : {"white", "black"}]]
  /\ WindowSize \in Nat \ {0} /\ MinDecided \in 1 .. WindowSize
  /\ MinDisagreements \in 1 .. WindowSize
  /\ MaxAge \in Nat \ {0} /\ MaxAttempts \in Nat \ {0} /\ LastTime \in Nat
  /\ RateDenominator \in Nat \ {0} /\ RateNumerator \in 1 .. RateDenominator

VARIABLES
  clock,
  check,            \* the check scheduled for a match and the await it is at
  stopped,
  observations,     \* the window, in the order of their recording
  reviewActive, degradedActive,
  latest            \* history: the last observation of each match

outcomeVars ==
  <<clock, check, stopped, observations, reviewActive, degradedActive, latest>>

NoCheck == [at |-> "none", attempt |-> 0, observedAt |-> 0]

Init ==
  /\ clock = 0
  /\ check = [m \in Matches |-> NoCheck]
  /\ stopped = FALSE
  /\ observations = << >>
  /\ reviewActive = FALSE /\ degradedActive = FALSE
  /\ latest = [m \in Matches |-> [kind |-> "none", at |-> 0]]

Fresh(o) == o.at > clock - MaxAge
Prune(window) ==
  LET young == Filtered(window, {i \in DOMAIN window : Fresh(window[i])}) IN
    SubSeq(young, IF Len(young) > WindowSize THEN Len(young) - WindowSize + 1 ELSE 1,
           Len(young))

Count(window, kinds) == Cardinality({i \in DOMAIN window : window[i].kind \in kinds})
ReviewRequired(window) ==
  LET decided == Count(window, {"agree", "disagree"})
      disagreements == Count(window, {"disagree"}) IN
    /\ decided >= MinDecided /\ disagreements >= MinDisagreements
    /\ disagreements * RateDenominator >= RateNumerator * decided
EvidenceDegraded(window) ==
  /\ Len(window) >= MinDecided
  /\ 2 * Count(window, {"unverifiable"}) >= Len(window)

\* A re-observed match replaces its earlier entry.
Others(window, m) == Filtered(window, {i \in DOMAIN window : window[i].match # m})
Recorded(window, o) == Prune(Append(Others(Prune(window), o.match), o))

flip(result) ==
  CASE result = "Player1Wins" -> "Player2Wins"
    [] result = "Player2Wins" -> "Player1Wins"
    [] result = "Draw" -> "Draw"

\* What the platform says of a game, in its own terms: white is player 1.
PlatformResult(m) ==
  IF Game[m].player1 = "white" THEN Game[m].ended ELSE flip(Game[m].ended)

toPlayer1Perspective_NoFlip(m, result) == result
toPlayer1Perspective(m, result) ==
  IF Game[m].player1 = "white" THEN result ELSE flip(result)

handleTransitions(window) ==
  /\ reviewActive' = ReviewRequired(window)
  /\ degradedActive' = EvidenceDegraded(window)

\* record; then execute retries or is done.
Finish(m, kind, retryable) ==
  LET o == [match |-> m, kind |-> kind, at |-> check[m].observedAt] IN
    /\ observations' = Recorded(observations, o)
    /\ handleTransitions(observations')
    /\ latest' = [latest EXCEPT ![m] = [kind |-> kind, at |-> o.at]]
    /\ check' = [check EXCEPT ![m] =
         IF retryable /\ @.attempt < MaxAttempts /\ ~ stopped
         THEN [NoCheck EXCEPT !.at = "armed", !.attempt = check[m].attempt + 1]
         ELSE NoCheck]
    /\ UNCHANGED <<clock, stopped>>

ScheduleCheck(m) ==
  /\ ~ stopped /\ check[m].at = "none"
  /\ check' = [check EXCEPT ![m].at = "armed", ![m].attempt = 1]
  /\ UNCHANGED <<clock, stopped, observations, reviewActive, degradedActive, latest>>

\* The timer of arm fires: execute enters checkMatch, which notes the time.
Execute(m) ==
  /\ check[m].at = "armed"
  /\ check' = [check EXCEPT ![m].at = "has_result", ![m].observedAt = clock]
  /\ UNCHANGED <<clock, stopped, observations, reviewActive, degradedActive, latest>>

\* createChainResultReader: has_result first.  Nothing recorded, an error and a
\* time-out are all worth a retry.
ChainHasResult(m) ==
  /\ check[m].at = "has_result"
  /\ \/ /\ check' = [check EXCEPT ![m].at = "get_result"]
        /\ UNCHANGED <<clock, stopped, observations, reviewActive, degradedActive, latest>>
     \/ Finish(m, "unverifiable", TRUE)

\* get_result, which never changes once it is there; or an error.
ChainAnswers(m) ==
  /\ check[m].at = "get_result"
  /\ \/ /\ check' = [check EXCEPT ![m].at = "provider"]
        /\ UNCHANGED <<clock, stopped, observations, reviewActive, degradedActive, latest>>
     \/ Finish(m, "unverifiable", TRUE)

\* fetchProviderResult: the result as player 1 sees it, compared with the
\* chain's; or an error or a running game; or names that are not the
\* players', which no retry will change.
ProviderAnswers(m) ==
  /\ check[m].at = "provider"
  /\ \/ LET outcome == toPlayer1Perspective(m, PlatformResult(m)) IN
          Finish(m, IF outcome = Game[m].submitted THEN "agree" ELSE "disagree", FALSE)
     \/ \E retryable \in BOOLEAN : Finish(m, "unverifiable", retryable)

GetStatus ==
  /\ observations' = Prune(observations)
  /\ UNCHANGED <<clock, check, stopped, reviewActive, degradedActive, latest>>

\* stop cancels what is armed; checks in flight go on, and are recorded.
Stop ==
  /\ ~ stopped
  /\ stopped' = TRUE
  /\ check' = [m \in Matches |-> IF check[m].at = "armed" THEN NoCheck ELSE check[m]]
  /\ UNCHANGED <<clock, observations, reviewActive, degradedActive, latest>>

Tick ==
  /\ clock < LastTime
  /\ clock' = clock + 1
  /\ UNCHANGED <<check, stopped, observations, reviewActive, degradedActive, latest>>

Next ==
  \/ GetStatus \/ Stop \/ Tick
  \/ \E m \in Matches :
       ScheduleCheck(m) \/ Execute(m) \/ ChainHasResult(m) \/ ChainAnswers(m) \/ ProviderAnswers(m)

Spec == Init /\ [][Next]_outcomeVars

-----------------------------------------------------------------------------
Observed(kinds) == {m \in Matches : latest[m].kind \in kinds /\ Fresh(latest[m])}
WronglySubmitted == {m \in Matches : Game[m].submitted # Game[m].ended}

\* The review signal is raised for different matches whose submitted results
\* are wrong: when it rises, at least MinDisagreements of those were last seen
\* to disagree, and MinDecided matches decided, all within MaxAge.  One match
\* checked again, an outage, an answer that comes late, or player 1 having
\* played black do not raise it ("Without that step a correct result would
\* look like a disagreement").
SignalsAreWarranted ==
  [][~ reviewActive /\ reviewActive' =>
       /\ Cardinality(WronglySubmitted \cap Observed({"disagree"})') >= MinDisagreements
       /\ Cardinality(Observed({"agree", "disagree"})') >= MinDecided]_outcomeVars
=============================================================================
