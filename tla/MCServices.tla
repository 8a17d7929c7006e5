------------------------------ MODULE MCServices ------------------------------
(***************************************************************************)
(* The backend's services that stand alone, for TLC.  They share no state  *)
(* in these models, so each behaviour is one of a single part: the state   *)
(* spaces add up instead of multiplying.                                   *)
(***************************************************************************)
EXTENDS Integers, TLC

CONSTANTS
  None,
  FailureThreshold, SuccessThreshold, MaxAttemptCount,
  CooldownMs, BackoffMultiplier, MaxCooldownMs, MaxTime, MaxSaves,
  Requests, Sponsored, MaxFee, DailyBudget, DailyPlayerLimit, LastDay,
  Alice, Bob,
  Capacity, RefillInterval, RefillAmount, StaleThreshold, Instances, RateTime,
  M1, M2, M3, WatchedMatches, WindowSize, MaxAge, MinDecided, MinDisagreements, RateNumerator,
  RateDenominator, MaxAttempts, OutcomeTime,
  AgingMatches, TrackLimits, MAX_CLOSED_IDS, CompletedWindow, MinSamples, AgeTime,
  Operators, Verifiers, MaxDecisions,
  HttpRequests, Polls, Workers, Stores,
  Creations, IntakeChecks, Lichess, ChessDotCom, LastId, MaxRestarts,
  LinkNames, Confirmations, LINK_NONCE_TTL_MS, MAX_PENDING_LINKS, MaxNonces, LinkTime,
  Torn, RetentionDays, MaxCommits, LastBackupDay

VARIABLES
  part,
  breaker, now, saves, row, newest, streak, good, tests, quietTill,
  today, request, writer, sponsorships, bumped,
  backend, time, bucket, asking, granted,
  clock, check, stopped, observations, reviewActive, degradedActive, latest,
  ticks, maxTracked, open, closed, completed, activeAlerts, life, forgotten,
  ledger, locked, pending,
  isShuttingDown, stage, running, closedStores, exitCode,
  store, match, nextId, creation, verification, evidence, restarts, born, unlinked,
  instant, pendingLinks, profile, confirmation, verifiedLinks, issued, shown, spent,
  evictedLinks,
  date, commits, main, wal, serving, backups, backupJob, restoreJob, staging, verified, expected

\* Transactions 1 and 2 compete for one sequence number of Alice's; 3 is Bob's
\* first, 4 more than the sponsor pays.
Source == <<Alice, Alice, Bob, Bob>>
Sequence == <<1, 1, 1, 2>>
Fee == <<1, 2, 1, 3>>
\* A wait in a stage is too long after a tick, the whole after two.
Threshold == [provider_wait |-> 0, submission_lag |-> 0, chain_delay |-> 0, total |-> 1]

Breaker == INSTANCE CircuitBreaker
Sponsor == INSTANCE TransactionSponsor WITH Transactions <- 1 .. 4
Rate == INSTANCE RateLimit WITH LastTime <- RateTime
\* Two results are submitted wrongly; player 1 has white in one of the games.
Outcomes(ended, submitted, player1) ==
  [ended |-> ended, submitted |-> submitted, player1 |-> player1]
Game ==
  M1 :> Outcomes("Player1Wins", "Player2Wins", "white") @@
  M2 :> Outcomes("Draw", "Player1Wins", "black") @@
  M3 :> Outcomes("Player1Wins", "Player1Wins", "black")

\* Names of four accounts: the two players, in either colour, and a stranger.
Pairs == {<<"alice", "bob">>, <<"bob", "alice">>, <<"carol", "alice">>}

Outcome == INSTANCE OutcomeMonitor WITH Matches <- WatchedMatches, LastTime <- OutcomeTime
Age == INSTANCE SettlementAge WITH Matches <- AgingMatches, LastTime <- AgeTime
Review == INSTANCE ReviewLedger
Down == INSTANCE Shutdown
\* Two games, the second of a pair of names that the first does not have.
IntakeOpponents == {<<Alice, Bob>>, <<Bob, Bob>>}
IntakeGames == {"g1", "g2"}
IntakePlatforms == {Lichess, ChessDotCom}
IntakePlayers == "g1" :> <<"alice", "bob">> @@ "g2" :> <<"carol", "alice">>
IntakeCreatable == {<<"g1", Lichess>>, <<"g2", ChessDotCom>>}
Intake == INSTANCE MatchIntake WITH backend <- store, Verifications <- IntakeChecks,
  Wallets <- Sponsored, Opponents <- IntakeOpponents, Games <- IntakeGames,
  Platforms <- IntakePlatforms, Players <- IntakePlayers, Creatable <- IntakeCreatable
Links == INSTANCE IdentityLinks WITH Wallets <- Sponsored, Names <- LinkNames
Backup == INSTANCE Backups WITH LastDay <- LastBackupDay

ASSUME ServicesAssumption ==
  /\ Breaker!BreakerAssumption /\ Breaker!CooldownAssumption
  /\ Sponsor!SponsorAssumption /\ Rate!RateLimitAssumption
  /\ Outcome!OutcomeAssumption /\ Age!AgeAssumption
  /\ Review!ReviewAssumption /\ Down!ShutdownAssumption
  /\ Intake!IntakeAssumption /\ Links!LinkAssumption
  /\ Backup!BackupAssumption

\* The price of a match against its definition: the greatest hundredth between 1
\* and 2 that the average's share of the way from 800 to 2800 reaches, less one
\* where it is reached exactly and one for the second truncation; an unrated
\* player gives the base price; and of several ratings the first of the preference
\* counts (resolveMultiplier).
Pricing == INSTANCE EloPricing
Ratings == {600, 799, 800, 1100, 1500, 2037, 2800, 3200}
Reached(total) ==
  LET Reaches(m) == m = 100 \/ (total - 1600) * 100 >= (m - 100) * 4000 IN
  CHOOSE m \in 100 .. 200 : Reaches(m) /\ \A k \in m + 1 .. 200 : ~ Reaches(k)
ASSUME PricesAreRight ==
  /\ \A e, f \in Ratings : \A m \in Pricing!resolveMultiplier(e, f) :
       /\ m >= 100 /\ m \in Reached(e + f) - 2 .. Reached(e + f)
       /\ m = Reached(e + f) - 2 => (e + f) % 40 = 0
  /\ \A e \in Ratings \cup {None} : Pricing!resolveMultiplier(e, None) = {100}
  /\ Pricing!fetchLichessElo(TRUE, [blitz |-> None, bullet |-> 900, rapid |-> 1500,
                                    classical |-> None]) = 900
  /\ \A stake \in 1 .. 300, m \in {100, 115, 150, 200} :
       \A s \in Pricing!applyEloMultiplier(stake, m) : s \in stake .. 2 * stake

breakerVars == <<breaker, now, saves, row, newest, streak, good, tests, quietTill>>
sponsorVars == <<today, request, writer, sponsorships, bumped>>
rateVars == <<backend, time, bucket, asking, granted>>
outcomeVars ==
  <<clock, check, stopped, observations, reviewActive, degradedActive, latest>>
ageVars == <<ticks, maxTracked, open, closed, completed, activeAlerts, life, forgotten>>
reviewVars == <<ledger, locked, pending>>
shutdownVars == <<isShuttingDown, stage, running, closedStores, exitCode>>
intakeVars ==
  <<store, match, nextId, creation, verification, evidence, restarts, born, unlinked>>
linksVars == <<instant, pendingLinks, profile, confirmation, verifiedLinks,
               issued, shown, spent, evictedLinks>>
backupVars == <<date, commits, main, wal, serving, backups, backupJob, restoreJob, staging,
                verified, expected>>
vars == <<part, breakerVars, sponsorVars, rateVars, outcomeVars, ageVars,
          reviewVars, shutdownVars, intakeVars, linksVars, backupVars>>

Init ==
  /\ part \in {"breaker", "sponsor", "rate", "outcome", "age", "review", "down", "intake", "links",
              "backups"}
  /\ Breaker!Init /\ Sponsor!Init /\ Rate!Init /\ Outcome!Init /\ Age!Init
  /\ Review!Init /\ Down!Init /\ Intake!Init /\ Links!Init /\ Backup!Init
  /\ part # "rate" => backend = "memory"
  /\ part # "age" => \A l \in TrackLimits : maxTracked <= l
  /\ part # "intake" => store = "memory"

Next ==
  /\ UNCHANGED part
  /\ \/ part = "breaker" /\ Breaker!Next
        /\ UNCHANGED <<sponsorVars, rateVars, outcomeVars, ageVars, reviewVars,
                       shutdownVars, intakeVars, linksVars, backupVars>>
     \/ part = "sponsor" /\ Sponsor!Next
        /\ UNCHANGED <<breakerVars, rateVars, outcomeVars, ageVars, reviewVars,
                       shutdownVars, intakeVars, linksVars, backupVars>>
     \/ part = "rate" /\ Rate!Next
        /\ UNCHANGED <<breakerVars, sponsorVars, outcomeVars, ageVars, reviewVars,
                       shutdownVars, intakeVars, linksVars, backupVars>>
     \/ part = "outcome" /\ Outcome!Next
        /\ UNCHANGED <<breakerVars, sponsorVars, rateVars, ageVars, reviewVars,
                       shutdownVars, intakeVars, linksVars, backupVars>>
     \/ part = "age" /\ Age!Next
        /\ UNCHANGED <<breakerVars, sponsorVars, rateVars, outcomeVars, reviewVars,
                       shutdownVars, intakeVars, linksVars, backupVars>>
     \/ part = "review" /\ Review!Next
        /\ UNCHANGED <<breakerVars, sponsorVars, rateVars, outcomeVars, ageVars,
                       shutdownVars, intakeVars, linksVars, backupVars>>
     \/ part = "down" /\ Down!Next
        /\ UNCHANGED <<breakerVars, sponsorVars, rateVars, outcomeVars, ageVars,
                       reviewVars, intakeVars, linksVars, backupVars>>
     \/ part = "intake" /\ Intake!Next
        /\ UNCHANGED <<breakerVars, sponsorVars, rateVars, outcomeVars, ageVars,
                       reviewVars, shutdownVars, linksVars, backupVars>>
     \/ part = "links" /\ Links!Next
        /\ UNCHANGED <<breakerVars, sponsorVars, rateVars, outcomeVars, ageVars,
                       reviewVars, shutdownVars, intakeVars, backupVars>>
     \/ part = "backups" /\ Backup!Next
        /\ UNCHANGED <<breakerVars, sponsorVars, rateVars, outcomeVars, ageVars,
                       reviewVars, shutdownVars, intakeVars, linksVars>>

Spec == Init /\ [][Next]_vars

\* The circuit opens and closes for a reason, and an open one keeps its
\* cooldown, over a restart too.
CircuitMovesForCause == Breaker!TransitionsForCause /\ Breaker!CooldownKept
\* Fee bumps stay within the sponsor's policy.
SpendWithinPolicy == Sponsor!SpendWithinPolicy
\* No stretch of time grants more than a bucket and its refill.
LimitHolds == Rate!LimitHolds
\* The review signal rises for enough different matches that disagree.
SignalsAreWarranted == Outcome!SignalsAreWarranted
\* The settlement-age alerts say which stage keeps matches waiting.
AlertsAreTrue == Age!AlertsAreTrue
\* One retry answers one review.
OneRetryPerReview == Review!OneRetryPerReview
\* Stores close after requests and polls, and all of them on a clean exit.
StoresCloseLast == Down!StoresCloseLast
\* One match per game, answered with what stays on record.
RecordsHold == Intake!RecordsHold
\* Results are verified against the names the match was created with.
VerdictsHold == Intake!VerdictsHold
\* A wallet is linked to a name by a proof that was asked of it.
LinksAreProven == Links!LinksAreProven
\* Restores and backups, by commands that die anywhere, lose nothing they
\* said is safe.
BackupsHold == Backup!BackupsHold
=============================================================================
