----------------------------- MODULE GameResults -----------------------------
(***************************************************************************)
(* What the chess platforms answer and what the backend makes of it: the   *)
(* fetchers (apps/backend/src/fetchers/lichess.ts, chessdotcom.ts,         *)
(* result.ts), the eligibility rules (services/game-eligibility.ts), the   *)
(* validation of a game before a wager (services/validate-game-service.ts) *)
(* and the poller of a game under way (services/game-poller.ts, as         *)
(* server.ts builds it, without stores).                                   *)
(*                                                                         *)
(* A payload is reduced to what is decided on.  `named`: both players have *)
(* a name; `dated`: the time of the end is a valid time; `same`: the game  *)
(* is the one asked for.  Winners are "white", "black" or "none".          *)
(***************************************************************************)
EXTENDS Integers, Sequences

Wins == {"Player1Wins", "Player2Wins"}
MatchResult == Wins \cup {"Draw"}
\* A fetch returns a result, "null" for a game in progress, or throws.
Errors == {"not_found", "rate_limited", "ambiguous", "unavailable"}
FetchResults == MatchResult \cup {"null"} \cup Errors

MAX_RETRIES == 3

\* The first of a sequence that is not Skipped; the last if all are.
FirstNot(s, Skipped(_)) ==
  CHOOSE i \in DOMAIN s :
    /\ \A j \in 1 .. i - 1 : Skipped(s[j])
    /\ ~ Skipped(s[i]) \/ i = Len(s)

\* Player1 is white, Player2 black.
WinOf(colour) == IF colour = "white" THEN "Player1Wins" ELSE "Player2Wins"

normalizeResult(outcome, game) ==
  IF ~ game.named \/ (outcome # "null" /\ ~ game.dated) THEN "ambiguous" ELSE outcome

-----------------------------------------------------------------------------
(* fetchLichessResult.  An answer is [http, game].                         *)
TERMINAL_STATUSES ==
  {"mate", "resign", "stalemate", "timeout", "draw", "outoftime", "variantEnd"}
DrawStatuses == {"draw", "stalemate"}

LichessOutcome(game) ==
  LET over == game.status \in TERMINAL_STATUSES
      drawn == game.status \in DrawStatuses
      active == game.status \in {"started", "created"} IN
  IF over /\ drawn /\ game.winner = "none" THEN "Draw"
  ELSE IF over /\ ~ drawn /\ game.winner # "none" THEN WinOf(game.winner)
  ELSE IF active /\ game.winner = "none" THEN "null"
  ELSE "ambiguous"

LichessAnswer(answer) ==
  CASE answer.http = 429 -> "rate_limited"
    [] answer.http = 404 -> "not_found"
    [] answer.http = 200 ->
         IF answer.game.same THEN normalizeResult(LichessOutcome(answer.game), answer.game)
                             ELSE "ambiguous"
    [] OTHER -> "unavailable"

\* One request and three more, each after the wait the last 429 asked for;
\* answers[i] is what the i-th would be given.
Limited(answer) == answer.http = 429
FetchLichessResult(answers) ==
  LichessAnswer(answers[FirstNot(SubSeq(answers, 1, MAX_RETRIES + 1), Limited)])

-----------------------------------------------------------------------------
(* fetchChessDotComResult.  The archives of the months, latest first, each *)
(* [http, wellFormed, games], games being those with the id asked for.     *)
LOSS_RESULTS ==
  {"checkmated", "resigned", "timeout", "abandoned", "lose", "kingofthehill",
   "threecheck", "bughousepartnerlose"}
DRAW_RESULTS ==
  {"agreed", "stalemate", "repetition", "insufficient", "timevsinsufficient", "50move"}
IN_PROGRESS == {"in_progress", "timeout_started"}

mapResult(white, black) ==
  IF {white, black} \subseteq IN_PROGRESS THEN "null"
  ELSE IF white = "win" /\ black \in LOSS_RESULTS THEN "Player1Wins"
  ELSE IF black = "win" /\ white \in LOSS_RESULTS THEN "Player2Wins"
  ELSE IF {white, black} \subseteq DRAW_RESULTS THEN "Draw"
  ELSE "ambiguous"

NoGame(archive) ==
  \/ archive.http = 404
  \/ archive.http = 200 /\ archive.wellFormed /\ archive.games = << >>

ArchiveAnswer(archive) ==
  IF NoGame(archive) THEN "not_found"
  ELSE IF archive.http = 429 THEN "rate_limited"
  ELSE IF archive.http # 200 THEN "unavailable"
  ELSE IF ~ archive.wellFormed \/ Len(archive.games) > 1 THEN "ambiguous"
  ELSE LET game == archive.games[1] IN
         normalizeResult(mapResult(game.white, game.black), game)

FetchChessDotComResult(archives) ==
  ArchiveAnswer(archives[FirstNot(archives, NoGame)])

-----------------------------------------------------------------------------
(* The eligibility rules.  A field of the metadata may be "absent"; the    *)
(* clock is "timed" or "none".                                             *)
UNVERIFIABLE_END_STATUSES == {"aborted", "noStart", "unknownFinish"}
SUPPORTED_SPEEDS == {"bullet", "blitz", "rapid", "classical"}
NoMetadata == [variant |-> "absent", speed |-> "absent", clock |-> "absent", status |-> "absent"]

checkGameEligibility(meta) ==
  (IF meta.variant \in {"absent", "standard"} THEN {} ELSE {"UNSUPPORTED_VARIANT"})
  \cup (IF meta.speed \in {"absent"} \cup SUPPORTED_SPEEDS THEN {}
        ELSE {"UNSUPPORTED_TIME_CONTROL"})
  \cup (IF meta.clock = "none" THEN {"NO_CLOCK"} ELSE {})
  \cup (IF meta.status \in UNVERIFIABLE_END_STATUSES THEN {"UNVERIFIABLE_COMPLETION"} ELSE {})

\* No fetcher attaches metadata, and its status is that of normalizeResult.
FetchedMetadata(fetched) ==
  [NoMetadata EXCEPT !.status = IF fetched = "null" THEN "in_progress" ELSE "finished"]

errorToHttpStatus(error) ==
  CASE error = "not_found" -> 404
    [] error = "rate_limited" -> 429
    [] OTHER -> 500

\* POST /validate-game: the HTTP status; only Chess.com needs a username.
ValidateGame(platform, username, fetched) ==
  IF platform = "chesscom" /\ ~ username THEN 400
  ELSE IF fetched \in Errors THEN errorToHttpStatus(fetched)
  ELSE IF checkGameEligibility(FetchedMetadata(fetched)) # {} THEN 422
  ELSE 200

-----------------------------------------------------------------------------
(* ChessPlatformPoller.poll: the status it gives the polling worker.       *)
Poll(platform, username, fetched) ==
  IF platform = "chesscom" /\ ~ username THEN "failed"
  ELSE IF fetched \in {"null", "rate_limited"} THEN "in_progress"
  ELSE IF fetched \in MatchResult THEN "completed"
  ELSE "failed"
=============================================================================
