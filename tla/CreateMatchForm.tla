--------------------------- MODULE CreateMatchForm ---------------------------
(***************************************************************************)
(* The form that creates a match (apps/frontend/src/components/            *)
(* CreateMatch.tsx) with the review before signing, the parsers of typed   *)
(* amounts, the responsible-play panel it renders, and the service that    *)
(* validates its games.                                                    *)
(*                                                                         *)
(* A typed amount is what the two parsers look at: the digits before the   *)
(* point as a number (None if there are none), whether there is a point,   *)
(* and the digits after it.  Opponent addresses are all valid: that field  *)
(* is checked like the amount and nothing depends on it.                   *)
(***************************************************************************)
EXTENDS Integers, SequencesExt

CONSTANTS
  None, Addresses, Periods, Delay, Limits, LastTime,  \* of ResponsiblePlay
  Amounts,         \* typed amounts [whole, point, frac]
  MAX_DECIMAL_PLACES,
  MAX_STAKE,       \* MAX_STAKE_STROOPS
  Games,           \* game ids
  KnownGameIds,    \* prop: ids that have a match already
  Fetched,         \* what fetching a game from each platform may come to
  Networks,        \* networks of the wallet
  MaxCalls,        \* bound: calls in flight
  ReviewIsBuilt    \* whether buildCreateMatchReview exists: CreateMatch imports
                   \* it and its tests expect its summary, but this commit does
                   \* not define it, and calling it throws

VARIABLES
  settings, now, confirming, asked,  \* of ResponsiblePlay
  form,        \* formData: [stake, gameId, platform, username]
  token,
  errors,      \* the keys of `errors` that hold a message
  status,
  validating,  \* submissions the game validation has not answered yet
  review,      \* review and reviewPayload, or None
  reviewError,
  submitting,
  signing,     \* calls of onCreateMatch in flight
  matchId,
  account,     \* props: the wallet's address, or None, and its network
  vouched      \* history: games a platform had, in progress or with a result

Play == INSTANCE ResponsiblePlay
Service == INSTANCE GameResults
playVars == <<settings, now, confirming, asked>>
screenVars == <<form, token, errors, status, review, reviewError, submitting, matchId>>
callVars == <<validating, signing>>
createVars == <<playVars, screenVars, callVars, account, vouched>>

EmptyForm == [stake |-> None, gameId |-> None, platform |-> "lichess", username |-> FALSE]

Init ==
  /\ Play!Init
  /\ form = EmptyForm /\ token = "xlm" /\ errors = {} /\ status = "idle"
  /\ validating = {} /\ review = None /\ reviewError = FALSE
  /\ submitting = FALSE /\ signing = {} /\ matchId = None
  /\ account \in [address : Addresses \cup {None}, network : Networks]
  /\ vouched = {}

-----------------------------------------------------------------------------
(* Typed amounts.                                                          *)
Unit == 10 ^ MAX_DECIMAL_PLACES
ValueOf(digits) == FoldLeft(LAMBDA n, d : 10 * n + d, 0, digits)
\* Both parsers pad the digits after the point to the full precision.
Stroops(t) ==
  (IF t.whole = None THEN 0 ELSE t.whole) * Unit
    + ValueOf(t.frac) * 10 ^ (MAX_DECIMAL_PLACES - Len(t.frac))

\* validateAndConvertXlmToStroops takes ".5" and "1." too.
Accepted(t) ==
  /\ t # None
  /\ t.whole # None \/ t.frac # <<>>
  /\ Len(t.frac) <= MAX_DECIMAL_PLACES

\* stakeFromXlmInput wants a digit on both sides of a point; else null.
StakeFromXlmInput(t) ==
  IF /\ Accepted(t) /\ t.whole # None
     /\ t.point => t.frac # <<>>
     /\ Stroops(t) > 0
    THEN Stroops(t) ELSE None

\* An amount with all decimal places gets a warning, which counts as an error.
StakeErrors(t) ==
  IF ~ Accepted(t) THEN {"stakeAmount"}
  ELSE (IF Stroops(t) \in 1 .. MAX_STAKE THEN {} ELSE {"stakeAmount"})
    \cup (IF Len(t.frac) = MAX_DECIMAL_PLACES THEN {"stakeAmountWarning"} ELSE {})

ValidateForm(f) ==
  StakeErrors(f.stake)
    \cup (IF f.gameId \in KnownGameIds \cup {None} THEN {"gameId"} ELSE {})
    \cup (IF f.platform = "chesscom" /\ ~ f.username THEN {"platformUsername"} ELSE {})

-----------------------------------------------------------------------------
(* Typing.  The form is shown until a review opens or a match exists; its  *)
(* fields are disabled while a game is validated, the token is not.        *)
FormShown == matchId = None /\ review = None
FieldsEnabled == FormShown /\ status # "validating"

ValidateAndUpdate(key, next) ==
  /\ FieldsEnabled
  /\ form' = next
  /\ errors' = (errors \ {key}) \cup (ValidateForm(next) \cap {key})
  /\ UNCHANGED <<playVars, token, status, review, reviewError, submitting,
                 matchId, callVars, account, vouched>>

\* A changed game id or platform also drops the answer of the validation.
UpdateField(key, next) ==
  /\ FieldsEnabled
  /\ form' = next
  /\ errors' = errors \ {key, "gameValidation"}
  /\ UNCHANGED <<playVars, token, status, review, reviewError, submitting,
                 matchId, callVars, account, vouched>>

Type ==
  \/ \E t \in Amounts \cup {None} :
       ValidateAndUpdate("stakeAmount", [form EXCEPT !.stake = t])
  \/ \E typed \in BOOLEAN :
       /\ form.platform = "chesscom"
       /\ ValidateAndUpdate("platformUsername", [form EXCEPT !.username = typed])
  \/ \E g \in Games \cup {None} : UpdateField("gameId", [form EXCEPT !.gameId = g])
  \/ \E p \in {"lichess", "chesscom"} :
       UpdateField("platform", [form EXCEPT !.platform = p])

SetToken(t) ==
  /\ FormShown
  /\ token' = t
  /\ UNCHANGED <<playVars, form, errors, status, review, reviewError, submitting,
                 matchId, callVars, account, vouched>>

-----------------------------------------------------------------------------
(* handleSubmit                                                            *)
SubmitEnabled == FieldsEnabled /\ errors = {}

SubmitInvalid ==
  /\ SubmitEnabled
  /\ ValidateForm(form) # {}
  /\ errors' = ValidateForm(form)
  /\ UNCHANGED <<playVars, form, token, status, review, reviewError, submitting,
                 matchId, callVars, account, vouched>>

\* The stake of an amount stakeFromXlmInput rejects is not checked.
WagerRefused ==
  LET stake == StakeFromXlmInput(form.stake) IN
  stake # None /\ ~ Play!CheckWagerAllowed(account.address, stake)

\* The call carries the values of the render that was submitted.
ValidationCall == [form |-> form, token |-> token, network |-> account.network]

Submit ==
  /\ SubmitEnabled
  /\ Cardinality(validating) < MaxCalls
  /\ ValidateForm(form) = {}
  /\ IF account.address = None \/ WagerRefused
       THEN status' = "error" /\ UNCHANGED validating
       ELSE /\ status' = "validating"
            /\ validating' = validating \cup {ValidationCall}
  /\ UNCHANGED <<playVars, form, token, errors, review, reviewError, submitting,
                 matchId, signing, account, vouched>>

\* The review and the payload come from the values of the submission, whatever
\* the form holds by now.
Captured_Rerendered(v) == [v EXCEPT !.form = IF form.stake = None THEN @ ELSE form]
Captured(v) == v
ReviewOf(v) ==
  [summary |-> [stake |-> v.form.stake, token |-> v.token, gameId |-> v.form.gameId,
                network |-> v.network],
   payload |-> [stake |-> Stroops(v.form.stake), token |-> v.token,
                gameId |-> v.form.gameId, platform |-> v.form.platform]]

\* The service fetches the game, and answers by POST /validate-game's rules.
Had(v, fetched) ==
  vouched \cup (IF fetched \in Service!Errors THEN {}
                ELSE {<<v.form.platform, v.form.gameId>>})
Valid(v, fetched) == Service!ValidateGame(v.form.platform, v.form.username, fetched) = 200

GameFound(v, fetched) ==
  /\ v \in validating /\ Valid(v, fetched)
  /\ validating' = validating \ {v}
  /\ vouched' = Had(v, fetched)
  /\ IF ReviewIsBuilt
       THEN review' = ReviewOf(Captured(v)) /\ status' = "idle"
       ELSE status' = "error" /\ UNCHANGED review
  /\ UNCHANGED <<playVars, form, token, errors, reviewError, submitting, matchId,
                 signing, account>>

GameNotFound(v, fetched) ==
  /\ v \in validating /\ ~ Valid(v, fetched)
  /\ validating' = validating \ {v}
  /\ vouched' = Had(v, fetched)
  /\ status' = "error"
  /\ errors' = errors \cup {"gameValidation"}
  /\ UNCHANGED <<playVars, form, token, review, reviewError, submitting, matchId,
                 signing, account>>

\* The service does not answer, or not with JSON.
ServiceUnreachable(v) ==
  /\ v \in validating
  /\ validating' = validating \ {v}
  /\ status' = "error"
  /\ UNCHANGED <<playVars, form, token, errors, review, reviewError, submitting,
                 matchId, signing, account, vouched>>

-----------------------------------------------------------------------------
(* The review                                                              *)
ReviewShown == matchId = None /\ review # None
\* Only the confirm button waits for the wallet; cancel and Escape do not.
ConfirmEnabled == ReviewShown /\ ~ submitting

\* onCreateMatch works with the account and network of this moment.
HandleConfirmReview ==
  /\ ConfirmEnabled
  /\ IF account.address = None
       THEN reviewError' = TRUE /\ UNCHANGED <<submitting, signing>>
       ELSE /\ reviewError' = FALSE /\ submitting' = TRUE
            /\ signing' = signing \cup {[shown |-> review.summary,
                                         payload |-> review.payload,
                                         player |-> account.address]}
  /\ UNCHANGED <<playVars, form, token, errors, status, review, matchId,
                 validating, account, vouched>>

HandleCancelReview ==
  /\ ReviewShown
  /\ review' = None /\ reviewError' = FALSE /\ status' = "idle"
  /\ UNCHANGED <<playVars, form, token, errors, submitting, matchId, callVars,
                 account, vouched>>

MatchCreated(s) ==
  /\ s \in signing
  /\ signing' = signing \ {s}
  /\ matchId' = s.payload.gameId
  /\ status' = "success" /\ review' = None /\ submitting' = FALSE
  /\ UNCHANGED <<playVars, form, token, errors, reviewError, validating, account,
                 vouched>>

SigningFails(s) ==
  /\ s \in signing
  /\ signing' = signing \ {s}
  /\ reviewError' = TRUE /\ submitting' = FALSE
  /\ UNCHANGED <<playVars, form, token, errors, status, review, matchId,
                 validating, account, vouched>>

ResetForm ==
  /\ matchId # None
  /\ form' = EmptyForm /\ errors' = {} /\ status' = "idle" /\ matchId' = None
  /\ review' = None /\ reviewError' = FALSE
  /\ UNCHANGED <<playVars, token, submitting, callVars, account, vouched>>

\* The wallet reports another account or network at any time.
WalletChanges ==
  /\ account' \in [address : Addresses \cup {None}, network : Networks]
  /\ UNCHANGED <<playVars, screenVars, callVars, vouched>>

Panel ==
  /\ Play!Next
  /\ UNCHANGED <<screenVars, callVars, account, vouched>>

Next ==
  \/ Type
  \/ \E t \in {"xlm", "usdc"} : SetToken(t)
  \/ SubmitInvalid \/ Submit
  \/ \E v \in validating :
       \/ \E fetched \in Fetched[v.form.platform] :
            GameFound(v, fetched) \/ GameNotFound(v, fetched)
       \/ ServiceUnreachable(v)
  \/ HandleConfirmReview \/ HandleCancelReview
  \/ \E s \in signing : MatchCreated(s) \/ SigningFails(s)
  \/ ResetForm \/ WalletChanges \/ Panel

Spec == Init /\ [][Next]_createVars

-----------------------------------------------------------------------------
\* What the wallet is asked to sign is what the review showed, for a game the
\* platform had under that id, with its players, in progress or with a result,
\* and with a stake in the contract's bounds; and one
\* request is open at a time, whatever is cancelled, resubmitted or answered
\* late (handleSubmit, handleConfirmReview, handleCancelReview, resetForm).
SignedAsReviewed ==
  /\ Cardinality(signing) <= 1
  /\ \A s \in signing :
       /\ s.payload.stake = Stroops(s.shown.stake)
       /\ s.payload.stake \in 1 .. MAX_STAKE
       /\ s.payload.token = s.shown.token /\ s.payload.gameId = s.shown.gameId
       /\ <<s.payload.platform, s.payload.gameId>> \in vouched

\* "Self-exclusion and the stake limit stop the flow before anything is
\* validated or signed" (CreateMatch.tsx): no submission of an excluded player
\* reaches the game validation.
ExclusionStopsTheFlow ==
  [][\A v \in validating' \ validating : ~ Play!ActiveExclusion(account.address)]_createVars
=============================================================================
