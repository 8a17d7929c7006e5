--------------------------- MODULE FrontendProofs ---------------------------
(***************************************************************************)
(* Theorems about the web application: the responsible-play settings, for  *)
(* any addresses, periods, limits and delay, and the forms and the wallet  *)
(* session as the parts of MCFrontend, for every value of its constants.   *)
(***************************************************************************)
EXTENDS MCFrontend, SequenceTheorems, FiniteSetTheorems, TLAPS

-----------------------------------------------------------------------------
(* The settings of responsible play: ResponsiblePlay.                      *)

\* Only what was asked for last is waiting, and it waits for a whole delay.
AskedIsPending ==
  \A a \in Addresses : settings[a].pendingLimit # None =>
    /\ asked[a] # None
    /\ settings[a].pendingLimit.value = asked[a].value
    /\ settings[a].pendingLimit.effectiveAt = asked[a].at + Delay

PlayInv == TypeOK /\ AskedIsPending

Setting == [excludedUntil : Nat, stakeLimit : Limits \cup {None},
            pendingLimit : [value : Limits \cup {None}, effectiveAt : Nat] \cup {None}]

-----------------------------------------------------------------------------
\* The settings a call computes with are settings, and a pending change that is
\* due is no longer pending in them (effectiveSettings).
LEMMA EffectiveType ==
  ASSUME TypeOK, NEW a \in Addresses
  PROVE  /\ EffectiveSettings(a) \in Setting
         /\ EffectiveSettings(a).excludedUntil = settings[a].excludedUntil
         /\ EffectiveSettings(a).pendingLimit # None =>
              /\ EffectiveSettings(a) = settings[a]
              /\ settings[a].pendingLimit.effectiveAt > now
  <1>1. settings[a] \in Setting
    BY DEF TypeOK, Setting
  <1>2. CASE PendingDue(settings[a])
    <2>1. settings[a].pendingLimit.value \in Limits \cup {None}
      BY <1>1, <1>2 DEF PendingDue, Setting
    <2>2. EffectiveSettings(a) =
            [settings[a] EXCEPT !.stakeLimit = settings[a].pendingLimit.value,
                                !.pendingLimit = None]
      BY <1>2 DEF EffectiveSettings
    <2> QED BY <1>1, <2>1, <2>2 DEF Setting
  <1>3. CASE ~ PendingDue(settings[a])
    <2>1. EffectiveSettings(a) = settings[a]
      BY <1>3 DEF EffectiveSettings
    <2>2. settings[a].pendingLimit # None => settings[a].pendingLimit.effectiveAt > now
      BY <1>1, <1>3 DEF PendingDue, Setting, TypeOK
    <2> QED BY <1>1, <2>1, <2>2
  <1> QED BY <1>2, <1>3

-----------------------------------------------------------------------------
\* Before anything is set the invariant holds.
LEMMA InitInv == Init => PlayInv
  BY PlayAssumption DEF Init, PlayInv, TypeOK, AskedIsPending, Blank

\* Every click and every tick preserves it.
LEMMA NextInv == PlayInv /\ [Next]_playVars => PlayInv'
  <1> SUFFICES ASSUME PlayInv, [Next]_playVars PROVE PlayInv'
    OBVIOUS
  <1> USE PlayAssumption
  <1>a. TypeOK /\ AskedIsPending
    BY DEF PlayInv
  <1>1. ASSUME NEW p \in Periods, ChoosePeriod(p) PROVE PlayInv'
    BY <1>a, <1>1 DEF ChoosePeriod, PlayInv, TypeOK, AskedIsPending
  <1>2. ASSUME NEW a \in Addresses, Exclude(a) PROVE PlayInv'
    <2>1. EffectiveSettings(a) \in Setting
      BY <1>a, EffectiveType
    <2>2. confirming \in Periods /\ now \in Nat /\ confirming \in Nat
      BY <1>a, <1>2 DEF Exclude, TypeOK
    <2> DEFINE until == Later(now + confirming, EffectiveSettings(a).excludedUntil)
               new == [EffectiveSettings(a) EXCEPT !.excludedUntil = until]
    <2>3. until \in Nat
      BY <2>1, <2>2 DEF Later, Setting
    <2>4. new \in Setting /\ new.pendingLimit = EffectiveSettings(a).pendingLimit
      BY <2>1, <2>3 DEF Setting
    <2>5. settings' = [settings EXCEPT ![a] = new] /\ now' = now /\ asked' = asked
          /\ confirming' = None
      BY <1>2 DEF Exclude, StartSelfExclusion, SaveSettings
    <2> HIDE DEF new
    <2>6. TypeOK'
      BY <1>a, <2>4, <2>5 DEF TypeOK, Setting
    <2>7. AskedIsPending'
      BY <1>a, <2>4, <2>5, EffectiveType DEF AskedIsPending, TypeOK
    <2> QED BY <2>6, <2>7 DEF PlayInv
  <1>3. CASE CancelConfirmation
    BY <1>a, <1>3 DEF CancelConfirmation, PlayInv, TypeOK, AskedIsPending
  <1>4. ASSUME NEW a \in Addresses, NEW l \in Limits \cup {None}, TightenLimit(a, l),
               confirming' = confirming
        PROVE  PlayInv'
    <2>1. EffectiveSettings(a) \in Setting
      BY <1>a, EffectiveType
    <2> DEFINE new == [EffectiveSettings(a) EXCEPT !.stakeLimit = l, !.pendingLimit = None]
    <2>2. new \in Setting /\ new.pendingLimit = None
      BY <2>1 DEF Setting
    <2>3. settings' = [settings EXCEPT ![a] = new] /\ now' = now
          /\ asked' = [asked EXCEPT ![a] = None]
      BY <1>4 DEF TightenLimit, SaveSettings, Tightened
    <2> HIDE DEF new
    <2>4. TypeOK'
      BY <1>a, <1>4, <2>2, <2>3 DEF TypeOK, Setting
    <2>5. AskedIsPending'
      BY <1>a, <2>2, <2>3 DEF AskedIsPending, TypeOK
    <2> QED BY <2>4, <2>5 DEF PlayInv
  <1>5. ASSUME NEW a \in Addresses, NEW l \in Limits \cup {None}, LoosenLimit(a, l),
               confirming' = confirming
        PROVE  PlayInv'
    <2>1. EffectiveSettings(a) \in Setting
      BY <1>a, EffectiveType
    <2> DEFINE wait == [value |-> l, effectiveAt |-> now + Delay]
               new == [EffectiveSettings(a) EXCEPT !.pendingLimit = wait]
    <2>2. wait \in [value : Limits \cup {None}, effectiveAt : Nat]
      BY <1>a DEF TypeOK
    <2>3. new \in Setting /\ new.pendingLimit = wait
      BY <2>1, <2>2 DEF Setting
    <2>4. settings' = [settings EXCEPT ![a] = new] /\ now' = now
          /\ asked' = [asked EXCEPT ![a] = [value |-> l, at |-> now]]
      BY <1>5 DEF LoosenLimit, SaveSettings
    <2>5. wait.value = l /\ wait.effectiveAt = now + Delay
      OBVIOUS
    <2> HIDE DEF new, wait
    <2>6. [value |-> l, at |-> now] \in [value : Limits \cup {None}, at : Nat]
      BY <1>a DEF TypeOK
    <2>7. TypeOK'
      BY <1>a, <1>5, <2>3, <2>4, <2>6 DEF TypeOK, Setting
    <2>8. AskedIsPending'
      <3>1. SUFFICES ASSUME NEW b \in Addresses, settings'[b].pendingLimit # None
                     PROVE  /\ asked'[b] # None
                            /\ settings'[b].pendingLimit.value = asked'[b].value
                            /\ settings'[b].pendingLimit.effectiveAt = asked'[b].at + Delay
        BY DEF AskedIsPending
      <3>2. CASE b = a
        <4>1. settings'[b] = new /\ asked'[b] = [value |-> l, at |-> now]
          BY <1>a, <2>4, <3>2 DEF TypeOK
        <4>2. asked'[b] # None
          BY <4>1, <2>6
        <4> QED BY <4>1, <4>2, <2>3, <2>5
      <3>3. CASE b # a
        BY <1>a, <2>4, <3>1, <3>3 DEF TypeOK, AskedIsPending
      <3> QED BY <3>2, <3>3
    <2> QED BY <2>7, <2>8 DEF PlayInv
  <1>6. CASE Tick
    BY <1>a, <1>6 DEF Tick, PlayInv, TypeOK, AskedIsPending
  <1>7. CASE UNCHANGED playVars
    BY <1>a, <1>7 DEF playVars, PlayInv, TypeOK, AskedIsPending
  <1> QED BY <1>1, <1>2, <1>3, <1>4, <1>5, <1>6, <1>7 DEF Next, Panel, ApplyLimit

-----------------------------------------------------------------------------
\* A step keeps the commitments: a call leaves in force what was, or less, and
\* what a tick makes due was asked for a delay ago.
LEMMA StepKeeps ==
  PlayInv /\ PlayInv' /\ [Next]_playVars => \A a \in Addresses : KeepsCommitment(a)
  <1> SUFFICES ASSUME PlayInv, PlayInv', [Next]_playVars, NEW a \in Addresses
               PROVE  KeepsCommitment(a)
    OBVIOUS
  <1> USE PlayAssumption
  <1>a. TypeOK /\ AskedIsPending /\ TypeOK'
    BY DEF PlayInv
  <1>b. /\ settings[a] \in Setting /\ settings'[a] \in Setting
        /\ now \in Nat /\ now' \in Nat /\ Delay \in Nat \ {0}
        /\ Limits \cup {None} \subseteq Nat \cup {None}
    BY <1>a DEF TypeOK, Setting
  <1> DEFINE Due(s, t) == s.pendingLimit # None /\ s.pendingLimit.effectiveAt <= t
             Rule(s, t) == IF Due(s, t) THEN s.pendingLimit.value ELSE s.stakeLimit
  <1>c. InForce(a) = Rule(settings[a], now)
    BY <1>b DEF InForce, EffectiveSettings, PendingDue, Setting
  <1>d. InForce(a)' = Rule(settings'[a], now')
    BY <1>b DEF InForce, EffectiveSettings, PendingDue, Setting
  <1>e. InForce(a) \in Limits \cup {None} /\ InForce(a)' \in Limits \cup {None}
    BY <1>b, <1>c, <1>d DEF Setting
  <1>f. ~ Looser(InForce(a), InForce(a))
    BY <1>b, <1>e DEF Looser
  <1>1. CASE settings'[a] = settings[a] /\ now' = now
    <2>1. InForce(a)' = InForce(a)
      BY <1>1, <1>c, <1>d
    <2>2. settings'[a].excludedUntil >= settings[a].excludedUntil
      BY <1>1, <1>b DEF Setting
    <2>3. ~ Looser(InForce(a)', InForce(a))
      BY <2>1, <1>f
    <2> QED BY <2>2, <2>3 DEF KeepsCommitment
  <1>2. ASSUME NEW b \in Addresses, Exclude(b) PROVE KeepsCommitment(a)
    <2>1. CASE b = a
      <3> DEFINE s == EffectiveSettings(a)
                 until == Later(now + confirming, s.excludedUntil)
      <3>1. /\ s \in Setting /\ s.excludedUntil = settings[a].excludedUntil
            /\ s.pendingLimit # None => s.pendingLimit.effectiveAt > now
            /\ s.stakeLimit = InForce(a)
        BY <1>a, EffectiveType DEF InForce
      <3>2. confirming \in Nat
        BY <1>a, <1>2 DEF Exclude, TypeOK
      <3>3. now' = now /\ settings' = [settings EXCEPT ![a] = [s EXCEPT !.excludedUntil = until]]
        BY <1>2, <2>1 DEF Exclude, StartSelfExclusion, SaveSettings
      <3> HIDE DEF s
      <3>4. settings'[a] = [s EXCEPT !.excludedUntil = until]
        BY <1>a, <3>3 DEF TypeOK
      <3>5. until >= s.excludedUntil
        BY <3>1, <3>2, <1>b DEF Later, Setting
      <3> HIDE DEF until
      <3>6. settings'[a].excludedUntil = until /\ settings'[a].stakeLimit = s.stakeLimit
            /\ settings'[a].pendingLimit = s.pendingLimit
        BY <3>1, <3>4 DEF Setting
      <3>7. ~ Due(settings'[a], now')
        BY <3>1, <3>3, <3>6, <1>b DEF Setting
      <3>8. InForce(a)' = InForce(a)
        BY <1>d, <3>1, <3>6, <3>7
      <3>9. ~ Looser(InForce(a)', InForce(a))
        BY <3>8, <1>f
      <3> QED BY <3>1, <3>5, <3>6, <3>9 DEF KeepsCommitment
    <2>2. CASE b # a
      <3>1. settings'[a] = settings[a] /\ now' = now
        BY <1>a, <1>2, <2>2 DEF Exclude, StartSelfExclusion, SaveSettings, TypeOK
      <3> QED BY <1>1, <3>1
    <2> QED BY <2>1, <2>2
  <1>3. ASSUME NEW b \in Addresses, NEW l \in Limits \cup {None}, TightenLimit(b, l)
        PROVE  KeepsCommitment(a)
    <2>1. CASE b = a
      <3> DEFINE s == EffectiveSettings(a)
      <3>1. /\ s \in Setting /\ s.excludedUntil = settings[a].excludedUntil
            /\ s.stakeLimit = InForce(a)
        BY <1>a, EffectiveType DEF InForce
      <3>2. /\ now' = now /\ ~ Looser(l, s.stakeLimit)
            /\ settings' = [settings EXCEPT ![a] = [s EXCEPT !.stakeLimit = l, !.pendingLimit = None]]
        BY <1>3, <2>1 DEF TightenLimit, SaveSettings, Tightened, Tightens
      <3> HIDE DEF s
      <3>3. settings'[a] = [s EXCEPT !.stakeLimit = l, !.pendingLimit = None]
        BY <1>a, <3>2 DEF TypeOK
      <3>4. settings'[a].excludedUntil = s.excludedUntil /\ settings'[a].stakeLimit = l
            /\ settings'[a].pendingLimit = None
        BY <3>1, <3>3 DEF Setting
      <3>5. InForce(a)' = l
        BY <1>d, <3>4
      <3>6. ~ Looser(InForce(a)', InForce(a))
        BY <3>1, <3>2, <3>5
      <3>7. settings'[a].excludedUntil >= settings[a].excludedUntil
        BY <1>b, <3>1, <3>4 DEF Setting
      <3> QED BY <3>6, <3>7 DEF KeepsCommitment
    <2>2. CASE b # a
      <3>1. settings'[a] = settings[a] /\ now' = now
        BY <1>a, <1>3, <2>2 DEF TightenLimit, SaveSettings, TypeOK
      <3> QED BY <1>1, <3>1
    <2> QED BY <2>1, <2>2
  <1>4. ASSUME NEW b \in Addresses, NEW l \in Limits \cup {None}, LoosenLimit(b, l)
        PROVE  KeepsCommitment(a)
    <2>1. CASE b = a
      <3> DEFINE s == EffectiveSettings(a)
                 wait == [value |-> l, effectiveAt |-> now + Delay]
      <3>1. /\ s \in Setting /\ s.excludedUntil = settings[a].excludedUntil
            /\ s.stakeLimit = InForce(a)
        BY <1>a, EffectiveType DEF InForce
      <3>2. now' = now /\ settings' = [settings EXCEPT ![a] = [s EXCEPT !.pendingLimit = wait]]
        BY <1>4, <2>1 DEF LoosenLimit, SaveSettings
      <3>3. wait.effectiveAt > now
        BY <1>b
      <3> HIDE DEF s, wait
      <3>4. settings'[a] = [s EXCEPT !.pendingLimit = wait]
        BY <1>a, <3>2 DEF TypeOK
      <3>5. settings'[a].excludedUntil = s.excludedUntil /\ settings'[a].pendingLimit = wait
            /\ settings'[a].stakeLimit = s.stakeLimit
        BY <3>1, <3>4 DEF Setting
      <3>6. wait = None \/ wait.effectiveAt \in Nat
        BY <1>b, <3>5 DEF Setting
      <3>7. ~ Due(settings'[a], now')
        BY <3>2, <3>3, <3>5, <3>6, <1>b
      <3>8. InForce(a)' = InForce(a)
        BY <1>d, <3>1, <3>5, <3>7
      <3>9. ~ Looser(InForce(a)', InForce(a))
        BY <3>8, <1>f
      <3>10. settings'[a].excludedUntil >= settings[a].excludedUntil
        BY <1>b, <3>1, <3>5 DEF Setting
      <3> QED BY <3>9, <3>10 DEF KeepsCommitment
    <2>2. CASE b # a
      <3>1. settings'[a] = settings[a] /\ now' = now
        BY <1>a, <1>4, <2>2 DEF LoosenLimit, SaveSettings, TypeOK
      <3> QED BY <1>1, <3>1
    <2> QED BY <2>1, <2>2
  <1>5. CASE Tick
    <2>1. settings' = settings /\ now' = now + 1
      BY <1>5 DEF Tick
    <2>2. settings'[a].excludedUntil >= settings[a].excludedUntil
      BY <2>1, <1>b DEF Setting
    <2>3. CASE Due(settings[a], now) \/ ~ Due(settings[a], now')
      <3>1. InForce(a)' = InForce(a)
        BY <2>1, <2>3, <1>b, <1>c, <1>d DEF Setting
      <3> QED BY <2>2, <3>1, <1>f DEF KeepsCommitment
    <2>4. CASE Due(settings[a], now')
      <3>1. settings[a].pendingLimit # None
        BY <2>4
      <3>2. /\ asked[a] # None /\ InForce(a)' = asked[a].value
            /\ asked[a].at + Delay <= now'
        BY <1>a, <1>d, <2>1, <2>4, <3>1 DEF AskedIsPending
      <3> QED BY <2>2, <3>2 DEF KeepsCommitment
    <2> QED BY <2>3, <2>4
  <1>6. ASSUME NEW p \in Periods, ChoosePeriod(p) PROVE KeepsCommitment(a)
    BY <1>1, <1>6 DEF ChoosePeriod
  <1>7. CASE CancelConfirmation
    BY <1>1, <1>7 DEF CancelConfirmation
  <1>8. CASE UNCHANGED playVars
    BY <1>1, <1>8 DEF playVars
  <1> QED BY <1>2, <1>3, <1>4, <1>5, <1>6, <1>7, <1>8 DEF Next, Panel, ApplyLimit

-----------------------------------------------------------------------------
\* Settings, clock, panel and history keep their types, and what is pending is
\* what was asked for last (the type invariant and its strengthening).
THEOREM PlayInvariant == Spec => []PlayInv
  <1> QED BY InitInv, NextInv, PTL DEF Spec

\* A commitment outlasts the moment (startSelfExclusion, setStakeLimit,
\* effectiveSettings), for any number of addresses, periods, limits and delay.
THEOREM Commitments == Spec => CommitmentsHold
  <1>1. PlayInv /\ PlayInv' /\ [Next]_playVars =>
          [\A a \in Addresses : KeepsCommitment(a)]_playVars
    BY StepKeeps
  <1> QED BY <1>1, InitInv, NextInv, PTL DEF Spec, CommitmentsHold

-----------------------------------------------------------------------------
(* How many calls there are once one is made or answered.                  *)

\* A call more, and a call less.
LEMMA OneMore ==
  ASSUME NEW S, IsFiniteSet(S), NEW x
  PROVE  /\ IsFiniteSet(S \cup {x}) /\ Cardinality(S) \in Nat
         /\ Cardinality(S \cup {x}) \in Nat /\ Cardinality(S \cup {x}) <= Cardinality(S) + 1
BY FS_AddElement, FS_CardinalityType

LEMMA OneLess ==
  ASSUME NEW S, IsFiniteSet(S), NEW x \in S
  PROVE  /\ IsFiniteSet(S \ {x}) /\ Cardinality(S) \in Nat
         /\ Cardinality(S \ {x}) \in Nat /\ Cardinality(S \ {x}) = Cardinality(S) - 1
BY FS_RemoveElement, FS_CardinalityType

-----------------------------------------------------------------------------
(* The form that creates a match: CreateMatchForm.                         *)

\* Of each behaviour of the application, the create form's part.
LEMMA CreateSteps == FrontSpec => Create!Init /\ [][Create!Next]_createVars
<1>1. FrontInit => Create!Init
  BY DEF FrontInit
<1>2. [FrontNext]_vars => [Create!Next]_createVars
  BY DEF FrontNext, vars, createVars
<1> QED BY <1>1, <1>2, PTL DEF FrontSpec

\* A payload is what the review showed, of a stake the contract takes and a
\* game that was found.
Reviewed(shown, payload) ==
  /\ payload.stake = Create!Stroops(shown.stake)
  /\ payload.stake \in 1 .. 500
  /\ payload.token = shown.token /\ payload.gameId = shown.gameId
  /\ <<payload.platform, payload.gameId>> \in vouched

\* One payload is being signed at most, and only while the form says so; what
\* is being validated had no error; and the review, and what is signed, were
\* made of one form that was found valid.
CreateInv ==
  /\ ~ submitting => signing = {}
  /\ \A s, t \in signing : s = t
  /\ \A v \in validating : Create!ValidateForm(v.form) = {}
  /\ review # None => Reviewed(review.summary, review.payload)
  /\ \A s \in signing : Reviewed(s.shown, s.payload)

\* The form starts with nothing validated, reviewed or signed.
LEMMA CreateInvInit == Create!Init => CreateInv
BY DEF Create!Init, CreateInv, Reviewed

\* An answer that counts as a game is none of the service's errors.
LEMMA ValidGames ==
  ASSUME NEW v, NEW fetched, Create!Valid(v, fetched)
  PROVE  fetched \notin Create!Service!Errors
BY
  DEF Create!Valid, Create!Service!ValidateGame, Create!Service!errorToHttpStatus,
      Create!Service!Errors

\* Every step of the form keeps the invariant.
LEMMA CreateInvNext ==
  ASSUME CreateInv, [Create!Next]_createVars
  PROVE  CreateInv'
<1> USE DEF CreateInv, Reviewed
<1>1. CASE UNCHANGED createVars
  BY <1>1 DEF createVars
<1>2. CASE Create!Type
  <2>1. UNCHANGED <<review, submitting, validating, signing, vouched>>
    BY <1>2 DEF Create!Type, Create!ValidateAndUpdate, Create!UpdateField, Create!callVars
  <2> QED BY <2>1
<1>3. ASSUME NEW t, Create!SetToken(t) PROVE CreateInv'
  BY <1>3 DEF Create!SetToken, Create!callVars
<1>4. CASE Create!SubmitInvalid
  BY <1>4 DEF Create!SubmitInvalid, Create!callVars
<1>5. CASE Create!Submit
  BY <1>5 DEF Create!Submit, Create!ValidationCall
<1>6. ASSUME NEW v \in validating, NEW fetched, Create!GameFound(v, fetched) PROVE CreateInv'
  <2>1. /\ UNCHANGED <<submitting, signing>> /\ validating' \subseteq validating
        /\ vouched' = vouched \cup {<<v.form.platform, v.form.gameId>>}
        /\ review' \in {review, Create!ReviewOf(v)}
    BY <1>6, ValidGames DEF Create!GameFound, Create!Had, Create!Captured
  <2>2. Create!Stroops(v.form.stake) \in 1 .. 500
    BY DEF Create!ValidateForm, Create!StakeErrors
  <2>3. Reviewed(Create!ReviewOf(v).summary, Create!ReviewOf(v).payload)'
    BY <2>1, <2>2 DEF Create!ReviewOf
  <2> QED BY <2>1, <2>3
<1>7. ASSUME NEW v, NEW fetched, Create!GameNotFound(v, fetched) PROVE CreateInv'
  BY <1>7 DEF Create!GameNotFound, Create!Had
<1>8. ASSUME NEW v, Create!ServiceUnreachable(v) PROVE CreateInv'
  BY <1>8 DEF Create!ServiceUnreachable
<1>9. CASE Create!HandleConfirmReview
  BY <1>9 DEF Create!HandleConfirmReview, Create!ConfirmEnabled, Create!ReviewShown
<1>10. CASE Create!HandleCancelReview
  BY <1>10 DEF Create!HandleCancelReview, Create!callVars
<1>11. ASSUME NEW s \in signing, Create!MatchCreated(s) \/ Create!SigningFails(s)
       PROVE  CreateInv'
  <2>1. /\ signing' = {} /\ UNCHANGED <<validating, vouched>>
        /\ review' = None \/ review' = review
    BY <1>11 DEF Create!MatchCreated, Create!SigningFails
  <2> QED BY <2>1
<1>12. CASE Create!ResetForm
  BY <1>12 DEF Create!ResetForm, Create!callVars
<1>13. CASE Create!WalletChanges \/ Create!Panel
  <2>1. UNCHANGED <<review, submitting, validating, signing, vouched>>
    BY <1>13 DEF Create!WalletChanges, Create!Panel, Create!screenVars, Create!callVars
  <2> QED BY <2>1
<1> HIDE DEF CreateInv, Reviewed
<1> QED
  BY <1>1, <1>2, <1>3, <1>4, <1>5, <1>6, <1>7, <1>8, <1>9, <1>10, <1>11, <1>12, <1>13
  DEF Create!Next

\* The form counts as this module does.
LEMMA CreateCounts == \A S : Create!Cardinality(S) = Cardinality(S)
BY DEF Create!Cardinality, Cardinality

\* The wallet signs what the review showed, once at a time, and only for a
\* stake the contract takes and a game the platform has, however the player
\* typed on while it was validated (useCreateMatch.ts).
THEOREM MatchesAreAsReviewed == FrontSpec => []SignedAsReviewed
<1>1. CreateInv => SignedAsReviewed
  <2> SUFFICES ASSUME CreateInv PROVE SignedAsReviewed
    OBVIOUS
  <2>1. Cardinality(signing) <= 1
    <3>1. ASSUME NEW s \in signing PROVE Cardinality(signing) <= 1
      <4>1. signing = {s}
        BY DEF CreateInv
      <4> QED BY <4>1, FS_Singleton
    <3>2. CASE signing = {}
      BY <3>2, FS_EmptySet
    <3> QED BY <3>1, <3>2
  <2> QED BY <2>1, CreateCounts DEF SignedAsReviewed, Create!SignedAsReviewed, CreateInv, Reviewed
<1> QED BY <1>1, CreateSteps, CreateInvInit, CreateInvNext, PTL

-----------------------------------------------------------------------------
(* The deposit page: DepositStake.                                         *)

\* Of each behaviour of the application, the deposit page's part.
LEMMA DepositSteps == FrontSpec => Deposit!Init /\ [][Deposit!Next]_depositVars
<1>1. FrontInit => Deposit!Init
  BY DEF FrontInit
<1>2. [FrontNext]_vars => [Deposit!Next]_depositVars
  BY DEF FrontNext, vars, depositVars
<1> QED BY <1>1, <1>2, PTL DEF FrontSpec

\* What the page's state is, and what it may still let through: a click on
\* deposit or on approve now, or one that an allowance check in flight is going
\* to forbid.
DepositStatuses == {"idle", "error", "success", "loading", "pending", "approving"}
Settled == depositStatus \in {"idle", "error", "success"}
Undecided == allowanceStatus \in {"checking", "insufficient"}
Approving == {c \in checks : c.approving}
CheckExpected ==
  /\ allowanceStatus = "checking" /\ checks # Approving
  /\ Settled \/ (depositStatus = "loading" /\ approvals = {} /\ Approving = {})
Clickable == Settled \/ (depositStatus = "approving" /\ ~ Undecided)
Approvable == depositStatus = "pending" /\ allowanceStatus = "insufficient"
Click == IF Clickable THEN 1 ELSE 0
Approve == IF Approvable THEN 1 ELSE 0
Wait == IF CheckExpected THEN 1 ELSE 0
Chance == Click + Approve - Wait

\* The calls in flight, of which any may put the page back to rest and so allow
\* a deposit.
CallsOut ==
  Cardinality(deposits) + Cardinality(fetches) + Cardinality(approvals) + Cardinality(checks)

\* What is in flight and what may be clicked is one in all, and one more with
\* each change of the match or the account; a page that waits for a check
\* counts for one less, as that check is among the calls and can only take away
\* its own.
DepositInv ==
  /\ IsFiniteSet(deposits) /\ IsFiniteSet(fetches) /\ IsFiniteSet(approvals)
  /\ IsFiniteSet(checks) /\ moves \in Nat
  /\ depositStatus \in DepositStatuses
  /\ ~ Deposit!Loaded => approvals = {} /\ Approving = {}
  /\ CallsOut + Click + Approve <= 1 + moves + Wait

\* The page starts with one fetch, and at most one check that it waits for.
LEMMA DepositInvInit == Deposit!Init => DepositInv
<1> SUFFICES ASSUME Deposit!Init PROVE DepositInv
  OBVIOUS
<1>1. /\ Cardinality(deposits) = 0 /\ Cardinality(approvals) = 0 /\ Cardinality(fetches) = 1
      /\ IsFiniteSet(deposits) /\ IsFiniteSet(fetches) /\ IsFiniteSet(approvals)
  BY FS_EmptySet, FS_Singleton DEF Deposit!Init
<1>2. /\ IsFiniteSet(checks) /\ (checks = {} => Cardinality(checks) = 0)
      /\ (checks # {} => Cardinality(checks) = 1)
  BY FS_EmptySet, FS_Singleton DEF Deposit!Init
<1>3. /\ checks # {} => allowanceStatus = "checking" /\ checks # Approving /\ Approving = {}
      /\ Approving = {}
  BY DEF Deposit!Init, Approving
<1>4. depositStatus = "loading" /\ moves = 0 /\ approvals = {}
  BY DEF Deposit!Init
<1>5. ~ Clickable /\ ~ Approvable /\ (checks # {} => CheckExpected)
  BY <1>3, <1>4 DEF Clickable, Approvable, Settled, CheckExpected
<1> QED
  BY <1>1, <1>2, <1>3, <1>4, <1>5 DEF DepositInv, CallsOut, Click, Approve, Wait, DepositStatuses

\* What a step has to show.
LEMMA Kept ==
  ASSUME IsFiniteSet(deposits'), IsFiniteSet(fetches'), IsFiniteSet(approvals'),
         IsFiniteSet(checks'), moves' \in Nat,
         depositStatus' \in DepositStatuses,
         Deposit!Loaded' \/ (approvals' = {} /\ Approving' = {}),
         CallsOut' + Click' + Approve' <= 1 + moves' + Wait'
  PROVE  DepositInv'
BY DEF DepositInv, CallsOut

\* A step that leaves the calls and the page's state alone keeps the invariant.
LEMMA Quiet ==
  ASSUME DepositInv,
         UNCHANGED <<depositStatus, allowanceStatus, fetches, checks, approvals, deposits>>,
         matchDetails' = matchDetails, moves' = moves
  PROVE  DepositInv'
BY DEF DepositInv, Deposit!Loaded, Approving, CallsOut, Clickable, Approvable, CheckExpected,
       Settled, Undecided, Click, Approve, Wait

\* Every step of the page keeps the invariant.
LEMMA DepositInvNext ==
  ASSUME DepositInv, [Deposit!Next]_depositVars
  PROVE  DepositInv'
<1> USE DEF Deposit!propVars, Deposit!pageVars, Deposit!callVars, Deposit!worldVars
<1>a. /\ IsFiniteSet(deposits) /\ IsFiniteSet(fetches) /\ IsFiniteSet(approvals)
      /\ IsFiniteSet(checks) /\ moves \in Nat
      /\ Cardinality(deposits) \in Nat /\ Cardinality(fetches) \in Nat
      /\ Cardinality(approvals) \in Nat /\ Cardinality(checks) \in Nat
  BY FS_CardinalityType DEF DepositInv
<1>b. /\ ~ Deposit!Loaded => approvals = {} /\ Approving = {}
      /\ CallsOut + Click + Approve <= 1 + moves + Wait
  BY DEF DepositInv, CallsOut
<1>d. depositStatus \in DepositStatuses
  BY DEF DepositInv
<1>e. CallsOut + Click + Approve <= 1 + moves + Wait
  BY <1>b
<1>c. /\ Click \in {0, 1} /\ Approve \in {0, 1} /\ Wait \in {0, 1}
      /\ Click' \in {0, 1} /\ Approve' \in {0, 1} /\ Wait' \in {0, 1}
  BY DEF Click, Approve, Wait
<1>f. /\ Click \in Int /\ Approve \in Int /\ Wait \in Int
      /\ Click' \in Int /\ Approve' \in Int /\ Wait' \in Int
  BY DEF Click, Approve, Wait
<1>g. Chance \in Int /\ Chance' \in Int
  BY <1>f DEF Chance
<1>1. CASE UNCHANGED depositVars
  BY <1>1, Quiet DEF depositVars
<1>2. CASE Deposit!Tick \/ Deposit!Panel \/ \E t \in Targets : Deposit!MatchCloses(t)
  BY <1>2, Quiet DEF Deposit!Tick, Deposit!Panel, Deposit!MatchCloses
<1>3. CASE Deposit!Retry
  <2>1. /\ ~ Deposit!Loaded /\ depositStatus = "error" /\ depositStatus' = "loading"
        /\ fetches' = fetches \cup {[target |-> target, got |-> None]}
        /\ UNCHANGED <<matchDetails, allowanceStatus, checks, approvals, deposits, moves>>
    BY <1>3 DEF Deposit!Retry, Deposit!FetchMatchDetails
  <2>2. /\ IsFiniteSet(fetches') /\ Cardinality(fetches') \in Nat
        /\ Cardinality(fetches') <= Cardinality(fetches) + 1
    BY <1>a, <2>1, OneMore
  <2>3. /\ Click = 1 /\ Click' = 0 /\ Approve' = 0
        /\ Wait = Wait'
    BY <2>1, <1>b
      DEF DepositStatuses, Click, Approve, Wait, Clickable, Approvable, CheckExpected, Settled,
          Approving
  <2>8. CallsOut' + Click' + Approve' <= 1 + moves' + Wait'
    BY <1>a, <1>e, <1>c, <2>1, <2>2, <2>3 DEF CallsOut
  <2>9. Deposit!Loaded' \/ (approvals' = {} /\ Approving' = {})
    BY <1>b, <1>c, <2>1, <2>2, <2>3 DEF Deposit!Loaded, Approving
  <2> QED BY <1>a, <1>b, <1>c, <2>1, <2>2, <2>3, <1>d, <2>8, <2>9, Kept
      DEF Settled, DepositStatuses
<1>4. ASSUME NEW f \in fetches, Deposit!ServerReads(f) PROVE DepositInv'
  <2>1. PICK g : fetches' = (fetches \ {f}) \cup {g}
    BY <1>4 DEF Deposit!ServerReads
  <2>2. UNCHANGED <<matchDetails, depositStatus, allowanceStatus, checks, approvals, deposits, moves>>
    BY <1>4 DEF Deposit!ServerReads
  <2>3. /\ IsFiniteSet(fetches') /\ Cardinality(fetches') \in Nat
        /\ Cardinality(fetches') <= Cardinality(fetches)
    <3> DEFINE rest == fetches \ {f}
    <3>1. IsFiniteSet(rest) /\ Cardinality(rest) = Cardinality(fetches) - 1
      BY <1>a, OneLess
    <3>2. fetches' = rest \cup {g}
      BY <2>1
    <3> HIDE DEF rest
    <3>3. /\ IsFiniteSet(fetches') /\ Cardinality(fetches') \in Nat
          /\ Cardinality(fetches') <= Cardinality(rest) + 1 /\ Cardinality(rest) \in Nat
      BY <3>1, <3>2, OneMore
    <3> QED BY <1>a, <3>1, <3>3
  <2>4. /\ Click' = Click /\ Approve' = Approve
        /\ Wait' = Wait
    BY <2>2
      DEF DepositStatuses, Click, Approve, Wait, Clickable, Approvable, CheckExpected, Settled,
          Undecided, Approving
  <2>8. CallsOut' + Click' + Approve' <= 1 + moves' + Wait'
    BY <1>a, <1>e, <1>c, <2>2, <2>3, <2>4 DEF CallsOut
  <2>9. Deposit!Loaded' \/ (approvals' = {} /\ Approving' = {})
    BY <1>b, <1>c, <2>2, <2>3, <2>4 DEF Deposit!Loaded, Approving
  <2> QED BY <1>a, <1>b, <1>c, <2>2, <2>3, <2>4, <1>d, <2>8, <2>9, Kept
      DEF Settled, DepositStatuses
<1>5. ASSUME NEW f \in fetches, Deposit!FetchAnswers(f) \/ Deposit!FetchFails(f)
      PROVE  DepositInv'
  <2>1. /\ fetches' = fetches \ {f} /\ Settled'
        /\ Deposit!Loaded => Deposit!Loaded'
        /\ UNCHANGED <<allowanceStatus, checks, approvals, deposits, moves>>
    BY <1>5 DEF Deposit!FetchAnswers, Deposit!FetchFails, Settled, Deposit!Loaded
  <2>2. /\ IsFiniteSet(fetches') /\ Cardinality(fetches') \in Nat
        /\ Cardinality(fetches') = Cardinality(fetches) - 1
    BY <1>a, <2>1, OneLess
  <2>3. /\ Click' = 1 /\ Approve' = 0
        /\ Wait <= Wait'
    BY <2>1
      DEF DepositStatuses, Click, Approve, Wait, Clickable, Approvable, CheckExpected, Settled,
          Undecided, Approving
  <2>8. CallsOut' + Click' + Approve' <= 1 + moves' + Wait'
    BY <1>a, <1>e, <1>c, <2>1, <2>2, <2>3 DEF CallsOut
  <2>9. Deposit!Loaded' \/ (approvals' = {} /\ Approving' = {})
    BY <1>b, <1>c, <2>1, <2>2, <2>3 DEF Deposit!Loaded, Approving
  <2> QED BY <1>a, <1>b, <1>c, <2>1, <2>2, <2>3, <1>d, <2>8, <2>9, Kept
      DEF Settled, DepositStatuses
<1>6. ASSUME NEW c \in checks, NEW fails \in BOOLEAN, Deposit!CheckAnswers(c, fails)
      PROVE  DepositInv'
  <2>1. /\ checks' = checks \ {c} /\ allowanceStatus' \in {"sufficient", "insufficient"}
        /\ depositStatus' = IF c.approving THEN "idle" ELSE depositStatus
        /\ UNCHANGED <<matchDetails, fetches, approvals, deposits, moves>>
    BY <1>6 DEF Deposit!CheckAnswers
  <2>2. /\ IsFiniteSet(checks') /\ Cardinality(checks') \in Nat
        /\ Cardinality(checks') = Cardinality(checks) - 1
    BY <1>a, <2>1, OneLess
  <2>3. Chance' <= Chance + 1
    BY <2>1
      DEF Chance, DepositStatuses, Click, Approve, Wait, Clickable, Approvable, CheckExpected,
          Settled, Undecided, Approving
  <2>4. Approving' \subseteq Approving
    BY <2>1 DEF Approving
  <2>5. /\ Cardinality(deposits') = Cardinality(deposits)
        /\ Cardinality(fetches') = Cardinality(fetches)
        /\ Cardinality(approvals') = Cardinality(approvals) /\ moves' = moves
    BY <2>1
  <2>8. CallsOut' + Click' + Approve' <= 1 + moves' + Wait'
    <3> DEFINE room == 1 + moves - CallsOut
           left == 1 + moves' - CallsOut'
    <3>1. room \in Int /\ left \in Int /\ Chance <= room /\ room + 1 <= left
      BY <1>a, <1>e, <1>f, <2>2, <2>3, <2>5 DEF Chance, CallsOut
    <3> HIDE DEF room, left
    <3>2. Chance' <= left
      BY <1>g, <3>1, <2>3
    <3> QED BY <1>a, <1>f, <3>2, <2>2, <2>3, <2>5 DEF left, Chance, CallsOut
  <2>9. Deposit!Loaded' \/ (approvals' = {} /\ Approving' = {})
    BY <1>b, <1>c, <2>1, <2>2, <2>3, <2>4 DEF Deposit!Loaded, Approving
  <2> QED BY <1>a, <1>b, <1>c, <2>1, <2>2, <2>3, <2>4, <1>d, <2>8, <2>9, Kept
      DEF Settled, DepositStatuses
<1>7. CASE Deposit!HandleApprove
  <2>1. /\ Deposit!Loaded /\ allowanceStatus = "insufficient"
        /\ depositStatus \notin {"approving", "loading"} /\ depositStatus' = "approving"
        /\ approvals' = approvals \cup {player}
        /\ UNCHANGED <<matchDetails, allowanceStatus, fetches, checks, deposits, moves>>
    BY <1>7 DEF Deposit!HandleApprove, Deposit!ApproveEnabled
  <2>2. /\ IsFiniteSet(approvals') /\ Cardinality(approvals') \in Nat
        /\ Cardinality(approvals') <= Cardinality(approvals) + 1
    BY <1>a, <2>1, OneMore
  <2>3. /\ Click + Approve = 1
        /\ Click' = 0 /\ Approve' = 0
        /\ Wait = 0 /\ Wait' = 0
    BY <2>1, <1>d
      DEF DepositStatuses, Click, Approve, Wait, Clickable, Approvable, CheckExpected, Settled,
          Undecided, Approving
  <2>8. CallsOut' + Click' + Approve' <= 1 + moves' + Wait'
    BY <1>a, <1>e, <1>c, <2>1, <2>2, <2>3 DEF CallsOut
  <2>9. Deposit!Loaded' \/ (approvals' = {} /\ Approving' = {})
    BY <1>b, <1>c, <2>1, <2>2, <2>3 DEF Deposit!Loaded, Approving
  <2> QED BY <1>a, <1>b, <1>c, <2>1, <2>2, <2>3, <1>d, <2>8, <2>9, Kept
      DEF Settled, DepositStatuses
<1>8. ASSUME NEW p \in approvals, Deposit!ApprovalDone(p) PROVE DepositInv'
  <2>1. /\ approvals' = approvals \ {p}
        /\ UNCHANGED <<matchDetails, depositStatus, fetches, deposits, moves>>
        /\ IF hasChecker
             THEN /\ allowanceStatus' = "checking"
                  /\ checks' = checks \cup {[player |-> p, approving |-> TRUE]}
             ELSE allowanceStatus' = "sufficient" /\ checks' = checks
    BY <1>8 DEF Deposit!ApprovalDone, Deposit!VerifyAllowance
  <2>2. /\ IsFiniteSet(approvals') /\ Cardinality(approvals') \in Nat
        /\ Cardinality(approvals') = Cardinality(approvals) - 1
    BY <1>a, <2>1, OneLess
  <2>3. /\ IsFiniteSet(checks') /\ Cardinality(checks') \in Nat
        /\ Cardinality(checks') <= Cardinality(checks) + 1
        /\ (~ hasChecker => Cardinality(checks') = Cardinality(checks))
    <3>1. CASE hasChecker
      BY <1>a, <2>1, <3>1, OneMore
    <3>2. CASE ~ hasChecker
      BY <1>a, <2>1, <3>2
    <3> QED BY <3>1, <3>2
  <2>4. /\ (IF hasChecker THEN 1 ELSE 0) + Click' + Approve' + Wait
             <= Click + Approve + Wait' + 1
    <3>1. CASE hasChecker
      <4>1. /\ allowanceStatus' = "checking" /\ CheckExpected => Settled /\ CheckExpected'
        BY <2>1, <3>1 DEF CheckExpected, Settled, Approving
      <4> QED BY <2>1, <3>1, <4>1
          DEF DepositStatuses, Click, Approve, Wait, Clickable, Approvable, Settled, Undecided
    <3>2. CASE ~ hasChecker
      BY <2>1, <3>2
        DEF DepositStatuses, Click, Approve, Wait, Clickable, Approvable, CheckExpected, Settled,
            Undecided, Approving
    <3> QED BY <3>1, <3>2
  <2>5. Deposit!Loaded
    BY <1>b, <1>8
  <2>8. CallsOut' + Click' + Approve' <= 1 + moves' + Wait'
    BY <1>a, <1>e, <1>c, <2>1, <2>2, <2>3, <2>4, <2>5 DEF CallsOut
  <2>9. Deposit!Loaded' \/ (approvals' = {} /\ Approving' = {})
    BY <1>b, <1>c, <2>1, <2>2, <2>3, <2>4, <2>5 DEF Deposit!Loaded, Approving
  <2> QED BY <1>a, <1>b, <1>c, <2>1, <2>2, <2>3, <2>4, <2>5, <1>d, <2>8, <2>9, Kept
      DEF Settled, DepositStatuses
<1>9. ASSUME NEW p \in approvals, Deposit!ApprovalFails(p) PROVE DepositInv'
  <2>1. /\ approvals' = approvals \ {p} /\ Settled'
        /\ UNCHANGED <<matchDetails, allowanceStatus, fetches, checks, deposits, moves>>
    BY <1>9 DEF Deposit!ApprovalFails, Settled
  <2>2. /\ IsFiniteSet(approvals') /\ Cardinality(approvals') \in Nat
        /\ Cardinality(approvals') = Cardinality(approvals) - 1
    BY <1>a, <2>1, OneLess
  <2>3. /\ Click' = 1 /\ Approve' = 0
        /\ Wait <= Wait'
    BY <2>1
      DEF DepositStatuses, Click, Approve, Wait, Clickable, Approvable, CheckExpected, Settled,
          Undecided, Approving
  <2>8. CallsOut' + Click' + Approve' <= 1 + moves' + Wait'
    BY <1>a, <1>e, <1>c, <2>1, <2>2, <2>3 DEF CallsOut
  <2>9. Deposit!Loaded' \/ (approvals' = {} /\ Approving' = {})
    BY <1>b, <1>c, <2>1, <2>2, <2>3 DEF Deposit!Loaded, Approving
  <2> QED BY <1>a, <1>b, <1>c, <2>1, <2>2, <2>3, <1>d, <2>8, <2>9, Kept
      DEF Settled, DepositStatuses
<1>10. CASE Deposit!HandleDeposit
  <2> DEFINE d == [target |-> target, player |-> player, click |-> Deposit!Cardinality(deposits)]
  <2>1. /\ Deposit!Loaded /\ Clickable /\ ~ Undecided
        /\ \/ depositStatus' = "error" /\ deposits' = deposits
           \/ depositStatus' = "pending" /\ deposits' = deposits \cup {d}
        /\ UNCHANGED <<matchDetails, allowanceStatus, fetches, checks, approvals, moves>>
    BY <1>10, <1>d
      DEF Deposit!HandleDeposit, Deposit!DepositDisabled, Clickable, Settled, Undecided,
          DepositStatuses
  <2> HIDE DEF d
  <2>2. /\ IsFiniteSet(deposits') /\ Cardinality(deposits') \in Nat
        /\ depositStatus' = "error" => Cardinality(deposits') = Cardinality(deposits)
        /\ Cardinality(deposits') <= Cardinality(deposits) + 1
    <3>1. CASE deposits' = deposits
      BY <1>a, <3>1
    <3>2. CASE depositStatus' = "pending" /\ deposits' = deposits \cup {d}
      BY <1>a, <3>2, OneMore
    <3> QED BY <2>1, <3>1, <3>2
  <2>3. /\ Click = 1 /\ Click' = IF depositStatus' = "error" THEN 1 ELSE 0
        /\ Approve' = 0 /\ Wait = 0 /\ Wait' = 0
    BY <2>1
      DEF DepositStatuses, Click, Approve, Wait, Clickable, Approvable, CheckExpected, Settled,
          Undecided, Approving
  <2>8. CallsOut' + Click' + Approve' <= 1 + moves' + Wait'
    BY <1>a, <1>e, <1>c, <2>1, <2>2, <2>3 DEF CallsOut
  <2>9. Deposit!Loaded' \/ (approvals' = {} /\ Approving' = {})
    BY <1>b, <1>c, <2>1, <2>2, <2>3 DEF Deposit!Loaded, Approving
  <2> QED BY <1>a, <1>b, <1>c, <2>1, <2>2, <2>3, <1>d, <2>8, <2>9, Kept
      DEF Settled, DepositStatuses
<1>11. ASSUME NEW d \in deposits, NEW confirmed \in BOOLEAN,
              Deposit!DepositDone(d) \/ Deposit!DepositFails(d, confirmed)
       PROVE  DepositInv'
  <2>1. /\ deposits' = deposits \ {d} /\ Settled'
        /\ UNCHANGED <<matchDetails, allowanceStatus, fetches, checks, approvals, moves>>
    BY <1>11 DEF Deposit!DepositDone, Deposit!DepositFails, Settled
  <2>2. /\ IsFiniteSet(deposits') /\ Cardinality(deposits') \in Nat
        /\ Cardinality(deposits') = Cardinality(deposits) - 1
    BY <1>a, <2>1, OneLess
  <2>3. /\ Click' = 1 /\ Approve' = 0
        /\ Wait <= Wait'
    BY <2>1
      DEF DepositStatuses, Click, Approve, Wait, Clickable, Approvable, CheckExpected, Settled,
          Undecided, Approving
  <2>8. CallsOut' + Click' + Approve' <= 1 + moves' + Wait'
    BY <1>a, <1>e, <1>c, <2>1, <2>2, <2>3 DEF CallsOut
  <2>9. Deposit!Loaded' \/ (approvals' = {} /\ Approving' = {})
    BY <1>b, <1>c, <2>1, <2>2, <2>3 DEF Deposit!Loaded, Approving
  <2> QED BY <1>a, <1>b, <1>c, <2>1, <2>2, <2>3, <1>d, <2>8, <2>9, Kept
      DEF Settled, DepositStatuses
<1>12. CASE Deposit!TargetChanges
  <2>1. PICK t \in Targets : Deposit!FetchMatchDetails(t)
    BY <1>12 DEF Deposit!TargetChanges
  <2>2. /\ fetches' = fetches \cup {[target |-> t, got |-> None]} /\ depositStatus' = "loading"
        /\ moves' = moves + 1
        /\ UNCHANGED <<matchDetails, allowanceStatus, checks, approvals, deposits>>
    BY <1>12, <2>1 DEF Deposit!TargetChanges, Deposit!FetchMatchDetails
  <2>3. /\ IsFiniteSet(fetches') /\ Cardinality(fetches') \in Nat
        /\ Cardinality(fetches') <= Cardinality(fetches) + 1
    BY <1>a, <2>2, OneMore
  <2>4. Chance' <= Chance
    BY <2>2
      DEF Chance, DepositStatuses, Click, Approve, Wait, Clickable, Approvable, CheckExpected,
          Settled, Undecided, Approving
  <2>5. /\ Cardinality(deposits') = Cardinality(deposits)
        /\ Cardinality(checks') = Cardinality(checks)
        /\ Cardinality(approvals') = Cardinality(approvals) /\ moves' = moves + 1
    BY <2>2
  <2>8. CallsOut' + Click' + Approve' <= 1 + moves' + Wait'
    <3> DEFINE room == 1 + moves - CallsOut
           left == 1 + moves' - CallsOut'
    <3>1. room \in Int /\ left \in Int /\ Chance <= room /\ room <= left
      BY <1>a, <1>e, <1>f, <2>3, <2>4, <2>5 DEF Chance, CallsOut
    <3> HIDE DEF room, left
    <3>2. Chance' <= left
      BY <1>g, <3>1, <2>4
    <3> QED BY <1>a, <1>f, <3>2, <2>3, <2>4, <2>5 DEF left, Chance, CallsOut
  <2>9. Deposit!Loaded' \/ (approvals' = {} /\ Approving' = {})
    BY <1>b, <1>c, <2>2, <2>3, <2>4 DEF Deposit!Loaded, Approving
  <2> QED BY <1>a, <1>b, <1>c, <2>2, <2>3, <2>4, <1>d, <2>8, <2>9, Kept
      DEF Settled, DepositStatuses
<1>13. CASE Deposit!PlayerChanges
  <2>1. /\ moves' = moves + 1
        /\ UNCHANGED <<matchDetails, depositStatus, fetches, approvals, deposits>>
    BY <1>13 DEF Deposit!PlayerChanges
  <2>2. CASE UNCHANGED <<allowanceStatus, checks>>
    <3>1. /\ Click' = Click /\ Approve' = Approve
          /\ Wait' = Wait
      BY <2>1, <2>2
        DEF DepositStatuses, Click, Approve, Wait, Clickable, Approvable, CheckExpected, Settled,
            Undecided, Approving
    <3>8. CallsOut' + Click' + Approve' <= 1 + moves' + Wait'
      BY <1>a, <1>e, <1>c, <2>1, <2>2, <3>1 DEF CallsOut
    <3>9. Deposit!Loaded' \/ (approvals' = {} /\ Approving' = {})
      BY <1>b, <1>c, <2>1, <2>2, <3>1 DEF Deposit!Loaded, Approving
    <3> QED BY <1>a, <1>b, <1>c, <2>1, <2>2, <3>1, <1>d, <3>8, <3>9, Kept
        DEF Settled, DepositStatuses
  <2>3. CASE hasChecker /\ Deposit!VerifyAllowance(player', FALSE)
    <3> DEFINE c == [player |-> player', approving |-> FALSE]
    <3>1. allowanceStatus' = "checking" /\ checks' = checks \cup {c} /\ ~ c.approving
      BY <2>3 DEF Deposit!VerifyAllowance
    <3> HIDE DEF c
    <3>2. /\ IsFiniteSet(checks') /\ Cardinality(checks') \in Nat
          /\ Cardinality(checks') <= Cardinality(checks) + 1
      BY <1>a, <3>1, OneMore
    <3>3. Approving' = Approving /\ checks' # Approving'
      BY <3>1 DEF Approving
    <3>4. /\ Click' <= Click /\ Approve' = 0
          /\ Wait <= Wait'
      BY <2>1, <3>1, <3>3
        DEF DepositStatuses, Click, Approve, Wait, Clickable, Approvable, CheckExpected, Settled,
            Undecided
    <3>8. CallsOut' + Click' + Approve' <= 1 + moves' + Wait'
      BY <1>a, <1>e, <1>c, <2>1, <3>1, <3>2, <3>3, <3>4 DEF CallsOut
    <3>9. Deposit!Loaded' \/ (approvals' = {} /\ Approving' = {})
      BY <1>b, <1>c, <2>1, <3>1, <3>2, <3>3, <3>4 DEF Deposit!Loaded, Approving
    <3> QED BY <1>a, <1>b, <1>c, <2>1, <3>1, <3>2, <3>3, <3>4, <1>d, <3>8, <3>9, Kept
        DEF Settled, DepositStatuses
  <2>4. CASE ~ hasChecker /\ Deposit!VerifyAllowance(player', FALSE)
    <3>1. allowanceStatus' = "sufficient" /\ checks' = checks
      BY <2>4 DEF Deposit!VerifyAllowance
    <3>2. Chance' <= Chance + 1
      BY <2>1, <3>1
        DEF Chance, DepositStatuses, Click, Approve, Wait, Clickable, Approvable, CheckExpected,
            Settled, Undecided, Approving
    <3>3. /\ Cardinality(deposits') = Cardinality(deposits)
          /\ Cardinality(checks') = Cardinality(checks)
          /\ Cardinality(fetches') = Cardinality(fetches)
          /\ Cardinality(approvals') = Cardinality(approvals) /\ moves' = moves + 1
      BY <2>1, <3>1
    <3>8. CallsOut' + Click' + Approve' <= 1 + moves' + Wait'
      <4> DEFINE room == 1 + moves - CallsOut
             left == 1 + moves' - CallsOut'
      <4>1. room \in Int /\ left \in Int /\ Chance <= room /\ room + 1 <= left
        BY <1>a, <1>e, <1>f, <3>2, <3>3 DEF Chance, CallsOut
      <4> HIDE DEF room, left
      <4>2. Chance' <= left
        BY <1>g, <4>1, <3>2
      <4> QED BY <1>a, <1>f, <4>2, <3>2, <3>3 DEF left, Chance, CallsOut
    <3>9. Deposit!Loaded' \/ (approvals' = {} /\ Approving' = {})
      BY <1>b, <1>c, <2>1, <3>1, <3>2 DEF Deposit!Loaded, Approving
    <3> QED BY <1>a, <1>b, <1>c, <2>1, <3>1, <3>2, <1>d, <3>8, <3>9, Kept
        DEF Settled, DepositStatuses
  <2> QED BY <1>13, <2>2, <2>3, <2>4 DEF Deposit!PlayerChanges
<1> HIDE DEF Deposit!propVars, Deposit!pageVars, Deposit!callVars, Deposit!worldVars
<1> QED
  BY <1>1, <1>2, <1>3, <1>4, <1>5, <1>6, <1>7, <1>8, <1>9, <1>10, <1>11, <1>12, <1>13
  DEF Deposit!Next

\* One deposit is in flight, and one more at most for each time the page was
\* given another match, network or account, whatever is answered, approved,
\* refused or repeated meanwhile (DepositStake.tsx).
THEOREM DepositsAreFew == FrontSpec => []OneDepositInFlight
<1>1. DepositInv => OneDepositInFlight
  <2> SUFFICES ASSUME DepositInv PROVE Cardinality(deposits) <= 1 + moves
    BY DEF OneDepositInFlight, Deposit!OneDepositInFlight, Deposit!Cardinality, Cardinality
  <2>1. /\ Cardinality(deposits) \in Nat /\ Cardinality(fetches) \in Nat
        /\ Cardinality(approvals) \in Nat
        /\ Cardinality(checks) \in Nat /\ moves \in Nat
    BY FS_CardinalityType DEF DepositInv
  <2>2. CheckExpected => Cardinality(checks) > 0
    BY <2>1, FS_EmptySet DEF CheckExpected, Approving, DepositInv
  <2> QED BY <2>1, <2>2 DEF DepositInv, CallsOut, Click, Approve, Wait
<1> QED BY <1>1, DepositSteps, DepositInvInit, DepositInvNext, PTL

-----------------------------------------------------------------------------
(* The claim form: ClaimBurn.                                              *)

\* Of each behaviour of the application, the claim form's part.
LEMMA ClaimSteps == FrontSpec => Claim!Init /\ [][Claim!Next]_claimVars
<1>1. FrontInit => Claim!Init
  BY DEF FrontInit
<1>2. [FrontNext]_vars => [Claim!Next]_claimVars
  BY DEF FrontNext, vars, claimVars
<1> QED BY <1>1, <1>2, PTL DEF FrontSpec

\* The overlay that is open, as a number of calls that may still be made.
Overlay == IF claimStatus = "confirm" THEN 1 ELSE 0

\* The calls that are out; and no call is out for a form at rest, unless the
\* wallet changed.
ClaimCalls == Cardinality(simulations) + Cardinality(transactions)
FormAtRest == claimStatus \in {"idle", "error", "success"}

\* The values the form's variables take.
ClaimTypes ==
  /\ mode \in Claim!Modes /\ switches \in Nat
  /\ publicKey \in Keys \cup {None}
  /\ inputAmount \in Figures \cup {None}
  /\ claimStatus \in {"idle", "error", "success", "confirm", "simulating", "pending"}
  /\ simulations \in SUBSET Claim!Priced /\ IsFiniteSet(simulations)
  /\ IsFiniteSet(transactions)

\* An open overlay may send one transaction, so it is counted with the calls.
\* It shows the figure of the price it was opened for, and, while no wallet has
\* changed, of the form and the wallet as they are; every transaction was
\* confirmed on such an overlay.
ClaimInv ==
  /\ ClaimTypes
  /\ ClaimCalls + Overlay <= 1 + switches
  /\ FormAtRest => ClaimCalls <= switches
  /\ claimStatus = "confirm" => estimatedFee # None /\ confirmAmount = estimatedFee.amount
  /\ switches = 0 =>
       /\ \A s \in simulations : claimStatus = "simulating" /\ s.mode = mode /\ s.key = publicKey
       /\ claimStatus = "confirm" => estimatedFee.mode = mode /\ estimatedFee.key = publicKey
  /\ \A t \in transactions :
       /\ t.fee # None /\ t.fee.amount = t.amount
       /\ t.at = 0 => t.fee.mode = t.mode /\ t.fee.key = t.key

\* The form counts as this module does.
LEMMA ClaimCounts == \A S : Claim!Cardinality(S) = Cardinality(S)
BY DEF Claim!Cardinality, Cardinality

\* The form starts with no call.
LEMMA ClaimInvInit == Claim!Init => ClaimInv
<1> SUFFICES ASSUME Claim!Init PROVE ClaimInv
  OBVIOUS
<1>1. Cardinality(simulations) = 0 /\ Cardinality(transactions) = 0
      /\ IsFiniteSet(simulations) /\ IsFiniteSet(transactions)
  BY FS_EmptySet DEF Claim!Init
<1> QED
  BY <1>1 DEF Claim!Init, ClaimInv, ClaimTypes, ClaimCalls, Overlay, FormAtRest, Claim!Modes

\* Every step of the form keeps the invariant.
LEMMA ClaimInvNext ==
  ASSUME ClaimInv, [Claim!Next]_claimVars
  PROVE  ClaimInv'
<1> USE DEF ClaimInv, ClaimTypes
<1>a. MaxSwitches \in Nat /\ None \notin Figures /\ None \notin Claim!Priced
  BY FrontAssumption DEF Claim!ClaimAssumption
<1>b. Cardinality(simulations) \in Nat /\ Cardinality(transactions) \in Nat
  BY FS_CardinalityType
<1>1. ASSUME NEW m \in Claim!Modes, Claim!HandleToggle(m) PROVE ClaimInv'
  BY <1>1, <1>b
    DEF Claim!HandleToggle, Claim!walletVars, Claim!IsBusy, ClaimCalls, Overlay, FormAtRest
<1>2. ASSUME NEW a \in Figures \cup {None}, NEW max \in BOOLEAN, Claim!HandleAmountChange(a, max)
      PROVE  ClaimInv'
  BY <1>2, <1>b
    DEF Claim!HandleAmountChange, Claim!walletVars, Claim!IsBusy, ClaimCalls, Overlay, FormAtRest
<1>3. ASSUME Claim!HandleRequestSubmit PROVE ClaimInv'
  <2> DEFINE s == [mode |-> mode, amount |-> inputAmount, key |-> publicKey,
                   at |-> switches, call |-> Cardinality(simulations)]
  <2>1. /\ UNCHANGED <<mode, inputAmount, confirmAmount, publicKey, switches, transactions>>
        /\ claimStatus \notin {"pending", "simulating"}
    BY <1>3 DEF Claim!HandleRequestSubmit, Claim!walletVars, Claim!IsBusy
  <2>2. CASE inputAmount = None
    <3>1. claimStatus' = "error" /\ UNCHANGED <<estimatedFee, simulations>>
      BY <1>3, <2>2 DEF Claim!HandleRequestSubmit
    <3>2. claimStatus = "confirm"
      BY <1>3, <2>2 DEF Claim!HandleRequestSubmit
    <3> QED BY <2>1, <3>1, <3>2, <1>b DEF ClaimCalls, Overlay, FormAtRest
  <2>3. CASE inputAmount # None
    <3>1. claimStatus' = "simulating" /\ simulations' = simulations \cup {s}
      BY <1>3, <2>3, ClaimCounts DEF Claim!HandleRequestSubmit
    <3>2. s \in Claim!Priced /\ s.mode = mode /\ s.key = publicKey
      BY <2>3, <1>b DEF Claim!Priced
    <3> HIDE DEF s
    <3>3. /\ IsFiniteSet(simulations') /\ Cardinality(simulations') \in Nat
          /\ Cardinality(simulations') <= Cardinality(simulations) + 1
      BY <3>1, OneMore
    <3>4. ClaimCalls' + Overlay' <= 1 + switches'
      BY <2>1, <3>1, <3>3, <1>b DEF ClaimCalls, Overlay, FormAtRest
    <3>5. switches = 0 => simulations = {}
      BY <2>1
    <3> QED BY <2>1, <3>1, <3>2, <3>3, <3>4, <3>5 DEF FormAtRest
  <2> QED BY <2>2, <2>3
<1>4. ASSUME NEW s \in simulations, Claim!SimulationAnswers(s) PROVE ClaimInv'
  <2>1. /\ simulations' = simulations \ {s} /\ confirmAmount' = s.amount /\ estimatedFee' = s
        /\ claimStatus' = "confirm"
        /\ UNCHANGED <<mode, inputAmount, publicKey, switches, transactions>>
    BY <1>4 DEF Claim!SimulationAnswers, Claim!walletVars
  <2>2. /\ IsFiniteSet(simulations') /\ Cardinality(simulations') \in Nat
        /\ Cardinality(simulations') = Cardinality(simulations) - 1
    BY <2>1, OneLess
  <2>3. s # None
    BY <1>a
  <2>4. ClaimCalls' + Overlay' <= 1 + switches'
    BY <2>1, <2>2, <1>b DEF ClaimCalls, Overlay
  <2>5. switches = 0 => simulations' = {}
    <3>1. switches = 0 => Cardinality(simulations) = 1
      BY <2>2, <1>b DEF ClaimCalls, Overlay
    <3> QED BY <3>1, <2>2, FS_EmptySet
  <2> QED BY <2>1, <2>2, <2>3, <2>4, <2>5 DEF FormAtRest
<1>5. ASSUME NEW s \in simulations, Claim!SimulationFails(s) PROVE ClaimInv'
  <2>1. /\ simulations' = simulations \ {s} /\ claimStatus' = "error"
        /\ UNCHANGED <<mode, inputAmount, publicKey, switches, transactions, estimatedFee>>
    BY <1>5 DEF Claim!SimulationFails, Claim!walletVars
  <2>2. /\ IsFiniteSet(simulations') /\ Cardinality(simulations') \in Nat
        /\ Cardinality(simulations') = Cardinality(simulations) - 1
    BY <2>1, OneLess
  <2>3. ClaimCalls' <= switches' /\ Overlay' = 0
    BY <2>1, <2>2, <1>b DEF ClaimCalls, Overlay
  <2>4. switches = 0 => simulations' = {}
    BY <2>1, <2>2, <2>3, <1>b, FS_EmptySet DEF ClaimCalls
  <2>5. ClaimCalls' \in Nat /\ simulations' \subseteq simulations /\ switches \in Nat
    BY <2>1, <2>2, <1>b DEF ClaimCalls
  <2> HIDE DEF ClaimInv
  <2>6. ClaimTypes'
    BY <2>1, <2>2, <2>5 DEF ClaimInv
  <2>7. ClaimCalls' + Overlay' <= 1 + switches'
    BY <2>1, <2>2, <2>3, <2>5, <1>b DEF ClaimCalls, Overlay
  <2> QED BY <2>1, <2>3, <2>4, <2>6, <2>7 DEF ClaimInv
<1>6. ASSUME Claim!HandleConfirm PROVE ClaimInv'
  <2> DEFINE t == [mode |-> mode, amount |-> confirmAmount, key |-> publicKey, at |-> switches,
                   fee |-> estimatedFee, call |-> Cardinality(transactions)]
  <2>1. /\ claimStatus = "confirm" /\ claimStatus' = "pending"
        /\ transactions' = transactions \cup {t}
        /\ UNCHANGED <<mode, inputAmount, confirmAmount, estimatedFee, publicKey, switches,
                       simulations>>
    BY <1>6, ClaimCounts DEF Claim!HandleConfirm, Claim!walletVars
  <2>2. /\ t.fee # None /\ t.fee.amount = t.amount
        /\ t.at = 0 => t.fee.mode = t.mode /\ t.fee.key = t.key
    BY <2>1
  <2> HIDE DEF t
  <2>3. /\ IsFiniteSet(transactions') /\ Cardinality(transactions') \in Nat
        /\ Cardinality(transactions') <= Cardinality(transactions) + 1
    BY <2>1, OneMore
  <2>4. ClaimCalls' + Overlay' <= 1 + switches'
    BY <2>1, <2>3, <1>b DEF ClaimCalls, Overlay
  <2>5. switches = 0 => simulations' = {}
    BY <2>1
  <2> QED BY <2>1, <2>2, <2>3, <2>4, <2>5 DEF FormAtRest
<1>7. CASE Claim!HandleCancel
  BY <1>7, <1>b DEF Claim!HandleCancel, Claim!walletVars, ClaimCalls, Overlay, FormAtRest
<1>8. CASE Claim!AutoDismiss
  BY <1>8, <1>b DEF Claim!AutoDismiss, Claim!walletVars, ClaimCalls, Overlay, FormAtRest
<1>9. ASSUME NEW t \in transactions, NEW c \in BOOLEAN, Claim!Receipt(t, c) PROVE ClaimInv'
  <2>1. /\ transactions' = transactions \ {t} /\ claimStatus' \in {"success", "error"}
        /\ inputAmount' \in {inputAmount, None}
        /\ UNCHANGED <<mode, confirmAmount, estimatedFee, publicKey, switches, simulations>>
    BY <1>9 DEF Claim!Receipt, Claim!walletVars
  <2>2. /\ IsFiniteSet(transactions') /\ Cardinality(transactions') \in Nat
        /\ Cardinality(transactions') = Cardinality(transactions) - 1
    BY <2>1, OneLess
  <2>3. ClaimCalls' <= switches' /\ Overlay' = 0 /\ ClaimCalls' \in Nat
    BY <2>1, <2>2, <1>b DEF ClaimCalls, Overlay
  <2>4. switches = 0 => simulations' = {}
    BY <2>1, <2>2, <2>3, <1>b, FS_EmptySet DEF ClaimCalls
  <2> HIDE DEF ClaimInv
  <2>5. ClaimTypes'
    BY <2>1, <2>2, <1>b DEF ClaimInv
  <2>6. ClaimCalls' + Overlay' <= 1 + switches'
    BY <2>1, <2>3, <1>b DEF ClaimInv
  <2>7. ~ (claimStatus' = "confirm") /\ (FormAtRest' => ClaimCalls' <= switches')
    BY <2>1, <2>3
  <2>8. \A u \in transactions' :
          /\ u.fee # None /\ u.fee.amount = u.amount
          /\ u.at = 0 => u.fee.mode = u.mode /\ u.fee.key = u.key
    BY <2>1 DEF ClaimInv
  <2> QED BY <2>1, <2>4, <2>5, <2>6, <2>7, <2>8 DEF ClaimInv
<1>10. ASSUME NEW k \in Keys \cup {None}, NEW w \in {"connected", "wrongNetwork", "disconnected"},
              Claim!WalletChanges(k, w)
       PROVE  ClaimInv'
  BY <1>10, <1>b DEF Claim!WalletChanges, ClaimCalls, Overlay, FormAtRest
<1>11. CASE UNCHANGED claimVars
  BY <1>11 DEF claimVars, ClaimCalls, Overlay, FormAtRest
<1> QED
  BY <1>1, <1>2, <1>3, <1>4, <1>5, <1>6, <1>7, <1>8, <1>9, <1>10, <1>11 DEF Claim!Next

\* What is sent is what was priced and confirmed: of its amount, its mode and
\* its wallet, unless the wallet has changed since; and no more than one
\* transaction is out for each change of the wallet, and one more (claim-
\* burn.tsx).
THEOREM ClaimsAreAsPriced == FrontSpec => []SentAsPriced
<1>1. ClaimInv => SentAsPriced
  <2> SUFFICES ASSUME ClaimInv PROVE SentAsPriced
    OBVIOUS
  <2>1. Cardinality(simulations) \in Nat /\ Cardinality(transactions) \in Nat
    BY FS_CardinalityType DEF ClaimInv, ClaimTypes
  <2>2. Cardinality(transactions) <= 1 + switches
    BY <2>1 DEF ClaimInv, ClaimTypes, ClaimCalls, Overlay
  <2> QED BY <2>2 DEF ClaimInv, SentAsPriced, Claim!SentAsPriced, Claim!Cardinality, Cardinality
<1> QED BY <1>1, ClaimSteps, ClaimInvInit, ClaimInvNext, PTL

-----------------------------------------------------------------------------
(* The wallet session: WalletSession.                                      *)

\* Of each behaviour of the application, the wallet session's part.
LEMMA WalletSteps == FrontSpec => Wallet!Init /\ [][Wallet!Next]_walletVars
<1>1. FrontInit => Wallet!Init
  BY DEF FrontInit
<1>2. [FrontNext]_vars => [Wallet!Next]_walletVars
  BY DEF FrontNext, vars, walletVars
<1> QED BY <1>1, <1>2, PTL DEF FrontSpec

\* A question put to the extension.
Question ==
  [kind : {"change", "connect"}, asks : {"isConnected", "getPublicKey", "getNetwork"},
   key : Accounts \cup {None}, failed : BOOLEAN,
   got : {None} \cup [account : Accounts \cup {None}, network : Networks]]

\* A fetch of the balance of the account and the network that the wallet has
\* now.
OwnBalance == [of |-> wallet.account, on |-> wallet.network]

\* Of a queue of questions s and what the wallet w is now: what is read from the n-th on is w.
FreshFrom(s, w, n) == \A i \in n .. Len(s) : s[i].got \in {None, w}

\* A question of a run that a change of the wallet started; and one about the
\* account w has.
Changed(q, asks) == q.kind = "change" /\ q.asks = asks
OfWallet(q, w) == q.asks = "getNetwork" /\ q.key = w.account

\* The run of the wallet's last change is in the queue before its account was
\* read, and it and what follows it read the wallet w.
Asked(s, w) == \E i \in 1 .. Len(s) : Changed(s[i], "isConnected") /\ FreshFrom(s, w, i)

\* The same, once the run asks for the account: all that is in the queue is
\* about w.
Heard(s, w) ==
  FreshFrom(s, w, 1) /\ \E i \in 1 .. Len(s) : Changed(s[i], "getPublicKey")

\* A question whose answer is going to show w is in the queue, and none about
\* another account is last.
Coming(s, w) == \E i \in 1 .. Len(s) : OfWallet(s[i], w)
Covered(s, w) ==
  \A i \in 1 .. Len(s) :
    s[i].asks = "getNetwork" => \E j \in i .. Len(s) : OfWallet(s[j], w)

\* The page shows the network the wallet has, and its balance is its own or is
\* being fetched.
Shown ==
  /\ network = wallet.network /\ balanceFetches \subseteq {OwnBalance}
  /\ balanceFetches = {} => balance \in {None, OwnBalance}

\* The page shows the wallet's account or none, and is going to show the rest
\* of it.
Told ==
  /\ FreshFrom(runs, wallet, 1) /\ address \in {None, wallet.account}
  /\ address # None => Covered(runs, wallet)
  /\ status \in {"connected", "wrongNetwork"} /\ address # None =>
       Shown \/ Coming(runs, wallet)

\* The values the session's variables take.
WalletTypes ==
  /\ events \in Nat /\ runs \in Seq(Question)
  /\ wallet \in [account : Accounts \cup {None}, network : Networks]

\* Once the extension has reported every change, the last of them is being
\* asked about, its account is being asked for, or the page has been told of
\* it.
WalletInv ==
  WalletTypes /\ (events = 0 => Asked(runs, wallet) \/ Heard(runs, wallet) \/ Told)

\* No wallet is shown at first.
LEMMA WalletInvInit == Wallet!Init => WalletInv
BY EmptySeq DEF Wallet!Init, WalletInv, WalletTypes, Told, FreshFrom, Covered

\* t is s with q at its end; s without its head; s with its i-th question answered; and s with q
\* at its end and no head.
Longer(s, q, t) ==
  /\ Len(t) = Len(s) + 1 /\ t[Len(s) + 1] = q
  /\ \A i \in 1 .. Len(s) : t[i] = s[i]
Rest(s, t) == Len(t) = Len(s) - 1 /\ \A i \in 1 .. Len(s) - 1 : t[i] = s[i + 1]
Answered(s, w, i, fails, t) == t = [s EXCEPT ![i].got = w, ![i].failed = fails]
Rotated(s, q, t) ==
  /\ Len(t) = Len(s) /\ t[Len(s)] = q
  /\ \A i \in 1 .. Len(s) - 1 : t[i] = s[i + 1]

\* What appending, taking and turning a question does to a queue.
LEMMA Appended ==
  ASSUME NEW S, NEW s \in Seq(S), NEW q \in S
  PROVE  Append(s, q) \in Seq(S) /\ Longer(s, q, Append(s, q))
BY AppendProperties, LenProperties DEF Longer

LEMMA Dropped ==
  ASSUME NEW S, NEW s \in Seq(S), s # << >>
  PROVE  Tail(s) \in Seq(S) /\ Len(s) \in Nat \ {0} /\ s[1] \in S /\ Rest(s, Tail(s))
BY HeadTailProperties, EmptySeq, LenProperties DEF Rest

LEMMA Turned ==
  ASSUME NEW S, NEW s \in Seq(S), s # << >>, NEW q \in S
  PROVE  Append(Tail(s), q) \in Seq(S) /\ Rotated(s, q, Append(Tail(s), q))
<1> DEFINE r == Tail(s)
           t == Append(r, q)
<1>1. r \in Seq(S) /\ Len(s) \in Nat \ {0} /\ Rest(s, r)
  BY Dropped
<1>2. t \in Seq(S) /\ Longer(r, q, t)
  BY <1>1, Appended
<1> HIDE DEF r, t
<1> QED BY <1>1, <1>2 DEF Rest, Longer, Rotated

\* What is asked is a question.
LEMMA Questions ==
  ASSUME NEW k \in {"change", "connect"},
         NEW a \in {"isConnected", "getPublicKey", "getNetwork"},
         NEW c \in Accounts \cup {None}
  PROVE  Wallet!Ask(k, a, c) \in Question
BY DEF Wallet!Ask, Question

\* A question at the end of the queue leaves what was asked, heard and coming.
LEMMA Grown ==
  ASSUME NEW s \in Seq(Question), NEW w, NEW q \in Question, q.got = None, q.asks # "getNetwork",
         NEW t \in Seq(Question), Longer(s, q, t)
  PROVE  /\ Asked(s, w) => Asked(t, w)
         /\ Heard(s, w) => Heard(t, w)
         /\ FreshFrom(s, w, 1) => FreshFrom(t, w, 1)
         /\ Covered(s, w) => Covered(t, w)
         /\ Coming(s, w) => Coming(t, w)
<1>1. /\ Len(t) = Len(s) + 1 /\ Len(s) \in Nat
      /\ \A i \in 1 .. Len(s) : t[i] = s[i]
      /\ t[Len(s) + 1] = q
  BY LenProperties DEF Longer
<1>2. \A n \in 1 .. Len(s) : FreshFrom(s, w, n) => FreshFrom(t, w, n)
  BY <1>1 DEF FreshFrom
<1>3. FreshFrom(s, w, 1) => FreshFrom(t, w, 1)
  BY <1>1 DEF FreshFrom
<1>4. Asked(s, w) => Asked(t, w)
  BY <1>1, <1>2 DEF Asked, Changed
<1>5. Heard(s, w) => Heard(t, w)
  BY <1>1, <1>3 DEF Heard, Changed
<1>6. Covered(s, w) => Covered(t, w)
  BY <1>1 DEF Covered, OfWallet
<1>7. Coming(s, w) => Coming(t, w)
  BY <1>1 DEF Coming, OfWallet
<1> QED BY <1>1, <1>3, <1>4, <1>5, <1>6, <1>7

\* Taking the first question leaves them, unless it was the one.
LEMMA Shrunk ==
  ASSUME NEW s \in Seq(Question), NEW w, Len(s) > 0, NEW t \in Seq(Question), Rest(s, t)
  PROVE  /\ s[1] \in Question
         /\ FreshFrom(s, w, 1) => FreshFrom(t, w, 1) /\ s[1].got \in {None, w}
         /\ Asked(s, w) => Asked(t, w) \/ (Changed(s[1], "isConnected") /\ FreshFrom(s, w, 1))
         /\ Heard(s, w) => Heard(t, w) \/ Changed(s[1], "getPublicKey")
         /\ Covered(s, w) => Covered(t, w)
         /\ Coming(s, w) => Coming(t, w) \/ OfWallet(s[1], w)
<1>1. /\ Len(s) \in Nat \ {0} /\ Len(t) = Len(s) - 1
      /\ \A i \in 1 .. Len(t) : t[i] = s[i + 1]
      /\ s[1] \in Question
  <2>1. Len(s) \in Nat \ {0}
    BY LenProperties
  <2>2. 1 \in 1 .. Len(s)
    BY <2>1
  <2> QED BY <2>1, <2>2, ElementOfSeq DEF Rest
<1>2. \A n \in 1 .. Len(s) - 1 : FreshFrom(s, w, n + 1) => FreshFrom(t, w, n)
  BY <1>1 DEF FreshFrom
<1>3. FreshFrom(s, w, 1) => FreshFrom(t, w, 1) /\ s[1].got \in {None, w}
  BY <1>1 DEF FreshFrom
<1>4. ASSUME NEW i \in 1 .. Len(s), Changed(s[i], "isConnected"), FreshFrom(s, w, i)
      PROVE  Asked(t, w) \/ (Changed(s[1], "isConnected") /\ FreshFrom(s, w, 1))
  <2>1. CASE i = 1
    BY <2>1, <1>4
  <2>2. CASE i # 1
    <3>1. i - 1 \in 1 .. Len(t) /\ t[i - 1] = s[i] /\ FreshFrom(t, w, i - 1)
      BY <2>2, <1>1, <1>2, <1>4
    <3>2. Changed(t[i - 1], "isConnected")
      BY <3>1, <1>4
    <3> DEFINE k == i - 1
    <3>3. k \in 1 .. Len(t) /\ Changed(t[k], "isConnected") /\ FreshFrom(t, w, k)
      BY <3>1, <3>2
    <3> HIDE DEF k
    <3> QED BY <3>3 DEF Asked
  <2> QED BY <2>1, <2>2
<1>5. ASSUME NEW i \in 1 .. Len(s), i # 1
      PROVE  i - 1 \in 1 .. Len(t) /\ t[i - 1] = s[i]
  BY <1>1, <1>5
<1>6. Heard(s, w) => Heard(t, w) \/ Changed(s[1], "getPublicKey")
  BY <1>3, <1>5 DEF Heard, Changed
<1>7. Covered(s, w) => Covered(t, w)
  <2> SUFFICES ASSUME Covered(s, w), NEW i \in 1 .. Len(t), t[i].asks = "getNetwork"
               PROVE  \E j \in i .. Len(t) : OfWallet(t[j], w)
    BY DEF Covered
  <2>1. i + 1 \in 1 .. Len(s) /\ s[i + 1].asks = "getNetwork"
    BY <1>1
  <2>2. PICK j \in i + 1 .. Len(s) : OfWallet(s[j], w)
    BY <2>1 DEF Covered
  <2>3. j - 1 \in i .. Len(t) /\ t[j - 1] = s[j]
    BY <1>1, <2>2
  <2> QED BY <2>2, <2>3 DEF OfWallet
<1>8. Coming(s, w) => Coming(t, w) \/ OfWallet(s[1], w)
  BY <1>5 DEF Coming, OfWallet
<1> QED BY <1>1, <1>3, <1>4, <1>6, <1>7, <1>8 DEF Asked

\* Asking the next question in place of the first moves what was asked and
\* heard on.
LEMMA Renewed ==
  ASSUME NEW s \in Seq(Question), NEW w, Len(s) > 0, NEW q \in Question,
         q.got = None, NEW t \in Seq(Question), Rotated(s, q, t)
  PROVE  /\ s[1] \in Question
         /\ FreshFrom(s, w, 1) => FreshFrom(t, w, 1) /\ s[1].got \in {None, w}
         /\ Asked(s, w) => Asked(t, w) \/ (Changed(s[1], "isConnected") /\ FreshFrom(s, w, 1))
         /\ Heard(s, w) => Heard(t, w) \/ Changed(s[1], "getPublicKey")
         /\ FreshFrom(t, w, 1) /\ Changed(q, "getPublicKey") => Heard(t, w)
         /\ Covered(s, w) /\ q.asks # "getNetwork" => Covered(t, w)
         /\ Coming(s, w) => Coming(t, w) \/ OfWallet(s[1], w)
         /\ q.asks = "getNetwork" /\ q.key = w.account => Covered(t, w) /\ Coming(t, w)
<1>1. /\ Len(s) \in Nat \ {0} /\ Len(t) = Len(s)
      /\ \A i \in 1 .. Len(s) - 1 : t[i] = s[i + 1]
      /\ t[Len(s)] = q /\ s[1] \in Question
  BY LenProperties, ElementOfSeq DEF Rotated
<1>2. \A n \in 1 .. Len(s) : FreshFrom(s, w, n) =>
        \A j \in 1 .. Len(s) : j + 1 >= n => t[j].got \in {None, w}
  <2> SUFFICES ASSUME NEW n \in 1 .. Len(s), FreshFrom(s, w, n),
                      NEW j \in 1 .. Len(s), j + 1 >= n
               PROVE  t[j].got \in {None, w}
    OBVIOUS
  <2>1. CASE j = Len(s)
    BY <2>1, <1>1
  <2>2. CASE j # Len(s)
    <3>1. j + 1 \in n .. Len(s) /\ t[j] = s[j + 1]
      BY <2>2, <1>1
    <3> QED BY <3>1 DEF FreshFrom
  <2> QED BY <2>1, <2>2
<1>3. FreshFrom(s, w, 1) => FreshFrom(t, w, 1) /\ s[1].got \in {None, w}
  BY <1>1, <1>2 DEF FreshFrom
<1>4. ASSUME NEW i \in 1 .. Len(s), Changed(s[i], "isConnected"), FreshFrom(s, w, i)
      PROVE  Asked(t, w) \/ (Changed(s[1], "isConnected") /\ FreshFrom(s, w, 1))
  <2>1. CASE i = 1
    BY <2>1, <1>4
  <2>2. CASE i # 1
    <3>1. i - 1 \in 1 .. Len(t) /\ t[i - 1] = s[i]
      BY <2>2, <1>1
    <3>3. FreshFrom(t, w, i - 1)
      BY <3>1, <1>1, <1>2, <1>4 DEF FreshFrom
    <3>2. Changed(t[i - 1], "isConnected")
      BY <3>1, <1>4
    <3> DEFINE k == i - 1
    <3>4. k \in 1 .. Len(t) /\ Changed(t[k], "isConnected") /\ FreshFrom(t, w, k)
      BY <3>1, <3>2, <3>3
    <3> HIDE DEF k
    <3> QED BY <3>4 DEF Asked
  <2> QED BY <2>1, <2>2
<1>5. ASSUME NEW i \in 1 .. Len(s), i # 1
      PROVE  i - 1 \in 1 .. Len(t) /\ t[i - 1] = s[i]
  BY <1>1, <1>5
<1>6. Heard(s, w) => Heard(t, w) \/ Changed(s[1], "getPublicKey")
  BY <1>3, <1>5 DEF Heard, Changed
<1>7. Covered(s, w) /\ q.asks # "getNetwork" => Covered(t, w)
  <2> SUFFICES ASSUME Covered(s, w), q.asks # "getNetwork",
                      NEW i \in 1 .. Len(t), t[i].asks = "getNetwork"
               PROVE  \E j \in i .. Len(t) : OfWallet(t[j], w)
    BY DEF Covered
  <2>1. i + 1 \in 1 .. Len(s) /\ s[i + 1].asks = "getNetwork"
    BY <1>1
  <2>2. PICK j \in i + 1 .. Len(s) : OfWallet(s[j], w)
    BY <2>1 DEF Covered
  <2>3. j - 1 \in i .. Len(t) /\ t[j - 1] = s[j]
    BY <1>1, <2>2
  <2> QED BY <2>2, <2>3 DEF OfWallet
<1>8. Coming(s, w) => Coming(t, w) \/ OfWallet(s[1], w)
  BY <1>5 DEF Coming, OfWallet
<1>9. Len(t) \in 1 .. Len(t) /\ t[Len(t)] = q
  BY <1>1
<1>10. FreshFrom(t, w, 1) /\ Changed(q, "getPublicKey") => Heard(t, w)
  BY <1>9 DEF Heard, Changed
<1>11. q.asks = "getNetwork" /\ q.key = w.account => Covered(t, w) /\ Coming(t, w)
  <2> SUFFICES ASSUME q.asks = "getNetwork", q.key = w.account
               PROVE  Covered(t, w) /\ Coming(t, w)
    OBVIOUS
  <2>1. OfWallet(t[Len(t)], w)
    BY <1>9 DEF OfWallet
  <2>2. Coming(t, w)
    BY <2>1, <1>9 DEF Coming
  <2>3. \A i \in 1 .. Len(t) : Len(t) \in i .. Len(t)
    BY <1>1
  <2> QED BY <2>1, <2>2, <2>3 DEF Covered
<1> QED BY <1>1, <1>3, <1>4, <1>6, <1>7, <1>8, <1>10, <1>11 DEF Asked

\* A question that is read now reads the wallet as it is.
LEMMA ReadIn ==
  ASSUME NEW s \in Seq(Question), NEW w \in [account : Accounts \cup {None}, network : Networks],
         NEW i \in DOMAIN s, NEW fails \in BOOLEAN,
         NEW t, Answered(s, w, i, fails, t)
  PROVE  /\ t \in Seq(Question)
         /\ Asked(s, w) => Asked(t, w)
         /\ Heard(s, w) => Heard(t, w)
         /\ FreshFrom(s, w, 1) => FreshFrom(t, w, 1)
         /\ Covered(s, w) => Covered(t, w)
         /\ Coming(s, w) => Coming(t, w)
<1>3. /\ s \in [1 .. Len(s) -> Question] /\ Len(s) \in Nat /\ DOMAIN s = 1 .. Len(s)
      /\ Len(t) = Len(s) /\ DOMAIN t = 1 .. Len(s)
  BY LenProperties DEF Answered
<1>4. \A j \in 1 .. Len(s) :
        /\ t[j] \in Question
        /\ t[j].asks = s[j].asks /\ t[j].key = s[j].key
        /\ t[j].kind = s[j].kind
        /\ t[j].got \in {w, s[j].got}
  <2> TAKE j \in 1 .. Len(s)
  <2>1. s[j] \in Question
    BY <1>3
  <2>2. CASE j = i
    <3>1. t[j] = [s[j] EXCEPT !.got = w, !.failed = fails]
      BY <2>2, <1>3 DEF Answered
    <3> QED BY <3>1, <2>1 DEF Question
  <2>3. CASE j # i
    BY <2>3, <2>1, <1>3 DEF Answered
  <2> QED BY <2>2, <2>3
<1>5. t \in Seq(Question)
  <2>1. t = [j \in 1 .. Len(s) |-> t[j]]
    BY <1>3 DEF Answered
  <2>2. [j \in 1 .. Len(s) |-> t[j]] \in Seq(Question)
    BY <1>3, <1>4
  <2> QED BY <2>1, <2>2
<1>6. \A n \in 1 .. Len(s) : FreshFrom(s, w, n) => FreshFrom(t, w, n)
  BY <1>3, <1>4 DEF FreshFrom
<1>7. FreshFrom(s, w, 1) => FreshFrom(t, w, 1)
  BY <1>3, <1>4 DEF FreshFrom
<1>8. Asked(s, w) => Asked(t, w)
  BY <1>3, <1>4, <1>6 DEF Asked, Changed
<1>9. Heard(s, w) => Heard(t, w)
  BY <1>3, <1>4, <1>7 DEF Heard, Changed
<1>10. Covered(s, w) => Covered(t, w)
  BY <1>3, <1>4 DEF Covered, OfWallet
<1>11. Coming(s, w) => Coming(t, w)
  BY <1>3, <1>4 DEF Coming, OfWallet
<1> QED BY <1>5, <1>7, <1>8, <1>9, <1>10, <1>11

\* Every step of the session keeps the invariant.
LEMMA WalletInvNext ==
  ASSUME WalletInv, [Wallet!Next]_walletVars
  PROVE  WalletInv'
<1> USE DEF WalletInv
<1>a. /\ events \in Nat /\ runs \in Seq(Question)
      /\ wallet \in [account : Accounts \cup {None}, network : Networks]
  BY DEF WalletTypes
<1>1. CASE UNCHANGED walletVars
  BY <1>1 DEF walletVars, WalletTypes, Told, Shown, OwnBalance
<1>2. CASE Wallet!WalletChanges
  BY <1>2, <1>a DEF Wallet!WalletChanges, WalletTypes
<1>3. CASE Wallet!HandleWalletChange
  <2> DEFINE q == Wallet!Ask("change", "isConnected", None)
  <2>1. /\ runs' = Append(runs, q) /\ wallet' = wallet /\ events' \in Nat
    BY <1>3, <1>a DEF Wallet!HandleWalletChange
  <2>2. q \in Question /\ q.got = None /\ Changed(q, "isConnected")
    BY Questions DEF Wallet!Ask, Changed
  <2> HIDE DEF q
  <2>3. runs' \in Seq(Question) /\ Longer(runs, q, runs')
    BY <1>a, <2>1, <2>2, Appended
  <2>4. /\ Len(runs') \in 1 .. Len(runs') /\ runs'[Len(runs')] = q
        /\ FreshFrom(runs', wallet, Len(runs'))
    BY <1>a, <2>2, <2>3, LenProperties DEF Longer, FreshFrom
  <2>5. Asked(runs', wallet')
    BY <2>1, <2>2, <2>4 DEF Asked
  <2> QED BY <1>a, <2>1, <2>3, <2>5 DEF WalletTypes
<1>4. CASE Wallet!Connect
  <2> DEFINE q == Wallet!Ask("connect", "isConnected", None)
  <2>1. /\ runs' = Append(runs, q) /\ UNCHANGED <<wallet, events, address>>
        /\ status' = "connecting"
    BY <1>4 DEF Wallet!Connect
  <2>2. q \in Question /\ q.got = None /\ q.asks # "getNetwork"
    BY Questions DEF Wallet!Ask
  <2> HIDE DEF q
  <2>3. runs' \in Seq(Question) /\ Longer(runs, q, runs')
    BY <1>a, <2>1, <2>2, Appended
  <2>4. Told => Told'
    BY <1>a, <2>1, <2>2, <2>3, Grown DEF Told
  <2>5. /\ Asked(runs, wallet) => Asked(runs', wallet)
        /\ Heard(runs, wallet) => Heard(runs', wallet)
    BY <1>a, <2>2, <2>3, Grown
  <2> QED BY <1>a, <2>1, <2>3, <2>4, <2>5 DEF WalletTypes
<1>5. CASE Wallet!ExtensionReads
  <2>1. /\ UNCHANGED <<wallet, events, status, address, network, balance, balanceFetches>>
        /\ \E i \in DOMAIN runs, fails \in BOOLEAN :
             runs' = [runs EXCEPT ![i].got = wallet, ![i].failed = fails]
    BY <1>5 DEF Wallet!ExtensionReads, Wallet!pageVars, Wallet!boundVars
  <2>2. PICK i \in DOMAIN runs, fails \in BOOLEAN : Answered(runs, wallet, i, fails, runs')
    BY <2>1 DEF Answered
  <2>3. /\ runs' \in Seq(Question)
        /\ Asked(runs, wallet) => Asked(runs', wallet)
        /\ Heard(runs, wallet) => Heard(runs', wallet)
        /\ FreshFrom(runs, wallet, 1) => FreshFrom(runs', wallet, 1)
        /\ Covered(runs, wallet) => Covered(runs', wallet)
        /\ Coming(runs, wallet) => Coming(runs', wallet)
    BY <1>a, <2>2, ReadIn
  <2>4. Told => Told'
    BY <2>1, <2>3 DEF Told, Shown, OwnBalance
  <2> QED BY <1>a, <2>1, <2>3, <2>4 DEF WalletTypes
<1>b. ASSUME Wallet!Replied
      PROVE  /\ runs # << >> /\ Len(runs) > 0 /\ Tail(runs) \in Seq(Question)
             /\ Rest(runs, Tail(runs)) /\ runs[1] \in Question /\ runs[1].got # None
  BY <1>a, <1>b, Dropped, EmptySeq DEF Wallet!Replied, Wallet!Head1
<1>6. CASE Wallet!Refused
  <2>1. /\ Wallet!Replied /\ runs' = Tail(runs)
        /\ UNCHANGED <<wallet, events, balanceFetches>>
        /\ IF runs[1].kind = "change"
             THEN status' = "disconnected" /\ address' = None
             ELSE status' \in {"error", "disconnected"} /\ address' = address
    BY <1>6 DEF Wallet!Refused, Wallet!Reset, Wallet!Head1
  <2>2. /\ FreshFrom(runs, wallet, 1) => FreshFrom(runs', wallet, 1)
        /\ Asked(runs, wallet) =>
             Asked(runs', wallet) \/ (Changed(runs[1], "isConnected") /\ FreshFrom(runs, wallet, 1))
        /\ Heard(runs, wallet) => Heard(runs', wallet) \/ Changed(runs[1], "getPublicKey")
        /\ Covered(runs, wallet) => Covered(runs', wallet)
    BY <1>a, <1>b, <2>1, Shrunk
  <2>3. Told => Told'
    BY <2>1, <2>2 DEF Told
  <2>4. runs[1].kind = "change" /\ FreshFrom(runs, wallet, 1) => Told'
    BY <2>1, <2>2 DEF Told
  <2>5. Heard(runs, wallet) => FreshFrom(runs, wallet, 1)
    BY DEF Heard
  <2> QED BY <1>a, <1>b, <2>1, <2>2, <2>3, <2>4, <2>5 DEF WalletTypes, Changed
<1>7. CASE Wallet!IsConnected
  <2> DEFINE q == Wallet!Ask(runs[1].kind, "getPublicKey", None)
  <2>1. /\ Wallet!Replied /\ runs' = Append(Tail(runs), q)
        /\ runs[1].asks = "isConnected"
        /\ UNCHANGED <<wallet, events, status, address, network, balance, balanceFetches>>
    BY <1>7 DEF Wallet!IsConnected, Wallet!Answered, Wallet!Head1, Wallet!pageVars
  <2>2. q \in Question /\ q.got = None /\ q.asks = "getPublicKey" /\ q.kind = runs[1].kind
    BY <2>1, <1>b, Questions DEF Wallet!Ask, Question
  <2> HIDE DEF q
  <2>3. runs' \in Seq(Question) /\ Rotated(runs, q, runs')
    BY <1>a, <1>b, <2>1, <2>2, Turned
  <2>4. /\ FreshFrom(runs, wallet, 1) => FreshFrom(runs', wallet, 1)
        /\ Asked(runs, wallet) =>
             Asked(runs', wallet) \/ (Changed(runs[1], "isConnected") /\ FreshFrom(runs, wallet, 1))
        /\ Heard(runs, wallet) => Heard(runs', wallet) \/ Changed(runs[1], "getPublicKey")
        /\ FreshFrom(runs', wallet, 1) /\ Changed(q, "getPublicKey") => Heard(runs', wallet)
        /\ Covered(runs, wallet) => Covered(runs', wallet)
        /\ Coming(runs, wallet) => Coming(runs', wallet) \/ OfWallet(runs[1], wallet)
    BY <1>a, <1>b, <2>1, <2>2, <2>3, Renewed
  <2>5. Told => Told'
    BY <2>1, <2>4 DEF Told, Shown, OwnBalance, OfWallet
  <2> QED BY <1>a, <2>1, <2>2, <2>3, <2>4, <2>5 DEF WalletTypes, Changed
<1>8. CASE Wallet!GotPublicKey
  <2> DEFINE q == Wallet!Ask(runs[1].kind, "getNetwork", runs[1].got.account)
  <2>1. /\ Wallet!Replied /\ runs' = Append(Tail(runs), q)
        /\ runs[1].asks = "getPublicKey" /\ address' = runs[1].got.account
        /\ UNCHANGED <<wallet, events, status, network, balance, balanceFetches>>
    BY <1>8 DEF Wallet!GotPublicKey, Wallet!Answered, Wallet!Head1
  <2>2. /\ q \in Question /\ q.got = None /\ q.asks = "getNetwork"
        /\ q.key = runs[1].got.account
    BY <2>1, <1>b, Questions DEF Wallet!Ask, Question
  <2> HIDE DEF q
  <2>3. runs' \in Seq(Question) /\ Rotated(runs, q, runs')
    BY <1>a, <1>b, <2>1, <2>2, Turned
  <2>4. /\ FreshFrom(runs, wallet, 1) => FreshFrom(runs', wallet, 1)
             /\ runs[1].got \in {None, wallet}
        /\ Asked(runs, wallet) =>
             Asked(runs', wallet) \/ (Changed(runs[1], "isConnected") /\ FreshFrom(runs, wallet, 1))
        /\ Heard(runs, wallet) => Heard(runs', wallet) \/ Changed(runs[1], "getPublicKey")
        /\ q.key = wallet.account => Covered(runs', wallet) /\ Coming(runs', wallet)
    BY <1>a, <1>b, <2>1, <2>2, <2>3, Renewed
  <2>5. FreshFrom(runs, wallet, 1) => Told'
    BY <2>1, <2>2, <2>4, <1>b DEF Told
  <2>6. Heard(runs, wallet) \/ Told => FreshFrom(runs, wallet, 1)
    BY DEF Heard, Told
  <2> QED BY <1>a, <2>1, <2>2, <2>3, <2>4, <2>5, <2>6 DEF WalletTypes, Changed
<1>9. CASE Wallet!GotNetwork
  <2>1. /\ Wallet!Replied /\ runs' = Tail(runs)
        /\ runs[1].asks = "getNetwork" /\ network' = runs[1].got.network
        /\ balanceFetches' = {[of |-> runs[1].key, on |-> network']}
        /\ UNCHANGED <<wallet, events, address>>
    BY <1>9 DEF Wallet!GotNetwork, Wallet!Answered, Wallet!Head1, Wallet!StartBalanceFetch,
                Wallet!Aborted
  <2>2. /\ FreshFrom(runs, wallet, 1) => FreshFrom(runs', wallet, 1)
             /\ runs[1].got \in {None, wallet}
        /\ Asked(runs, wallet) =>
             Asked(runs', wallet) \/ (Changed(runs[1], "isConnected") /\ FreshFrom(runs, wallet, 1))
        /\ Heard(runs, wallet) => Heard(runs', wallet) \/ Changed(runs[1], "getPublicKey")
        /\ Covered(runs, wallet) => Covered(runs', wallet)
        /\ Coming(runs, wallet) => Coming(runs', wallet) \/ OfWallet(runs[1], wallet)
    BY <1>a, <1>b, <2>1, Shrunk
  <2>3. Covered(runs, wallet) => Coming(runs, wallet)
    BY <1>a, <1>b, <2>1, LenProperties DEF Covered, Coming
  <2>4. ASSUME Told PROVE Told'
    <3>1. OfWallet(runs[1], wallet) => Shown'
      BY <2>1, <2>2, <2>4, <1>b DEF Told, Shown, OwnBalance, OfWallet
    <3> QED BY <2>1, <2>2, <2>3, <2>4, <3>1 DEF Told
  <2> QED BY <1>a, <1>b, <2>1, <2>2, <2>4 DEF WalletTypes, Changed
<1>10. CASE Wallet!RefreshBalance
  <2>1. /\ UNCHANGED <<wallet, events, runs, status, address, network>> /\ address # None
        /\ balanceFetches' = {[of |-> address, on |-> network]}
    BY <1>10 DEF Wallet!RefreshBalance, Wallet!StartBalanceFetch, Wallet!Aborted
  <2>2. Told => Told'
    BY <2>1 DEF Told, Shown, OwnBalance
  <2> QED BY <1>a, <2>1, <2>2 DEF WalletTypes
<1>11. CASE Wallet!Disconnect
  <2>1. /\ UNCHANGED <<wallet, events, runs>> /\ address' = None
    BY <1>11 DEF Wallet!Disconnect, Wallet!Reset
  <2>2. Told => Told'
    BY <2>1 DEF Told
  <2> QED BY <1>a, <2>1, <2>2 DEF WalletTypes
<1>12. ASSUME NEW f \in balanceFetches, NEW fails \in BOOLEAN, Wallet!BalanceAnswers(f, fails)
       PROVE  WalletInv'
  <2>1. /\ UNCHANGED <<wallet, events, runs, status, address, network>>
        /\ balanceFetches' = balanceFetches \ {f} /\ balance' \in {None, f}
    BY <1>12 DEF Wallet!BalanceAnswers
  <2>2. Told => Told'
    BY <2>1 DEF Told, Shown, OwnBalance
  <2> QED BY <1>a, <2>1, <2>2 DEF WalletTypes
<1> HIDE DEF WalletInv
<1> QED
  BY <1>1, <1>2, <1>3, <1>4, <1>5, <1>6, <1>7, <1>8, <1>9, <1>10, <1>11, <1>12
  DEF Wallet!Next

\* Once no event, question or fetch is on its way, a page that shows a wallet
\* shows the one the extension has, on its network, with no balance but its
\* own, however runs, clicks, changes and failures overlapped
\* (useStellarWallet.ts, WalletProvider.tsx).
THEOREM TheWalletIsShown == FrontSpec => []ShowsTheWallet
<1>1. WalletInv => ShowsTheWallet
  <2> SUFFICES ASSUME WalletInv, Wallet!AtRest, address # None,
                      Wallet!WalletState \in {"connected", "wrongNetwork"}
               PROVE  /\ address = wallet.account /\ network = wallet.network
                      /\ balance \in {None, [of |-> address, on |-> network]}
    BY DEF ShowsTheWallet, Wallet!ShowsTheWallet
  <2>1. events = 0 /\ Len(runs) = 0 /\ balanceFetches = {}
    BY EmptySeq DEF Wallet!AtRest
  <2>2. status \in {"connected", "wrongNetwork"}
    BY DEF Wallet!WalletState
  <2>3. Told
    BY <2>1 DEF WalletInv, Asked, Heard
  <2> QED BY <2>1, <2>2, <2>3 DEF Told, Shown, OwnBalance, Coming
<1> QED BY <1>1, WalletSteps, WalletInvInit, WalletInvNext, PTL
=============================================================================
