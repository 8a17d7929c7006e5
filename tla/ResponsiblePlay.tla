--------------------------- MODULE ResponsiblePlay ---------------------------
(***************************************************************************)
(* Self-exclusion and stake limits of the web application                  *)
(* (apps/frontend/src/utils/responsible-play.ts and its panel): settings   *)
(* kept in the browser per wallet address, read and written in one piece   *)
(* by every call.  A stricter rule holds at once, a looser one only after  *)
(* a delay.                                                                *)
(***************************************************************************)
EXTENDS Integers

CONSTANTS
  None,
  Addresses,   \* wallet addresses
  Periods,     \* lengths of a self-exclusion, SELF_EXCLUSION_PERIODS
  Delay,       \* LIMIT_INCREASE_DELAY_MS
  Limits,      \* stake limits a player types
  LastTime     \* bound: when the clock of the model stops

ASSUME PlayAssumption ==
  /\ None \notin Int /\ None \notin [value : Limits \cup {None}, at : Nat]
  /\ Periods \subseteq Nat \ {0} /\ Delay \in Nat \ {0}
  /\ Limits \subseteq Nat \ {0} /\ LastTime \in Nat

VARIABLES
  settings,    \* localStorage: settings[a] of address a
  now,
  confirming,  \* the panel's period waiting for a confirmation, or None
  asked        \* history: asked[a] is the last request to loosen a's limit
               \* since it was last tightened, or None

playVars == <<settings, now, confirming, asked>>

Blank == [excludedUntil |-> 0, stakeLimit |-> None, pendingLimit |-> None]

TypeOK ==
  /\ now \in Nat
  /\ confirming \in Periods \cup {None}
  /\ settings \in [Addresses ->
       [excludedUntil : Nat, stakeLimit : Limits \cup {None},
        pendingLimit : [value : Limits \cup {None}, effectiveAt : Nat] \cup {None}]]
  /\ asked \in [Addresses -> [value : Limits \cup {None}, at : Nat] \cup {None}]

Init ==
  /\ settings = [a \in Addresses |-> Blank]
  /\ now = 0
  /\ confirming = None
  /\ asked = [a \in Addresses |-> None]

-----------------------------------------------------------------------------
\* A pending change counts once its time has come.
PendingDue(s) == s.pendingLimit # None /\ s.pendingLimit.effectiveAt <= now

EffectiveSettings(a) ==
  LET s == settings[a] IN
  IF PendingDue(s)
    THEN [s EXCEPT !.stakeLimit = s.pendingLimit.value, !.pendingLimit = None]
    ELSE s

ActiveExclusion(a) == settings[a].excludedUntil > now

CheckWagerAllowed(a, stake) ==
  /\ ~ ActiveExclusion(a)
  /\ \/ EffectiveSettings(a).stakeLimit = None
     \/ stake <= EffectiveSettings(a).stakeLimit

\* The browser may refuse to store: then nothing changes, and the panel says so.
SaveSettings(a, s) == settings' = [settings EXCEPT ![a] = s]

Later(x, y) == IF x > y THEN x ELSE y

StartSelfExclusion(a, period) ==
  /\ SaveSettings(a, [EffectiveSettings(a) EXCEPT
                        !.excludedUntil = Later(now + period, @)])
  /\ UNCHANGED <<now, asked>>

Looser(new, old) == old # None /\ (new = None \/ new > old)
Tightens(a, limit) == limit # None /\ ~ Looser(limit, EffectiveSettings(a).stakeLimit)

Tightened_KeepsPending(s, limit) == [s EXCEPT !.stakeLimit = limit]
Tightened(s, limit) == [s EXCEPT !.stakeLimit = limit, !.pendingLimit = None]

TightenLimit(a, limit) ==
  /\ Tightens(a, limit)
  /\ SaveSettings(a, Tightened(EffectiveSettings(a), limit))
  /\ asked' = [asked EXCEPT ![a] = None]
  /\ UNCHANGED now

LoosenLimit(a, limit) ==
  /\ ~ Tightens(a, limit)
  /\ SaveSettings(a, [EffectiveSettings(a) EXCEPT
                        !.pendingLimit = [value |-> limit, effectiveAt |-> now + Delay]])
  /\ asked' = [asked EXCEPT ![a] = [value |-> limit, at |-> now]]
  /\ UNCHANGED now

-----------------------------------------------------------------------------
\* The panel.  Another tab may have changed the settings since it rendered, so
\* a period can be confirmed while another exclusion runs.
ChoosePeriod(period) ==
  /\ confirming = None
  /\ confirming' = period
  /\ UNCHANGED <<settings, now, asked>>

Exclude(a) ==
  /\ confirming # None
  /\ StartSelfExclusion(a, confirming)
  /\ confirming' = None

CancelConfirmation ==
  /\ confirming # None
  /\ confirming' = None
  /\ UNCHANGED <<settings, now, asked>>

\* A limit that is not positive is refused before it reaches setStakeLimit; the
\* button that removes a limit is there when one is set.
ApplyLimit(a, limit) ==
  /\ limit = None => EffectiveSettings(a).stakeLimit # None
  /\ TightenLimit(a, limit) \/ LoosenLimit(a, limit)
  /\ UNCHANGED confirming

Panel ==
  \/ \E p \in Periods : ChoosePeriod(p)
  \/ \E a \in Addresses : Exclude(a)
  \/ CancelConfirmation
  \/ \E a \in Addresses, l \in Limits \cup {None} : ApplyLimit(a, l)

Tick ==
  /\ now < LastTime
  /\ now' = now + 1
  /\ UNCHANGED <<settings, confirming, asked>>

Next == Panel \/ Tick

Spec == Init /\ [][Next]_playVars

-----------------------------------------------------------------------------
InForce(a) == EffectiveSettings(a).stakeLimit

\* A commitment outlasts the moment: whatever a player clicks, in any order and
\* in any tab, the end of an exclusion never moves forward, and a stake limit
\* loosens only to what was asked for last, a whole delay after it was asked
\* for, and never if the limit was tightened since (startSelfExclusion,
\* setStakeLimit, effectiveSettings).
KeepsCommitment(a) ==
  /\ settings'[a].excludedUntil >= settings[a].excludedUntil
  /\ Looser(InForce(a)', InForce(a)) =>
       /\ asked[a] # None
       /\ InForce(a)' = asked[a].value
       /\ asked[a].at + Delay <= now'
CommitmentsHold == [][\A a \in Addresses : KeepsCommitment(a)]_playVars
=============================================================================
