--------------------------- MODULE ServicesProofs ---------------------------
(***************************************************************************)
(* Theorems about the services of the backend.  Each component is an       *)
(* instance in MCServices, which runs one of them in each behaviour, and   *)
(* each theorem is about every behaviour of MCServices, for every value of *)
(* its constants.                                                          *)
(***************************************************************************)
EXTENDS MCServices, Sequences, SequenceTheorems, SumProofs, TLAPS

-----------------------------------------------------------------------------
(* The shutdown: Shutdown.                                                 *)

\* Of each behaviour of the services, the shutdown's part.
LEMMA ShutdownSteps == Spec => Down!Init /\ [][Down!Next]_shutdownVars
<1>1. Init => Down!Init
  BY DEF Init
<1>2. [Next]_vars => [Down!Next]_shutdownVars
  BY DEF Next, vars, shutdownVars
<1> QED BY <1>1, <1>2, PTL DEF Spec

\* While the stores close, or once the process ended well, nothing drained runs.
DownInv ==
  /\ isShuttingDown = FALSE <=> stage = "off"
  /\ stage \in {"off", "draining"} => closedStores = {}
  /\ stage = "closing" \/ exitCode = 0 => running \cap (HttpRequests \cup Polls) = {}
  /\ stage = "ended" => exitCode # None
  /\ closedStores # {} => running \cap (HttpRequests \cup Polls) = {}
  /\ exitCode = 0 => closedStores = Stores
  /\ exitCode = 0 => stage = "ended"

\* The order of the shutdown is kept by every step.
LEMMA DownInvNext ==
  ASSUME DownInv, [Down!Next]_shutdownVars
  PROVE  DownInv'
<1> DEFINE Work == HttpRequests \cup Polls
<1> USE DEF DownInv
<1>0. None # 0 /\ None # 1
  BY ServicesAssumption DEF Down!ShutdownAssumption
<1>1. CASE Down!Signal
  BY <1>1 DEF Down!Signal, Down!Alive
<1>2. CASE Down!StartClosing
  BY <1>2 DEF Down!StartClosing, Down!Alive, Down!Drained
<1>3. CASE Down!ExitClean
  BY <1>0, <1>3 DEF Down!ExitClean, Down!Alive
<1>4. CASE Down!ExitForced
  BY <1>0, <1>4 DEF Down!ExitForced, Down!Alive
<1>5. ASSUME NEW w \in Work \cup Workers, Down!Starts(w) \/ Down!Finishes(w)
      PROVE  DownInv'
  BY <1>0, <1>5 DEF Down!Starts, Down!Finishes, Down!Alive
<1>6. ASSUME NEW s \in Stores, Down!CloseStore(s) PROVE DownInv'
  BY <1>0, <1>6 DEF Down!CloseStore, Down!Alive
<1>7. CASE UNCHANGED shutdownVars
  BY <1>7 DEF shutdownVars
<1> QED
  BY <1>1, <1>2, <1>3, <1>4, <1>5, <1>6, <1>7 DEF Down!Next

\* A store closes only when no request and no poll that the handler waits for is running, and exit
\* code 0 means that every store closed, whatever failed, hung or signalled again meanwhile
\* (shutdown.ts).
THEOREM StoresCloseAfterWork == Spec => []StoresCloseLast
<1>1. Down!Init => DownInv
  BY ServicesAssumption DEF Down!Init, DownInv, Down!ShutdownAssumption
<1>2. DownInv => StoresCloseLast
  BY DEF DownInv, StoresCloseLast, Down!StoresCloseLast
<1> QED BY <1>1, <1>2, DownInvNext, ShutdownSteps, PTL

-----------------------------------------------------------------------------
(* The evidence ledger and its reviews: ReviewLedger.                      *)

\* Of each behaviour of the services, the evidence ledger's part.
LEMMA ReviewSteps == Spec => Review!Init /\ [][Review!Next]_reviewVars
<1>1. Init => Review!Init
  BY DEF Init
<1>2. [Next]_vars => [Review!Next]_reviewVars
  BY DEF Next, vars, reviewVars
<1> QED BY <1>1, <1>2, PTL DEF Spec

\* The decisions a ledger holds.
ReviewDecisions == {"retry_requested", "review_required", "verified", "in_progress"}

\* Only the caller whose turn it is has a decision to append, and a retry only
\* while the review it answers is the last decision.
ReviewInv ==
  /\ ledger \in Seq(ReviewDecisions)
  /\ locked \in Seq(Review!Callers)
  /\ pending \in [Review!Callers -> {"idle", "waiting"} \cup ReviewDecisions]
  /\ \A c \in Review!Callers : pending[c] \in ReviewDecisions => Review!MyTurn(c)
  /\ \A c \in Review!Callers : pending[c] = "retry_requested" => Review!ReviewDue
  /\ OneRetryPerReview

\* The chain of the lock, and what is waiting on it, are kept by every step.
LEMMA ReviewInvNext ==
  ASSUME ReviewInv, [Review!Next]_reviewVars
  PROVE  ReviewInv'
<1> USE DEF ReviewInv
<1> DEFINE Typed == /\ ledger' \in Seq(ReviewDecisions) /\ locked' \in Seq(Review!Callers)
                    /\ pending' \in [Review!Callers -> {"idle", "waiting"} \cup ReviewDecisions]
\* A caller that settles leaves no other with a decision.
<1>1. ASSUME NEW c \in Review!Callers, Review!Settles(c), Review!MyTurn(c), ledger' \in Seq(ReviewDecisions)
      PROVE  Typed /\ \A d \in Review!Callers : pending'[d] \notin ReviewDecisions
  BY <1>1 DEF Review!Settles, Review!MyTurn, ReviewDecisions
<1>2. CASE Review!Restart
  BY <1>2 DEF Review!Restart, ReviewDecisions, OneRetryPerReview, Review!OneRetryPerReview
<1>3. ASSUME NEW c \in Review!Callers, Review!WithGameLock(c)
      PROVE  ReviewInv'
  <2>1. Typed
    BY <1>3 DEF Review!WithGameLock
  <2>2. locked # << >> => locked' # << >> /\ Head(locked') = Head(locked)
    BY <1>3 DEF Review!WithGameLock
  <2>3. /\ ledger' = ledger
        /\ \A d \in Review!Callers : pending'[d] \in ReviewDecisions => pending'[d] = pending[d]
    BY <1>3 DEF Review!WithGameLock, ReviewDecisions
  <2>4. \A d \in Review!Callers : pending'[d] \in ReviewDecisions => Review!MyTurn(d)'
    BY <2>2, <2>3 DEF Review!MyTurn
  <2>5. \A d \in Review!Callers : pending'[d] = "retry_requested" => Review!ReviewDue'
    BY <2>3 DEF Review!ReviewDue, ReviewDecisions
  <2> QED BY <2>1, <2>3, <2>4, <2>5 DEF OneRetryPerReview, Review!OneRetryPerReview
<1>4. ASSUME NEW c \in Review!Callers, Review!History(c)
      PROVE  ReviewInv'
  <2>1. ledger' = ledger /\ Review!MyTurn(c)
    BY <1>4 DEF Review!History
  <2>2. CASE Review!Settles(c)
    BY <1>1, <2>1, <2>2 DEF OneRetryPerReview, Review!OneRetryPerReview, ReviewDecisions
  <2>3. CASE locked' = locked
    <3>1. PICK state \in ReviewDecisions :
            /\ pending' = [pending EXCEPT ![c] = state]
            /\ state = "retry_requested" => Review!ReviewDue
      <4>1. CASE Review!Settles(c)
        BY <1>4, <2>1, <2>3, <4>1 DEF Review!Settles, Review!MyTurn
      <4>2. CASE ~ Review!Settles(c)
        BY <1>4, <4>2 DEF Review!History, ReviewDecisions
      <4> QED BY <4>1, <4>2
    <3> QED BY <2>1, <2>3, <3>1
            DEF Review!MyTurn, Review!ReviewDue, OneRetryPerReview, Review!OneRetryPerReview
  <2> QED BY <1>4, <2>2, <2>3 DEF Review!History
<1>5. ASSUME NEW c \in Review!Callers, Review!AppendDecision(c)
      PROVE  ReviewInv'
  <2>1. pending[c] \in ReviewDecisions /\ Review!MyTurn(c)
    BY <1>5 DEF Review!AppendDecision, ReviewDecisions
  <2>2. ledger' = Append(ledger, pending[c])
    BY <1>5 DEF Review!AppendDecision
  <2>3. OneRetryPerReview'
    BY <2>1, <2>2 DEF OneRetryPerReview, Review!OneRetryPerReview, Review!ReviewDue, Review!Last
  <2>4. Typed /\ \A d \in Review!Callers : pending'[d] \notin ReviewDecisions
    BY <1>1, <1>5, <2>1, <2>2 DEF Review!AppendDecision
  <2> QED BY <2>3, <2>4 DEF ReviewDecisions
<1>6. ASSUME NEW c \in Review!Callers, Review!StoreFails(c)
      PROVE  ReviewInv'
  BY <1>1, <1>6 DEF Review!StoreFails, OneRetryPerReview, Review!OneRetryPerReview, ReviewDecisions
<1>7. CASE UNCHANGED reviewVars
  BY <1>7 DEF reviewVars, Review!MyTurn, Review!ReviewDue, OneRetryPerReview, Review!OneRetryPerReview
<1> QED
  BY <1>2, <1>3, <1>4, <1>5, <1>6, <1>7 DEF Review!Next

\* A review is answered by one retry: every retry_requested follows directly the review_required
\* it answers, whatever operators and verifications run for the game at once
\* (routes/oracle-review.ts).
THEOREM OneRetryAnswersOneReview == Spec => []OneRetryPerReview
<1>1. Review!Init => ReviewInv
  BY DEF Review!Init, ReviewInv, OneRetryPerReview, Review!OneRetryPerReview, ReviewDecisions
<1>2. ReviewInv => OneRetryPerReview
  BY DEF ReviewInv
<1> QED BY <1>1, <1>2, ReviewInvNext, ReviewSteps, PTL

-----------------------------------------------------------------------------
(* The links of wallets to names: IdentityLinks.                           *)

\* Of each behaviour of the services, the identity links' part.
LEMMA LinkSteps == Spec => Links!Init /\ [][Links!Next]_linksVars
<1>1. Init => Links!Init
  BY DEF Init
<1>2. [Next]_vars => [Links!Next]_linksVars
  BY DEF Next, vars, linksVars
<1> QED BY <1>1, <1>2, PTL DEF Spec

\* The challenges issued, the stages of a confirmation and its record.
Challenges == [wallet : Sponsored, name : LinkNames, expiresAt : Nat]
LinkStages == {"idle", "refused", "verifyProfile", "profileVerified", "unproven", "linked"}
ConfirmationRecords ==
  [at : LinkStages, nonce : Nat \cup {None}, wallet : Sponsored \cup {None}, began : Nat,
   replayed : BOOLEAN]

\* The values the links' variables take.
LinkTypes ==
  /\ instant \in Nat
  /\ issued \in Seq(Challenges)
  /\ verifiedLinks \in [LinkNames -> Sponsored \cup {None}]
  /\ confirmation \in [Confirmations -> ConfirmationRecords]

\* What a confirmation past its checks has shown, at each of its stages.
ConfirmationShape(r) ==
  /\ r.at # "idle" => r.nonce \in DOMAIN issued
  /\ r.at \in {"verifyProfile", "profileVerified", "linked"} =>
       ~ r.replayed /\ r.began < issued[r.nonce].expiresAt /\ r.wallet = issued[r.nonce].wallet
  /\ r.at \in {"profileVerified", "linked"} => r.nonce \in shown
  /\ r.at = "refused" =>
       \/ r.nonce \in spent \cup evictedLinks
       \/ r.began >= issued[r.nonce].expiresAt \/ r.wallet # issued[r.nonce].wallet

\* A challenge is no longer pending only because it was used, evicted or
\* expired, and a used one never comes back.
LinkInv ==
  /\ LinkTypes
  /\ pendingLinks \subseteq DOMAIN issued /\ spent \subseteq DOMAIN issued
  /\ pendingLinks \cap spent = {}
  /\ \A nonce \in DOMAIN issued : nonce \notin pendingLinks =>
       nonce \in spent \cup evictedLinks \/ issued[nonce].expiresAt <= instant
  /\ \A c \in Confirmations : ConfirmationShape(confirmation[c])
  /\ \A n \in LinkNames : verifiedLinks[n] # None =>
       \E c \in Confirmations :
         /\ confirmation[c].at = "linked" /\ confirmation[c].wallet = verifiedLinks[n]
         /\ issued[confirmation[c].nonce].name = n

\* Every step keeps the types.
LEMMA LinkTypesNext ==
  ASSUME LinkInv, [Links!Next]_linksVars
  PROVE  LinkTypes'
<1> USE DEF LinkTypes, LinkInv, LinkStages
<1>0. LINK_NONCE_TTL_MS \in Nat
  BY ServicesAssumption DEF Links!LinkAssumption
<1>1. CASE Links!Tick
  BY <1>1 DEF Links!Tick
<1>2. ASSUME NEW w \in Sponsored, NEW n \in LinkNames, Links!CreateChallenge(w, n)
      PROVE  LinkTypes'
  <2>1. [wallet |-> w, name |-> n, expiresAt |-> instant + LINK_NONCE_TTL_MS] \in Challenges
    BY <1>0 DEF Challenges
  <2> QED BY <1>2, <2>1 DEF Links!CreateChallenge
<1>3. ASSUME NEW n \in LinkNames, NEW nonce \in DOMAIN issued \cup {None},
             Links!EditProfile(n, nonce)
      PROVE  LinkTypes'
  BY <1>3 DEF Links!EditProfile
<1>4. ASSUME NEW c \in Confirmations, NEW nonce \in DOMAIN issued, NEW w \in Sponsored,
             Links!Confirm(c, nonce, w)
      PROVE  LinkTypes'
  <2>1. PICK at, replayed :
          /\ confirmation' = [confirmation EXCEPT ![c] =
              [at |-> at, nonce |-> nonce, wallet |-> w, began |-> instant, replayed |-> replayed]]
          /\ replayed = (nonce \in spent) /\ at \in {"verifyProfile", "refused"}
    BY <1>4, Zenon DEF Links!Confirm
  <2>2. nonce \in Nat /\ at \in LinkStages /\ replayed \in BOOLEAN
    BY <2>1 DEF Challenges
  <2>3. [at |-> at, nonce |-> nonce, wallet |-> w, began |-> instant, replayed |-> replayed]
          \in ConfirmationRecords
    BY <2>2 DEF ConfirmationRecords
  <2> QED BY <1>4, <2>1, <2>3 DEF Links!Confirm
<1>5. ASSUME NEW c \in Confirmations, NEW at \in LinkStages
      PROVE  [confirmation EXCEPT ![c].at = at] \in [Confirmations -> ConfirmationRecords]
  <2>1. confirmation[c] \in ConfirmationRecords
    OBVIOUS
  <2>2. [confirmation[c] EXCEPT !.at = at] \in ConfirmationRecords
    BY <2>1 DEF ConfirmationRecords
  <2> QED BY <2>2
<1>6. ASSUME NEW c \in Confirmations, Links!PlatformReads(c) PROVE LinkTypes'
  <2>1. PICK at \in LinkStages : confirmation' = [confirmation EXCEPT ![c].at = at]
    BY <1>6 DEF Links!PlatformReads
  <2> QED BY <1>5, <1>6, <2>1 DEF Links!PlatformReads
<1>8. ASSUME NEW c \in Confirmations, Links!ProfileVerified(c) PROVE LinkTypes'
  <2>1. confirmation' = [confirmation EXCEPT ![c].at = "linked"] /\ "linked" \in LinkStages
    BY <1>8 DEF Links!ProfileVerified
  <2>2. confirmation' \in [Confirmations -> ConfirmationRecords]
    BY <1>5, <2>1
  <2>3. confirmation[c].wallet \in Sponsored \cup {None}
    BY DEF ConfirmationRecords
  <2>4. verifiedLinks' =
          [verifiedLinks EXCEPT ![issued[confirmation[c].nonce].name] = confirmation[c].wallet]
    BY <1>8 DEF Links!ProfileVerified
  <2> QED BY <1>8, <2>2, <2>3, <2>4 DEF Links!ProfileVerified
<1>7. CASE UNCHANGED linksVars
  BY <1>7 DEF linksVars
<1> QED
  BY <1>1, <1>2, <1>3, <1>4, <1>6, <1>7, <1>8 DEF Links!Next

\* Every step keeps the invariant.
LEMMA LinkInvNext ==
  ASSUME LinkInv, [Links!Next]_linksVars
  PROVE  LinkInv'
<1> DEFINE Bounds ==
      /\ pendingLinks' \subseteq DOMAIN issued' /\ spent' \subseteq DOMAIN issued'
      /\ pendingLinks' \cap spent' = {}
      /\ \A nonce \in DOMAIN issued' : nonce \notin pendingLinks' =>
           nonce \in spent' \cup evictedLinks' \/ issued'[nonce].expiresAt <= instant'
    Shapes == \A c \in Confirmations : ConfirmationShape(confirmation[c])'
    Linked == \A n \in LinkNames : verifiedLinks'[n] # None =>
       \E c \in Confirmations :
         /\ confirmation'[c].at = "linked" /\ confirmation'[c].wallet = verifiedLinks'[n]
         /\ issued'[confirmation'[c].nonce].name = n
<1> SUFFICES Bounds /\ Shapes /\ Linked
  BY LinkTypesNext DEF LinkInv
<1> USE DEF LinkInv
<1>0. \A nonce \in DOMAIN issued : issued[nonce] \in Challenges /\ nonce \in Nat
  BY DEF LinkTypes
<1>1. CASE Links!Tick
  <2>1. UNCHANGED <<pendingLinks, profile, confirmation, verifiedLinks, issued, shown, spent,
                    evictedLinks>> /\ instant' = instant + 1
    BY <1>1 DEF Links!Tick
  <2>2. \A nonce \in DOMAIN issued : issued[nonce].expiresAt \in Nat
    BY <1>0 DEF Challenges
  <2>3. Bounds
    BY <2>1, <2>2 DEF LinkTypes
  <2> QED BY <2>1, <2>3 DEF ConfirmationShape
<1>2. ASSUME NEW w \in Sponsored, NEW n \in LinkNames, Links!CreateChallenge(w, n)
      PROVE  Bounds /\ Shapes /\ Linked
  <2>1. UNCHANGED <<instant, profile, confirmation, verifiedLinks, shown, spent>>
    BY <1>2 DEF Links!CreateChallenge
  <2>2. PICK new : issued' = Append(issued, new)
    BY <1>2 DEF Links!CreateChallenge
  <2>3. /\ DOMAIN issued' = DOMAIN issued \cup {Len(issued) + 1}
        /\ Len(issued) + 1 \notin DOMAIN issued
        /\ \A nonce \in DOMAIN issued : issued'[nonce] = issued[nonce]
    BY <2>2 DEF LinkTypes
  <2>4. PICK evicted :
          /\ pendingLinks' = ({p \in pendingLinks : ~ Links!Expired(p)} \ evicted)
                               \cup {Len(issued) + 1}
          /\ evictedLinks' = evictedLinks \cup evicted
    BY <1>2 DEF Links!CreateChallenge
  <2>5. \A nonce \in DOMAIN issued : issued[nonce].expiresAt \in Nat
    BY <1>0 DEF Challenges
  <2>6. Bounds
    BY <2>1, <2>3, <2>4, <2>5 DEF LinkTypes, Links!Expired
  <2>7. Shapes
    BY <2>1, <2>3, <2>4 DEF ConfirmationShape
  <2>8. Linked
    BY <2>1, <2>3 DEF ConfirmationShape
  <2> QED BY <2>6, <2>7, <2>8
<1>3. ASSUME NEW n \in LinkNames, NEW nonce \in DOMAIN issued \cup {None},
             Links!EditProfile(n, nonce)
      PROVE  Bounds /\ Shapes /\ Linked
  BY <1>3 DEF Links!EditProfile, ConfirmationShape
<1>4. ASSUME NEW c \in Confirmations, NEW nonce \in DOMAIN issued, NEW w \in Sponsored,
             Links!Confirm(c, nonce, w)
      PROVE  Bounds /\ Shapes /\ Linked
  <2>1. UNCHANGED <<instant, profile, verifiedLinks, issued, shown, spent, evictedLinks>>
    BY <1>4 DEF Links!Confirm
  <2>2. issued[nonce].expiresAt \in Nat /\ instant \in Nat
    BY <1>0 DEF Challenges, LinkTypes
  <2>3. Bounds
    BY <1>4, <2>1, <2>2 DEF Links!Confirm, Links!Expired
  <2> DEFINE accepted == nonce \in pendingLinks /\ ~ Links!Expired(nonce) /\ issued[nonce].wallet = w
  <2>4. PICK r :
          /\ confirmation' = [confirmation EXCEPT ![c] = r]
          /\ r.nonce = nonce /\ r.wallet = w /\ r.began = instant /\ (r.replayed <=> nonce \in spent)
          /\ r.at = IF accepted THEN "verifyProfile" ELSE "refused"
    <3>1. PICK r : r = [at |-> IF accepted THEN "verifyProfile" ELSE "refused", nonce |-> nonce,
                        wallet |-> w, began |-> instant, replayed |-> nonce \in spent]
      OBVIOUS
    <3>2. confirmation' = [confirmation EXCEPT ![c] = r]
      BY <1>4, <3>1, Zenon DEF Links!Confirm
    <3>3. r.nonce = nonce /\ r.wallet = w /\ r.began = instant
      BY <3>1
    <3>4. r.replayed <=> nonce \in spent
      BY <3>1
    <3>5. r.at = IF accepted THEN "verifyProfile" ELSE "refused"
      BY <3>1
    <3> QED BY <3>2, <3>3, <3>4, <3>5
  <2>5. \A d \in Confirmations : confirmation'[d] = IF d = c THEN r ELSE confirmation[d]
    BY <2>4 DEF LinkTypes
  <2>6. ConfirmationShape(r)'
    BY <2>1, <2>2, <2>4 DEF ConfirmationShape, Links!Expired
  <2>7. Shapes
    BY <2>1, <2>5, <2>6 DEF ConfirmationShape
  <2>8. confirmation[c].at = "idle"
    BY <1>4 DEF Links!Confirm
  <2>9. Linked
    BY <2>1, <2>5, <2>8
  <2> QED BY <2>3, <2>7, <2>9
<1>5. ASSUME NEW c \in Confirmations, Links!PlatformReads(c)
      PROVE  Bounds /\ Shapes /\ Linked
  <2>1. UNCHANGED <<instant, pendingLinks, profile, verifiedLinks, issued, spent, evictedLinks>>
        /\ confirmation[c].at = "verifyProfile" /\ shown \subseteq shown'
    BY <1>5 DEF Links!PlatformReads
  <2>2. PICK at : /\ confirmation' = [confirmation EXCEPT ![c].at = at]
                  /\ at \in {"profileVerified", "unproven"}
                  /\ at = "profileVerified" => confirmation[c].nonce \in shown'
    BY <1>5 DEF Links!PlatformReads
  <2>3. /\ \A d \in Confirmations \ {c} : confirmation'[d] = confirmation[d]
        /\ confirmation'[c].at = at /\ confirmation'[c].nonce = confirmation[c].nonce
        /\ confirmation'[c].wallet = confirmation[c].wallet
        /\ confirmation'[c].began = confirmation[c].began
        /\ confirmation'[c].replayed = confirmation[c].replayed
    BY <2>2 DEF LinkTypes, ConfirmationRecords
  <2>4. Shapes
    BY <2>1, <2>2, <2>3 DEF ConfirmationShape
  <2>5. Linked
    BY <2>1, <2>3
  <2> QED BY <2>1, <2>4, <2>5
<1>6. ASSUME NEW c \in Confirmations, Links!ProfileVerified(c)
      PROVE  Bounds /\ Shapes /\ Linked
  <2> DEFINE nonce == confirmation[c].nonce
  <2>1. UNCHANGED <<instant, profile, issued, shown, evictedLinks>>
        /\ confirmation[c].at = "profileVerified"
        /\ spent' = spent \cup {nonce} /\ pendingLinks' = pendingLinks \ {nonce}
    BY <1>6 DEF Links!ProfileVerified, Links!Remaining
  <2>2. confirmation' = [confirmation EXCEPT ![c].at = "linked"]
    BY <1>6 DEF Links!ProfileVerified
  <2>3. /\ \A d \in Confirmations \ {c} : confirmation'[d] = confirmation[d]
        /\ confirmation'[c].at = "linked" /\ confirmation'[c].nonce = confirmation[c].nonce
        /\ confirmation'[c].wallet = confirmation[c].wallet
        /\ confirmation'[c].began = confirmation[c].began
        /\ confirmation'[c].replayed = confirmation[c].replayed
    BY <2>2 DEF LinkTypes, ConfirmationRecords
  <2>4. nonce \in DOMAIN issued /\ issued[nonce].name \in LinkNames
    BY <1>0, <2>1 DEF ConfirmationShape, Challenges
  <2>5. Bounds
    BY <2>1, <2>4
  <2>6. Shapes
    BY <2>1, <2>3 DEF ConfirmationShape
  <2>7. \A n \in LinkNames :
          verifiedLinks'[n] = IF n = issued[nonce].name THEN confirmation[c].wallet
                              ELSE verifiedLinks[n]
    BY <1>6 DEF Links!ProfileVerified, LinkTypes
  <2>8. Linked
    BY <2>1, <2>3, <2>7
  <2> QED BY <2>5, <2>6, <2>8
<1>7. CASE UNCHANGED linksVars
  BY <1>7 DEF linksVars, ConfirmationShape
<1> QED
  BY <1>1, <1>2, <1>3, <1>4, <1>5, <1>6, <1>7 DEF Links!Next

\* A wallet is linked to a name only by a confirmation whose challenge was issued to that wallet
\* for that name, had neither expired nor been used, and was seen in the name's profile; and one
\* that comes in time from its wallet is refused at once only if its challenge was used or had to
\* make room (player-identity.ts).
THEOREM LinksNeedProof == Spec => []LinksAreProven
<1>1. Links!Init => LinkInv
  BY DEF Links!Init, Links!NoConfirmation, LinkInv, LinkTypes, LinkStages, ConfirmationRecords,
         ConfirmationShape
<1>2. LinkInv => LinksAreProven
  BY DEF LinkInv, ConfirmationShape, LinksAreProven, Links!LinksAreProven
<1> QED BY <1>1, <1>2, LinkInvNext, LinkSteps, PTL

-----------------------------------------------------------------------------
(* The backups of the queue database: Backups.                             *)

\* Of each behaviour of the services, the backups' part.
LEMMA BackupSteps == Spec => Backup!Init /\ [][Backup!Next]_backupVars
<1>1. Init => Backup!Init
  BY DEF Init
<1>2. [Next]_vars => [Backup!Next]_backupVars
  BY DEF Next, vars, backupVars
<1> QED BY <1>1, <1>2, PTL DEF Spec

\* The values the backups' variables take.
BackupTypes ==
  /\ date \in Backup!Days /\ commits \in Nat
  /\ main \in Nat \cup {Torn} /\ wal \in Nat \cup {None}
  /\ expected \in Nat \cup {None} /\ verified \subseteq Backup!Days
  /\ backups \in [Backup!Days -> Nat \cup {None, Torn}]
  /\ backupJob \in [at : {"idle", "vacuum", "verify"}, day : Backup!Days, read : Nat \cup {None}]
  /\ restoreJob \in [at : {"idle", "copy", "copying", "copied", "logRemoved"},
                     day : Backup!Days, read : Nat \cup {None}]

\* The two commands: what they have read is whole, the copy a restore is about
\* to rename is what its backup held and there is no log beside it, and a
\* backup that is to be copied has at most been pruned on a later day.
JobShapes ==
  /\ backupJob.at = "vacuum" => backupJob.read \in Nat
  /\ restoreJob.day <= date /\ backupJob.day <= date
  /\ \A d \in Backup!Days : d > date => backups[d] = None
  /\ restoreJob.at # "idle" => ~ serving
  /\ restoreJob.at = "copy" =>
       backups[restoreJob.day] # Torn /\ (backups[restoreJob.day] = None => restoreJob.day < date)
  /\ restoreJob.at \in {"copying", "copied", "logRemoved"} => restoreJob.read \in Nat
  /\ restoreJob.at \in {"copied", "logRemoved"} => staging = restoreJob.read
  /\ restoreJob.at = "logRemoved" => wal = None

\* What the database's files, the backups and the two jobs keep to.
BackupInv ==
  /\ BackupTypes
  /\ JobShapes
  /\ serving /\ main = Torn => wal # None
  /\ Backup!BackupsHold

\* What pruning keeps: every backup within its retention.
LEMMA PruneKeepsYoung ==
  ASSUME BackupTypes
  PROVE  /\ Backup!Pruned \in [Backup!Days -> Nat \cup {None, Torn}]
         /\ \A d \in Backup!Days :
              \/ Backup!Pruned[d] = backups[d]
              \/ Backup!Pruned[d] = None /\ date - d > RetentionDays
BY DEF BackupTypes, Backup!Pruned

\* Every step keeps the invariant.
LEMMA BackupInvNext ==
  ASSUME BackupInv, [Backup!Next]_backupVars
  PROVE  BackupInv'
<1> USE DEF BackupInv, BackupTypes, JobShapes, Backup!BackupsHold, Backup!Contents, Backup!Whole,
            Backup!Days, Backup!Idle
<1>0. /\ RetentionDays \in Nat \ {0} /\ LastBackupDay \in Nat
      /\ None \notin Nat /\ Torn \notin Nat /\ None # Torn
  BY ServicesAssumption DEF Backup!BackupAssumption
<1>1. CASE Backup!Commit
  BY <1>0, <1>1 DEF Backup!Commit
<1>2. CASE Backup!CheckpointStarts
  BY <1>0, <1>2 DEF Backup!CheckpointStarts
<1>3. CASE Backup!CheckpointEnds
  BY <1>0, <1>3 DEF Backup!CheckpointEnds
<1>4. CASE Backup!Stops
  BY <1>0, <1>4 DEF Backup!Stops
<1>5. CASE Backup!Starts
  BY <1>0, <1>5 DEF Backup!Starts
<1>6. CASE Backup!Midnight
  <2>1. UNCHANGED <<commits, main, wal, serving, backups, backupJob, restoreJob, staging,
                    verified, expected>> /\ date' = date + 1 /\ date' \in Backup!Days
    BY <1>0, <1>6 DEF Backup!Midnight
  <2>2. BackupTypes' /\ JobShapes'
    BY <1>0, <2>1
  <2>3. Backup!BackupsHold'
    BY <1>0, <2>1
  <2> QED BY <2>1, <2>2, <2>3
<1>7. CASE Backup!StartBackup
  BY <1>0, <1>7 DEF Backup!StartBackup
<1>8. CASE Backup!VacuumEnds
  <2> DEFINE day == backupJob.day
  <2>1. /\ UNCHANGED <<date, commits, main, wal, serving, restoreJob, staging, verified, expected>>
        /\ backupJob.at = "vacuum" /\ backupJob' = [backupJob EXCEPT !.at = "verify"]
        /\ backups' = [backups EXCEPT ![day] = backupJob.read]
    BY <1>8 DEF Backup!VacuumEnds
  <2>2. /\ day \in Backup!Days /\ day <= date
        /\ backupJob' = [at |-> "verify", day |-> day, read |-> backupJob.read]
        /\ \A d \in Backup!Days : backups'[d] = IF d = day THEN backupJob.read ELSE backups[d]
    BY <2>1
  <2>3. BackupTypes'
    BY <1>0, <2>1, <2>2
  <2>4. JobShapes'
    BY <1>0, <2>1, <2>2
  <2>5. Backup!BackupsHold'
    BY <1>0, <2>1, <2>2
  <2> QED BY <2>1, <2>3, <2>4, <2>5
<1>9. CASE Backup!VerifyAndPrune
  <2>1. /\ UNCHANGED <<date, commits, main, wal, serving, restoreJob, staging, expected>>
        /\ backupJob' = [at |-> "idle", day |-> 0, read |-> None]
    BY <1>9 DEF Backup!VerifyAndPrune
  <2>2. CASE UNCHANGED <<backups, verified>>
    BY <1>0, <2>1, <2>2
  <2>3. CASE /\ backups[backupJob.day] \notin {None, Torn}
             /\ verified' = verified \cup {backupJob.day} /\ backups' = Backup!Pruned
    <3>1. BackupTypes'
      <4>1. backupJob.day \in Backup!Days
        OBVIOUS
      <4>2. verified' \subseteq Backup!Days
        BY <2>3, <4>1
      <4>3. backups' \in [Backup!Days -> Nat \cup {None, Torn}]
        BY <2>3, PruneKeepsYoung
      <4>4. backupJob' \in [at : {"idle", "vacuum", "verify"}, day : Backup!Days,
                            read : Nat \cup {None}]
        BY <1>0, <2>1
      <4> QED BY <2>1, <4>2, <4>3, <4>4
    <3>2. JobShapes'
      BY <1>0, <2>1, <2>3, PruneKeepsYoung
    <3>3. \A d \in verified' : date - d <= RetentionDays => backups[d] \notin {None, Torn}
      BY <2>3
    <3>4. Backup!BackupsHold'
      BY <1>0, <2>1, <2>3, <3>3, PruneKeepsYoung
    <3> QED BY <2>1, <3>1, <3>2, <3>4
  <2> QED BY <1>9, <2>2, <2>3 DEF Backup!VerifyAndPrune
<1>10. CASE Backup!Prune
  <2>1. UNCHANGED <<date, commits, main, wal, serving, backupJob, restoreJob, staging, verified,
                    expected>> /\ backups' = Backup!Pruned
    BY <1>10 DEF Backup!Prune
  <2> QED BY <1>0, <2>1, PruneKeepsYoung
<1>11. CASE Backup!BackupDies
  BY <1>0, <1>11 DEF Backup!BackupDies
<1>12. ASSUME NEW d \in Backup!Days, Backup!StartRestore(d)
       PROVE  BackupInv'
  <2>1. UNCHANGED <<date, commits, main, wal, serving, backups, backupJob, staging, verified,
                    expected>>
        /\ ~ serving /\ backups[d] \in Nat
        /\ restoreJob' = [at |-> "copy", day |-> d, read |-> None]
    BY <1>12 DEF Backup!StartRestore
  <2>2. d <= date
    BY <1>0, <2>1
  <2> QED BY <1>0, <2>1, <2>2
<1>13. CASE Backup!CopyStarts
  <2>1. UNCHANGED <<date, commits, main, wal, serving, backups, backupJob, verified, expected>>
        /\ restoreJob.at = "copy"
    BY <1>13 DEF Backup!CopyStarts
  <2>2. CASE restoreJob' = Backup!Idle
    BY <1>0, <2>1, <2>2
  <2>3. CASE /\ backups[restoreJob.day] # None
             /\ restoreJob' = [restoreJob EXCEPT !.at = "copying",
                                                 !.read = backups[restoreJob.day]]
    <3>1. backups[restoreJob.day] \in Nat
      BY <2>1, <2>3
    <3>2. restoreJob' = [at |-> "copying", day |-> restoreJob.day,
                         read |-> backups[restoreJob.day]]
      BY <2>3
    <3> QED BY <1>0, <2>1, <3>1, <3>2
  <2> QED BY <1>13, <2>2, <2>3 DEF Backup!CopyStarts
<1>14. CASE Backup!CopyEnds
  BY <1>0, <1>14 DEF Backup!CopyEnds
<1>15. CASE Backup!RemoveLog
  BY <1>0, <1>15 DEF Backup!RemoveLog, Backup!LogAfterRestore
<1>16. CASE Backup!Rename
  BY <1>0, <1>16 DEF Backup!Rename
<1>17. CASE Backup!RestoreDies
  BY <1>0, <1>17 DEF Backup!RestoreDies
<1>18. CASE UNCHANGED backupVars
  BY <1>18 DEF backupVars
<1> QED
  BY <1>1, <1>2, <1>3, <1>4, <1>5, <1>6, <1>7, <1>8, <1>9, <1>10, <1>11, <1>12, <1>13, <1>14,
     <1>15, <1>16, <1>17, <1>18 DEF Backup!Next

\* The database holds all that was committed to it, or what the restored backup held, unless a
\* restore died between the log and the rename; and a backup reported as taken stays whole for its
\* retention, whichever commands run or die.
THEOREM NothingSafeIsLost == Spec => []BackupsHold
<1>0. /\ RetentionDays \in Nat \ {0} /\ LastBackupDay \in Nat
      /\ None \notin Nat /\ Torn \notin Nat /\ None # Torn
  BY ServicesAssumption DEF Backup!BackupAssumption
<1>1. Backup!Init => BackupInv
  BY <1>0 DEF Backup!Init, BackupInv, BackupTypes, JobShapes, Backup!BackupsHold,
     Backup!Contents, Backup!Days, Backup!Idle
<1>2. BackupInv => BackupsHold
  BY DEF BackupInv, BackupsHold
<1> QED BY <1>1, <1>2, BackupInvNext, BackupSteps, PTL

-----------------------------------------------------------------------------
(* The intake of matches and the verification of results: MatchIntake.     *)

\* Of each behaviour of the services, the intake of matches.
LEMMA IntakeSteps == Spec => Intake!Init /\ [][Intake!Next]_intakeVars
<1>1. Init => Intake!Init
  BY DEF Init
<1>2. [Next]_vars => [Intake!Next]_intakeVars
  BY DEF Next, vars, intakeVars
<1> QED BY <1>1, <1>2, PTL DEF Spec

\* The records of a creation and of a verification, and the entries of the evidence.
CreationRecords ==
  [at : {"idle", "fetching", "refused", "inserting", "created", "duplicate", "lost"},
   players : IntakeOpponents \cup {None}, game : IntakeGames \cup {None},
   platform : IntakePlatforms \cup {None}, names : Pairs \cup {None}, id : Intake!Ids \cup {None}]
VerificationDecisions == {"player_identity_mismatch", "identity_hash_mismatch", "verified"}
VerificationRecords ==
  [at : {"idle", "fetching", "refused", "saving", "lost"} \cup VerificationDecisions,
   id : Intake!Ids \cup {None}, names : Pairs \cup {None}, answer : Pairs \cup {None},
   decision : VerificationDecisions \cup {None}]

EvidenceEntries ==
  [id : Intake!Ids \cup {None}, answer : Pairs \cup {None}, decision : VerificationDecisions \cup {None}]

\* The values the intake's variables take.
IntakeTypes ==
  /\ store \in {"memory", "sqlite"}
  /\ match \in [Intake!Ids -> Intake!Records \cup {None}]
  /\ nextId \in Nat
  /\ creation \in [Creations -> CreationRecords]
  /\ verification \in [IntakeChecks -> VerificationRecords]
  /\ evidence \in Seq(EvidenceEntries)
  /\ born \in [Intake!Ids -> Pairs \cup {None}]

\* What a creation knows: while it waits for its game, what it asked for; while
\* it waits for the database, an id no other has; and once it is answered,
\* what is on record.
CreationShape(r) ==
  /\ r.at \in {"fetching", "inserting"} =>
       r.players \in IntakeOpponents /\ r.game \in IntakeGames /\ r.platform \in IntakePlatforms
  /\ r.at = "inserting" =>
       /\ store = "sqlite" /\ r.names \in Pairs
       /\ r.id \in Intake!Ids /\ r.id < nextId /\ match[r.id] = None
  /\ r.at = "created" =>
       /\ r.id \in Intake!Ids /\ match[r.id] # None
       /\ match[r.id].players = r.players /\ match[r.id].game = r.game
       /\ born[r.id] = r.names
  /\ r.at = "duplicate" => Intake!GameTaken(r.game)

\* What a verification has read of the record it is about.
VerificationShape(r) ==
  /\ r.at \in {"fetching", "saving"} => r.id \in Intake!Stored
  /\ r.at = "fetching" /\ store = "sqlite" => r.names = born[r.id]
  /\ r.at = "saving" =>
       /\ store = "sqlite" /\ r.decision \in VerificationDecisions
       /\ r.decision = "verified" => Intake!SamePlayers(born[r.id], r.answer)

\* What is stored, what a creation found, and what a verification read.
IntakeInv ==
  /\ IntakeTypes
  /\ \A i \in Intake!Stored :
       /\ i < nextId
       /\ match[i].names = IF i \in unlinked THEN None ELSE born[i]
  /\ \A i, j \in Intake!Stored : match[i].game = match[j].game => i = j
  /\ unlinked \subseteq Intake!Stored /\ (store = "sqlite" => unlinked = {})
  /\ \A c, d \in Creations :
       creation[c].at = "inserting" /\ creation[d].at = "inserting"
       /\ creation[c].id = creation[d].id => c = d
  /\ \A c \in Creations : CreationShape(creation[c])
  /\ \A v \in IntakeChecks : VerificationShape(verification[v])

\* What the run's constants are, as far as the proofs use it.
LEMMA IntakeConstants ==
  /\ LastId \in Nat /\ None \notin Pairs /\ None \notin Intake!Records
  /\ \A g \in IntakeGames : IntakePlayers[g] \in Pairs
  /\ \A game \in IntakeCreatable : game[1] \in IntakeGames /\ game[2] \in IntakePlatforms
BY ServicesAssumption DEF Intake!IntakeAssumption

\* A restarted store counts on from above every id it holds.
LEMMA FirstIdIsFree ==
  ASSUME IntakeTypes
  PROVE  Intake!FirstId \in Nat /\ \A i \in Intake!Stored : i < Intake!FirstId
<1> USE DEF Intake!Ids
<1>1. CASE Intake!Stored = {}
  BY <1>1 DEF Intake!FirstId
<1>2. CASE Intake!Stored # {}
  <2>1. PICK i \in Intake!Stored : TRUE
    BY <1>2
  <2>2. Intake!Stored \subseteq 0 .. LastId /\ LastId \in Nat
    BY IntakeConstants DEF Intake!Stored
  <2> DEFINE S == {k \in Nat : LastId - k \in Intake!Stored}
  <2>3. LastId - i \in S
    BY <2>1, <2>2
  <2>4. PICK k \in S : \A j \in S : k <= j
    BY <2>3, LeastNat
  <2>5. \A j \in Intake!Stored : LastId - j \in S
    BY <2>2
  <2>6. \A j \in Intake!Stored : j <= LastId - k
    BY <2>2, <2>4, <2>5
  <2>7. LastId - k \in Intake!Stored
    BY <2>4
  <2> DEFINE last == CHOOSE m \in Intake!Stored : \A j \in Intake!Stored : j <= m
  <2>8. last \in Intake!Stored /\ \A j \in Intake!Stored : j <= last
    BY <2>6, <2>7, Zenon
  <2>9. Intake!FirstId = 1 + last
    BY <1>2 DEF Intake!FirstId
  <2> HIDE DEF last
  <2> QED BY <2>2, <2>8, <2>9
<1> QED BY <1>1, <1>2

\* Every step keeps the types.
LEMMA IntakeTypesNext ==
  ASSUME IntakeInv, [Intake!Next]_intakeVars
  PROVE  IntakeTypes'
<1> USE DEF IntakeInv, IntakeTypes
<1>0. \A n \in Nat : n <= Len(evidence) =>
        SubSeq(evidence, n + 1, Len(evidence)) \in
          Seq(EvidenceEntries)
  <2>1. ASSUME NEW e \in Seq(EvidenceEntries), NEW n \in Nat, n <= Len(e)
        PROVE  SubSeq(e, n + 1, Len(e)) \in Seq(EvidenceEntries) /\ Len(SubSeq(e, n + 1, Len(e))) <= Len(e)
    BY <2>1, SubSeqProperties
  <2> QED BY <2>1
<1>1. ASSUME NEW c \in Creations, NEW players \in IntakeOpponents, NEW game \in IntakeCreatable,
             Intake!RequestMatch(c, players, game[1], game[2])
      PROVE  IntakeTypes'
  <2>1. PICK r : r = [Intake!NoCreation EXCEPT !.at = "fetching", !.players = players,
                                               !.game = game[1], !.platform = game[2]]
    OBVIOUS
  <2>2. r \in CreationRecords
    BY <2>1, IntakeConstants DEF CreationRecords, Intake!NoCreation
  <2>3. creation' = [creation EXCEPT ![c] = r]
    BY <1>1, <2>1, Zenon DEF Intake!RequestMatch
  <2> QED BY <1>1, <2>2, <2>3 DEF Intake!RequestMatch, Intake!recordVars
<1>2. ASSUME NEW c \in Creations, Intake!GameRefused(c)
      PROVE  IntakeTypes'
  <2>0. creation[c] \in CreationRecords
    OBVIOUS
  <2>1. [creation[c] EXCEPT !.at = "refused"] \in CreationRecords
    BY <2>0 DEF CreationRecords
  <2> QED BY <1>2, <2>1 DEF Intake!GameRefused, Intake!recordVars
<1>3. ASSUME NEW c \in Creations, Intake!GameFound(c)
      PROVE  IntakeTypes'
  <2>1. creation[c].at = "fetching" /\ nextId \in Intake!Ids
        /\ UNCHANGED <<store, verification, evidence>>
    BY <1>3 DEF Intake!GameFound
  <2>2. PICK names : names = IntakePlayers[creation[c].game]
    OBVIOUS
  <2>3. /\ creation[c].players \in IntakeOpponents /\ creation[c].game \in IntakeGames
        /\ creation[c].platform \in IntakePlatforms /\ names \in Pairs
    BY <2>1, <2>2, IntakeConstants DEF CreationShape
  <2>4. Intake!RecordOf(creation[c], names) \in Intake!Records
    BY <2>3 DEF Intake!RecordOf, Intake!Records
  <2>5. /\ \A at \in {"inserting", "created"} :
             [creation[c] EXCEPT !.at = at, !.names = names, !.id = nextId] \in CreationRecords
        /\ [creation[c] EXCEPT !.at = "duplicate"] \in CreationRecords
    <3>1. PICK r \in CreationRecords : r = creation[c]
      OBVIOUS
    <3>2. \A at \in {"inserting", "created"} :
            [r EXCEPT !.at = at, !.names = names, !.id = nextId] \in CreationRecords
      BY <2>1, <2>3 DEF CreationRecords
    <3>3. [r EXCEPT !.at = "duplicate"] \in CreationRecords
      BY DEF CreationRecords
    <3> QED BY <3>1, <3>2, <3>3
  <2>6. \/ /\ creation' = [creation EXCEPT ![c].at = "inserting", ![c].names = names,
                                           ![c].id = nextId]
           /\ nextId' = nextId + 1 /\ UNCHANGED <<match, born>>
        \/ creation' = [creation EXCEPT ![c].at = "duplicate"] /\ UNCHANGED <<nextId, match, born>>
        \/ /\ creation' = [creation EXCEPT ![c].at = "created", ![c].names = names,
                                           ![c].id = nextId]
           /\ match' = [match EXCEPT ![nextId] = Intake!RecordOf(creation[c], names)]
           /\ born' = [born EXCEPT ![nextId] = Intake!RecordOf(creation[c], names).names]
           /\ nextId' = nextId + 1
    BY <1>3, <2>2, Zenon DEF Intake!GameFound, Intake!recordVars, Intake!Insert
  <2>7. Intake!RecordOf(creation[c], names).names = names
    BY DEF Intake!RecordOf
  <2>8. creation' \in [Creations -> CreationRecords]
    BY <2>5, <2>6
  <2>9. /\ match' \in [Intake!Ids -> Intake!Records \cup {None}]
        /\ born' \in [Intake!Ids -> Pairs \cup {None}] /\ nextId' \in Nat
    BY <2>3, <2>4, <2>6, <2>7
  <2> QED BY <2>1, <2>8, <2>9
<1>4. ASSUME NEW c \in Creations, Intake!InsertRow(c)
      PROVE  IntakeTypes'
  <2>1. creation[c].at = "inserting" /\ UNCHANGED <<store, nextId, verification, evidence>>
    BY <1>4 DEF Intake!InsertRow, Intake!recordVars, Intake!Insert
  <2>2. /\ creation[c].players \in IntakeOpponents /\ creation[c].game \in IntakeGames
        /\ creation[c].platform \in IntakePlatforms /\ creation[c].names \in Pairs
        /\ creation[c].id \in Intake!Ids
    BY <2>1 DEF CreationShape
  <2>3. PICK record : record = Intake!RecordOf(creation[c], creation[c].names)
    OBVIOUS
  <2>4. record \in Intake!Records /\ record.names \in Pairs
    BY <2>2, <2>3 DEF Intake!RecordOf, Intake!Records
  <2>5. \A at \in {"duplicate", "created"} : [creation[c] EXCEPT !.at = at] \in CreationRecords
    <3>1. PICK r \in CreationRecords : r = creation[c]
      OBVIOUS
    <3>2. \A at \in {"duplicate", "created"} : [r EXCEPT !.at = at] \in CreationRecords
      BY DEF CreationRecords
    <3> QED BY <3>1, <3>2
  <2>6. \/ creation' = [creation EXCEPT ![c].at = "duplicate"] /\ UNCHANGED <<match, born>>
        \/ /\ creation' = [creation EXCEPT ![c].at = "created"]
           /\ match' = [match EXCEPT ![creation[c].id] = record]
           /\ born' = [born EXCEPT ![creation[c].id] = record.names]
    BY <1>4, <2>3, Zenon DEF Intake!InsertRow, Intake!recordVars, Intake!Insert
  <2> QED BY <2>1, <2>4, <2>5, <2>6
<1>5. ASSUME NEW w \in Sponsored, Intake!Unlink(w)
      PROVE  IntakeTypes'
  <2>1. \A i \in Intake!Stored : match[i] \in Intake!Records
    BY DEF Intake!Stored
  <2>2. ASSUME NEW i \in Intake!Stored
        PROVE  [match[i] EXCEPT !.names = None, !.hash = None] \in Intake!Records
    <3>1. PICK record \in Intake!Records : record = match[i]
      BY <2>1
    <3>2. [record EXCEPT !.names = None, !.hash = None] \in Intake!Records
      BY DEF Intake!Records
    <3> QED BY <3>1, <3>2
  <2> DEFINE gone == {i \in Intake!Stored : w \in {match[i].players[1], match[i].players[2]}}
  <2>3. match' = [i \in Intake!Ids |-> IF i \in gone
                                  THEN [match[i] EXCEPT !.names = None, !.hash = None]
                                  ELSE match[i]]
    BY <1>5, Zenon DEF Intake!Unlink
  <2>4. gone \subseteq Intake!Stored
    OBVIOUS
  <2> HIDE DEF gone
  <2>5. match' \in [Intake!Ids -> Intake!Records \cup {None}]
    BY <2>2, <2>3, <2>4
  <2> QED BY <1>5, <2>5 DEF Intake!Unlink
<1>6. ASSUME NEW v \in IntakeChecks,
             \/ Intake!FetchFails(v) \/ Intake!EvidenceFails(v)
             \/ \E g \in IntakeGames, platform \in IntakePlatforms : Intake!Verify(v, g, platform)
      PROVE  IntakeTypes'
  <2>1. UNCHANGED <<store, match, nextId, born, creation, evidence>>
    BY <1>6 DEF Intake!FetchFails, Intake!EvidenceFails, Intake!Verify, Intake!recordVars
  <2>2. PICK r : verification' = [verification EXCEPT ![v] = r] /\
          \/ r = [verification[v] EXCEPT !.at = "refused"]
          \/ r = [Intake!NoVerification EXCEPT !.at = "refused"]
          \/ \E i \in Intake!Stored : match[i].names # None /\
               r = [Intake!NoVerification EXCEPT !.at = "fetching", !.id = i, !.names = match[i].names]
    <3>1. CASE Intake!FetchFails(v) \/ Intake!EvidenceFails(v)
      <4>1. verification' = [verification EXCEPT ![v] = [verification[v] EXCEPT !.at = "refused"]]
        BY <3>1 DEF Intake!FetchFails, Intake!EvidenceFails
      <4> QED BY <4>1, Zenon
    <3>2. ASSUME NEW g \in IntakeGames, NEW platform \in IntakePlatforms, Intake!Verify(v, g, platform)
          PROVE  \E r : verification' = [verification EXCEPT ![v] = r] /\
          \/ r = [Intake!NoVerification EXCEPT !.at = "refused"]
          \/ \E i \in Intake!Stored : match[i].names # None /\
               r = [Intake!NoVerification EXCEPT !.at = "fetching", !.id = i, !.names = match[i].names]
      <4>1. PICK i \in Intake!Stored \cup {None} :
              /\ i = None \/ match[i].game = g
              /\ verification' = [verification EXCEPT ![v] =
                   IF i = None \/ match[i].names = None \/ match[i].platform # platform
                   THEN [Intake!NoVerification EXCEPT !.at = "refused"]
                   ELSE [Intake!NoVerification EXCEPT !.at = "fetching", !.id = i,
                                                     !.names = match[i].names]]
        BY <3>2, Zenon DEF Intake!Verify
      <4>2. CASE i = None \/ match[i].names = None \/ match[i].platform # platform
        BY <4>1, <4>2, Zenon
      <4>3. CASE ~ (i = None \/ match[i].names = None \/ match[i].platform # platform)
        <5>1. i \in Intake!Stored /\ match[i].names # None
          BY <4>3
        <5>2. verification' = [verification EXCEPT ![v] =
                  [Intake!NoVerification EXCEPT !.at = "fetching", !.id = i,
                                                     !.names = match[i].names]]
          BY <4>1, <4>3, Zenon
        <5> QED BY <5>1, <5>2, Zenon
      <4> QED BY <4>2, <4>3
    <3> QED BY <1>6, <3>1, <3>2, Zenon
  <2>3. r \in VerificationRecords
    <3>1. CASE r = [verification[v] EXCEPT !.at = "refused"]
      BY <3>1 DEF VerificationRecords
    <3>2. CASE r = [Intake!NoVerification EXCEPT !.at = "refused"]
      BY <3>2 DEF VerificationRecords, Intake!NoVerification
    <3>3. ASSUME NEW i \in Intake!Stored, match[i].names # None,
                 r = [Intake!NoVerification EXCEPT !.at = "fetching", !.id = i, !.names = match[i].names]
          PROVE  r \in VerificationRecords
      <4>1. match[i] \in Intake!Records /\ i \in Intake!Ids
        BY DEF Intake!Stored
      <4>2. match[i].names \in Pairs
        BY <3>3, <4>1 DEF Intake!Records
      <4> QED BY <3>3, <4>1, <4>2 DEF VerificationRecords, Intake!NoVerification
    <3> QED BY <2>2, <3>1, <3>2, <3>3, Zenon
  <2> QED BY <2>1, <2>2, <2>3
<1>7. ASSUME NEW v \in IntakeChecks,
             \/ Intake!SaveEvidence(v)
             \/ \E answer \in Pairs : Intake!ResultFetched(v, answer)
      PROVE  IntakeTypes'
  <2>0. verification[v] \in VerificationRecords
    OBVIOUS
  <2>1. UNCHANGED <<store, match, nextId, born, creation>>
    BY <1>7 DEF Intake!SaveEvidence, Intake!ResultFetched, Intake!recordVars
  <2>2. /\ \A answer \in Pairs, decision \in VerificationDecisions :
             [id |-> verification[v].id, answer |-> answer, decision |-> decision] \in
               EvidenceEntries
        /\ [id |-> verification[v].id, answer |-> verification[v].answer,
            decision |-> verification[v].decision] \in
               EvidenceEntries
    BY <2>0 DEF VerificationRecords, EvidenceEntries
  <2>3. \A answer : Intake!Decision(v, answer) \in VerificationDecisions
    BY DEF Intake!Decision, VerificationDecisions
  <2>4. CASE Intake!SaveEvidence(v)
    <3>1. verification[v].decision \in VerificationDecisions
      BY <2>4 DEF Intake!SaveEvidence, VerificationShape
    <3>2. [verification[v] EXCEPT !.at = verification[v].decision] \in VerificationRecords
      BY <2>0, <3>1 DEF VerificationRecords
    <3> QED BY <2>1, <2>2, <2>4, <3>2 DEF Intake!SaveEvidence, Intake!Entry
  <2>5. ASSUME NEW answer \in Pairs, Intake!ResultFetched(v, answer)
        PROVE  IntakeTypes'
    <3>1. PICK decision \in VerificationDecisions : decision = Intake!Decision(v, answer)
      BY <2>3
    <3>2. /\ [verification[v] EXCEPT !.at = decision, !.answer = answer] \in VerificationRecords
          /\ [verification[v] EXCEPT !.at = "saving", !.answer = answer, !.decision = decision]
               \in VerificationRecords
      BY <2>0 DEF VerificationRecords
    <3>3. \/ /\ evidence' = Append(evidence, Intake!Entry(v, answer, decision))
             /\ verification' = [verification EXCEPT ![v].at = decision, ![v].answer = answer]
          \/ /\ verification' = [verification EXCEPT ![v].at = "saving", ![v].answer = answer,
                                                    ![v].decision = decision]
             /\ UNCHANGED evidence
      BY <2>5, <3>1, Zenon DEF Intake!ResultFetched
    <3>4. evidence' \in Seq(EvidenceEntries)
      <4>1. PICK e : e = Intake!Entry(v, answer, decision)
        OBVIOUS
      <4>2. e \in EvidenceEntries
        BY <2>2, <4>1 DEF Intake!Entry
      <4>3. evidence' = Append(evidence, e) \/ evidence' = evidence
        BY <3>3, <4>1, Zenon
      <4> QED BY <4>2, <4>3
    <3>5. verification' \in [IntakeChecks -> VerificationRecords]
      BY <3>2, <3>3
    <3> QED BY <2>1, <3>4, <3>5
  <2> QED BY <1>7, <2>4, <2>5
<1>8. ASSUME NEW n \in 1 .. Len(evidence), Intake!ForgetEvidence(n)
      PROVE  IntakeTypes'
  BY <1>0, <1>8 DEF Intake!ForgetEvidence, Intake!recordVars, Intake!Kept
<1>9. CASE Intake!Restart
  <2>1. UNCHANGED store
    BY <1>9 DEF Intake!Restart
  <2>2. verification' \in [IntakeChecks -> VerificationRecords]
    <3>1. [Intake!NoVerification EXCEPT !.at = "lost"] \in VerificationRecords
      BY DEF Intake!NoVerification, VerificationRecords
    <3>2. \A v \in IntakeChecks :
            Intake!Dies(verification[v], Intake!NoVerification) \in VerificationRecords
      BY <3>1 DEF Intake!Dies
    <3> QED BY <1>9, <3>2 DEF Intake!Restart
  <2>3. creation' \in [Creations -> CreationRecords]
    <3>1. /\ [Intake!NoCreation EXCEPT !.at = "lost"] \in CreationRecords
          /\ Intake!NoCreation \in CreationRecords
      BY DEF Intake!NoCreation, CreationRecords
    <3>2. \A c \in Creations : Intake!Dies(creation[c], Intake!NoCreation) \in CreationRecords
      BY <3>1 DEF Intake!Dies
    <3> QED BY <1>9, <3>1, <3>2 DEF Intake!Restart
  <2>4. evidence' \in Seq(EvidenceEntries)
    <3>1. CASE \E n \in 0 .. Len(evidence) : evidence' = Intake!Kept(n)
      BY <1>0, <3>1 DEF Intake!Kept
    <3>2. CASE evidence' = << >>
      BY <3>2
    <3> QED BY <1>9, <3>1, <3>2 DEF Intake!Restart
  <2>5. nextId' \in Nat
    BY <1>9, FirstIdIsFree DEF Intake!Restart
  <2>6. /\ match' \in [Intake!Ids -> Intake!Records \cup {None}]
        /\ born' \in [Intake!Ids -> Pairs \cup {None}]
    BY <1>9 DEF Intake!Restart
  <2> QED BY <2>1, <2>2, <2>3, <2>4, <2>5, <2>6
<1>10. CASE UNCHANGED intakeVars
  BY <1>10 DEF intakeVars
<1> QED
  BY <1>1, <1>2, <1>3, <1>4, <1>5, <1>6, <1>7, <1>8, <1>9, <1>10, Zenon DEF Intake!Next

\* The records and what is known of them.
StoredInv ==
  /\ \A i \in Intake!Stored :
       i < nextId /\ match[i].names = IF i \in unlinked THEN None ELSE born[i]
  /\ \A i, j \in Intake!Stored : match[i].game = match[j].game => i = j
  /\ unlinked \subseteq Intake!Stored /\ (store = "sqlite" => unlinked = {})

\* Two creations about to insert have different identifiers.
IdsDiffer ==
  \A c, d \in Creations :
    creation[c].at = "inserting" /\ creation[d].at = "inserting"
    /\ creation[c].id = creation[d].id => c = d

\* An insertion of a game that is not stored adds one record and leaves the others.
LEMMA StoreGrows ==
  ASSUME IntakeInv, NEW i \in Intake!Ids, match[i] = None, NEW r, NEW names \in Pairs,
         ~ Intake!GameTaken(r.game), i < nextId', nextId' >= nextId, nextId' \in Nat,
         Intake!RecordOf(r, names) \in Intake!Records, Intake!Insert(i, Intake!RecordOf(r, names)),
         UNCHANGED store
  PROVE  /\ StoredInv'
         /\ Intake!Stored' = Intake!Stored \cup {i}
         /\ \A j \in Intake!Stored : match'[j] = match[j] /\ born'[j] = born[j]
         /\ match'[i].players = r.players /\ match'[i].game = r.game /\ born'[i] = names
<1> USE DEF IntakeInv, IntakeTypes
<1>1. PICK record \in Intake!Records : record = Intake!RecordOf(r, names)
  OBVIOUS
<1>2. record.players = r.players /\ record.game = r.game /\ record.names = names
  BY <1>1 DEF Intake!RecordOf
<1>3. /\ match' = [match EXCEPT ![i] = record] /\ born' = [born EXCEPT ![i] = names]
      /\ UNCHANGED unlinked
  BY <1>1, <1>2 DEF Intake!Insert
<1>4. record # None
  BY <1>1, IntakeConstants
<1>5. Intake!Stored' = Intake!Stored \cup {i} /\ i \notin Intake!Stored
  BY <1>3, <1>4 DEF Intake!Stored
<1>6. \A j \in Intake!Ids : /\ match'[j] = IF j = i THEN record ELSE match[j]
                            /\ born'[j] = IF j = i THEN names ELSE born[j]
  BY <1>3
<1>7. Intake!Stored \subseteq Intake!Ids /\ Intake!Ids \subseteq Nat
  BY DEF Intake!Stored, Intake!Ids
<1>8. \A j \in Intake!Stored : match[j].game # record.game
  BY <1>2 DEF Intake!GameTaken
<1>9. StoredInv'
  <2>1. \A j \in Intake!Stored' :
          j < nextId' /\ match'[j].names = IF j \in unlinked' THEN None ELSE born'[j]
    BY <1>2, <1>3, <1>5, <1>6, <1>7
  <2>2. \A j, k \in Intake!Stored' : match'[j].game = match'[k].game => j = k
    BY <1>5, <1>6, <1>7, <1>8
  <2> QED BY <2>1, <2>2, <1>3, <1>5 DEF StoredInv
<1> QED BY <1>2, <1>5, <1>6, <1>7, <1>9

\* A creation that waits for its game or is answered keeps what it knows.
LEMMA CreationKeeps ==
  ASSUME IntakeInv, NEW r \in CreationRecords, CreationShape(r), UNCHANGED store,
         Intake!Stored \subseteq Intake!Stored', nextId' >= nextId, nextId' \in Nat,
         \A j \in Intake!Stored : /\ match'[j].players = match[j].players
                                  /\ match'[j].game = match[j].game /\ born'[j] = born[j],
         r.at = "inserting" => match'[r.id] = None
  PROVE  CreationShape(r)'
<1>1. \A j \in Intake!Ids : j \in Nat /\ (j \in Intake!Stored <=> match[j] # None)
  BY DEF Intake!Stored, Intake!Ids
<1>2. r.at = "created" => r.id \in Intake!Stored /\ match'[r.id] # None
  BY <1>1 DEF CreationShape, Intake!Stored
<1>3. r.at = "inserting" => r.id < nextId'
  BY <1>1 DEF CreationShape, IntakeInv, IntakeTypes
<1>4. r.at = "duplicate" => Intake!GameTaken(r.game)'
  BY DEF CreationShape, Intake!GameTaken
<1> QED BY <1>2, <1>3, <1>4 DEF CreationShape

\* Every step keeps what is stored and what the creations found.
LEMMA CreationsNext ==
  ASSUME IntakeInv, [Intake!Next]_intakeVars
  PROVE  /\ StoredInv' /\ IdsDiffer'
         /\ \A c \in Creations : CreationShape(creation[c])'
<1> DEFINE Shapes == \A d \in Creations : CreationShape(creation[d])'
<1> SUFFICES StoredInv' /\ IdsDiffer' /\ Shapes
  OBVIOUS
<1> USE DEF IntakeInv, IntakeTypes
<1>0. StoredInv /\ IdsDiffer /\ \A d \in Creations : creation[d] \in CreationRecords
  BY DEF StoredInv, IdsDiffer
<1>a. /\ \A i \in Intake!Stored : i \in Intake!Ids /\ match[i] # None
      /\ \A i \in Intake!Ids : i \in Nat
  BY DEF Intake!Stored, Intake!Ids
\* One creation moves, the records stay.
<1>b. ASSUME NEW c \in Creations, NEW r, creation' = [creation EXCEPT ![c] = r],
             UNCHANGED Intake!recordVars, UNCHANGED store, CreationShape(r), r.at # "inserting"
      PROVE  StoredInv' /\ IdsDiffer' /\ Shapes
  <2>1. \A d \in Creations : creation'[d] = IF d = c THEN r ELSE creation[d]
    BY <1>b
  <2>2. UNCHANGED <<match, nextId, born, unlinked>>
    BY <1>b DEF Intake!recordVars
  <2>3. StoredInv'
    BY <1>0, <1>b, <2>2 DEF StoredInv, Intake!Stored
  <2>4. IdsDiffer'
    BY <1>0, <1>b, <2>1 DEF IdsDiffer
  <2>5. \A q : CreationShape(q) => CreationShape(q)'
    BY <1>b, <2>2 DEF CreationShape, Intake!GameTaken, Intake!Stored
  <2>6. ASSUME NEW d \in Creations
        PROVE  CreationShape(creation[d])'
    <3>1. PICK q : q = creation'[d] /\ CreationShape(q)
      BY <1>b, <2>1
    <3>2. CreationShape(q)'
      BY <2>5, <3>1
    <3> QED BY <3>1, <3>2 DEF CreationShape
  <2> QED BY <2>3, <2>4, <2>6
\* A record is stored for a creation.
<1>c. ASSUME NEW c \in Creations, NEW r, creation' = [creation EXCEPT ![c] = r],
             r.at = "created", r.id \in Intake!Ids, r.names \in Pairs, match[r.id] = None,
             ~ Intake!GameTaken(r.game), r.id < nextId', nextId' >= nextId, nextId' \in Nat,
             Intake!RecordOf(r, r.names) \in Intake!Records,
             Intake!Insert(r.id, Intake!RecordOf(r, r.names)), UNCHANGED store,
             \A d \in Creations \ {c} : creation[d].at = "inserting" => creation[d].id # r.id
      PROVE  StoredInv' /\ IdsDiffer' /\ Shapes
  <2>0. PICK i \in Intake!Ids, names \in Pairs : i = r.id /\ names = r.names
    BY <1>c
  <2>1. \A d \in Creations : creation'[d] = IF d = c THEN r ELSE creation[d]
    BY <1>c
  <2>2. /\ StoredInv'
        /\ Intake!Stored' = Intake!Stored \cup {i}
        /\ \A j \in Intake!Stored : match'[j] = match[j] /\ born'[j] = born[j]
        /\ match'[i].players = r.players /\ match'[i].game = r.game /\ born'[i] = names
    BY <1>c, <2>0, StoreGrows
  <2>3. IdsDiffer'
    BY <1>0, <1>c, <2>1 DEF IdsDiffer
  <2>4. CreationShape(r)'
    BY <1>c, <2>0, <2>2 DEF CreationShape, Intake!Stored
  <2>5. ASSUME NEW d \in Creations \ {c}
        PROVE  CreationShape(creation[d])'
    <3>1. PICK o \in CreationRecords : o = creation[d] /\ CreationShape(o)
      BY <1>0
    <3>2. o.at = "inserting" => o.id \in Intake!Ids /\ o.id # i /\ match[o.id] = None
      BY <1>c, <2>0, <3>1 DEF CreationShape
    <3>3. \A j \in Intake!Ids : j \notin Intake!Stored' => match'[j] = None
      BY DEF Intake!Stored
    <3>4. o.at = "inserting" => match'[o.id] = None
      BY <2>2, <3>2, <3>3, <1>a
    <3>5. CreationShape(o)'
      BY <1>c, <2>2, <3>1, <3>4, CreationKeeps
    <3>6. o = creation'[d]
      BY <2>1, <3>1
    <3> QED BY <3>5, <3>6 DEF CreationShape
  <2>6. Shapes
    BY <2>1, <2>4, <2>5 DEF CreationShape
  <2> QED BY <2>2, <2>3, <2>6
<1>1. ASSUME NEW c \in Creations, NEW players \in IntakeOpponents, NEW game \in IntakeCreatable,
             Intake!RequestMatch(c, players, game[1], game[2])
      PROVE  StoredInv' /\ IdsDiffer' /\ Shapes
  <2>1. PICK r : r = [Intake!NoCreation EXCEPT !.at = "fetching", !.players = players,
                                               !.game = game[1], !.platform = game[2]]
    OBVIOUS
  <2>2. CreationShape(r) /\ r.at # "inserting"
    BY <2>1, IntakeConstants DEF CreationShape, Intake!NoCreation
  <2>3. creation' = [creation EXCEPT ![c] = r] /\ UNCHANGED store /\ UNCHANGED Intake!recordVars
    BY <1>1, <2>1, Zenon DEF Intake!RequestMatch
  <2> QED BY <2>2, <2>3, <1>b
<1>2. ASSUME NEW c \in Creations, Intake!GameRefused(c)
      PROVE  StoredInv' /\ IdsDiffer' /\ Shapes
  <2>1. PICK r : r = [creation[c] EXCEPT !.at = "refused"]
    OBVIOUS
  <2>2. r.at = "refused"
    BY <1>0, <2>1 DEF CreationRecords
  <2>3. CreationShape(r)
    BY <2>2 DEF CreationShape
  <2>4. creation' = [creation EXCEPT ![c] = r] /\ UNCHANGED store /\ UNCHANGED Intake!recordVars
    BY <1>2, <2>1 DEF Intake!GameRefused, Intake!recordVars
  <2> QED BY <2>2, <2>3, <2>4, <1>b
<1>3. ASSUME NEW c \in Creations, Intake!GameFound(c)
      PROVE  StoredInv' /\ IdsDiffer' /\ Shapes
  <2>1. creation[c].at = "fetching" /\ nextId \in Intake!Ids /\ UNCHANGED store
    BY <1>3 DEF Intake!GameFound
  <2>2. PICK names : names = IntakePlayers[creation[c].game]
    OBVIOUS
  <2>3. /\ creation[c].players \in IntakeOpponents /\ creation[c].game \in IntakeGames
        /\ creation[c].platform \in IntakePlatforms /\ names \in Pairs
    BY <2>1, <2>2, IntakeConstants DEF CreationShape
  <2>4. match[nextId] = None
    BY <2>1 DEF Intake!Stored, Intake!Ids
  <2>5. nextId \notin Intake!Stored /\ nextId \in Nat /\ nextId < nextId + 1
        /\ \A d \in Creations : creation[d].at = "inserting" => creation[d].id # nextId
    BY <2>4 DEF Intake!Stored, CreationShape, Intake!Ids
  <2>6. \/ /\ store = "sqlite"
           /\ creation' = [creation EXCEPT ![c].at = "inserting", ![c].names = names,
                                           ![c].id = nextId]
           /\ nextId' = nextId + 1 /\ UNCHANGED <<match, born, unlinked>>
        \/ /\ Intake!GameTaken(creation[c].game)
           /\ creation' = [creation EXCEPT ![c].at = "duplicate"] /\ UNCHANGED Intake!recordVars
        \/ /\ ~ Intake!GameTaken(creation[c].game)
           /\ creation' = [creation EXCEPT ![c].at = "created", ![c].names = names,
                                           ![c].id = nextId]
           /\ Intake!Insert(nextId, Intake!RecordOf(creation[c], names))
           /\ nextId' = nextId + 1
    BY <1>3, <2>2, Zenon DEF Intake!GameFound
  <2>7. CASE /\ store = "sqlite"
             /\ creation' = [creation EXCEPT ![c].at = "inserting", ![c].names = names,
                                           ![c].id = nextId]
             /\ nextId' = nextId + 1 /\ UNCHANGED <<match, born, unlinked>>
    <3>1. PICK r : /\ r.at = "inserting" /\ r.names = names /\ r.id = nextId
                   /\ r.players = creation[c].players /\ r.game = creation[c].game
                   /\ r.platform = creation[c].platform
                   /\ creation' = [creation EXCEPT ![c] = r]
      <4>1. PICK r : r = [creation[c] EXCEPT !.at = "inserting", !.names = names, !.id = nextId]
        OBVIOUS
      <4>2. /\ r.at = "inserting" /\ r.names = names /\ r.id = nextId
            /\ r.players = creation[c].players /\ r.game = creation[c].game
            /\ r.platform = creation[c].platform
        BY <1>0, <4>1 DEF CreationRecords
      <4>3. creation' = [creation EXCEPT ![c] = r]
        BY <2>7, <4>1
      <4> QED BY <4>2, <4>3
    <3>2. \A d \in Creations : creation'[d] = IF d = c THEN r ELSE creation[d]
      BY <3>1
    <3>3. StoredInv'
      BY <1>0, <1>a, <2>1, <2>5, <2>7 DEF StoredInv, Intake!Stored
    <3>4. IdsDiffer'
      BY <1>0, <2>5, <3>1, <3>2 DEF IdsDiffer
    <3>5. CreationShape(r)'
      BY <2>1, <2>3, <2>4, <2>5, <2>7, <3>1 DEF CreationShape
    <3>6. ASSUME NEW d \in Creations \ {c}
          PROVE  CreationShape(creation[d])'
      <4>1. PICK o \in CreationRecords : o = creation[d] /\ CreationShape(o)
        BY <1>0
      <4>2. Intake!Stored' = Intake!Stored
        BY <2>7 DEF Intake!Stored
      <4>3. CreationShape(o)'
        <5>1. /\ nextId' >= nextId /\ nextId' \in Nat
              /\ (o.at = "inserting" => match'[o.id] = None)
              /\ \A j \in Intake!Stored : /\ match'[j].players = match[j].players
                                  /\ match'[j].game = match[j].game /\ born'[j] = born[j]
          BY <2>5, <2>7, <4>1 DEF CreationShape
        <5> QED BY <2>1, <4>1, <4>2, <5>1, CreationKeeps
      <4> QED BY <3>2, <4>1, <4>3 DEF CreationShape
    <3>7. Shapes
      BY <3>2, <3>5, <3>6 DEF CreationShape
    <3> QED BY <3>3, <3>4, <3>7
  <2>8. CASE /\ Intake!GameTaken(creation[c].game)
             /\ creation' = [creation EXCEPT ![c].at = "duplicate"] /\ UNCHANGED Intake!recordVars
    <3>1. PICK r : r = [creation[c] EXCEPT !.at = "duplicate"]
      OBVIOUS
    <3>2. r.at = "duplicate" /\ r.game = creation[c].game
      BY <1>0, <3>1 DEF CreationRecords
    <3>3. creation' = [creation EXCEPT ![c] = r]
      BY <2>8, <3>1
    <3>4. CreationShape(r)
      BY <2>8, <3>2 DEF CreationShape
    <3> QED BY <2>1, <2>8, <3>2, <3>3, <3>4, <1>b
  <2>9. CASE /\ ~ Intake!GameTaken(creation[c].game)
             /\ creation' = [creation EXCEPT ![c].at = "created", ![c].names = names,
                                           ![c].id = nextId]
             /\ Intake!Insert(nextId, Intake!RecordOf(creation[c], names))
             /\ nextId' = nextId + 1
    <3>1. PICK r : r = [creation[c] EXCEPT !.at = "created", !.names = names, !.id = nextId]
      OBVIOUS
    <3>2. /\ r.at = "created" /\ r.names = names /\ r.id = nextId
          /\ r.players = creation[c].players /\ r.game = creation[c].game
          /\ r.platform = creation[c].platform
      BY <1>0, <3>1 DEF CreationRecords
    <3>3. creation' = [creation EXCEPT ![c] = r]
      BY <2>9, <3>1
    <3>4. Intake!RecordOf(creation[c], names) = Intake!RecordOf(r, r.names)
      BY <3>2 DEF Intake!RecordOf
    <3>5. Intake!RecordOf(r, r.names) \in Intake!Records
      BY <2>3, <3>2 DEF Intake!RecordOf, Intake!Records
    <3>6. r.id < nextId' /\ nextId' >= nextId /\ nextId' \in Nat
      BY <2>5, <2>9, <3>2
    <3>7. /\ r.id \in Intake!Ids /\ match[r.id] = None /\ ~ Intake!GameTaken(r.game)
          /\ Intake!Insert(r.id, Intake!RecordOf(r, r.names))
          /\ \A d \in Creations : creation[d].at = "inserting" => creation[d].id # r.id
      BY <2>1, <2>4, <2>5, <2>9, <3>2, <3>4
    <3> QED
      BY <2>1, <2>3, <3>2, <3>3, <3>5, <3>6, <3>7, <1>c
  <2> QED BY <2>6, <2>7, <2>8, <2>9
<1>4. ASSUME NEW c \in Creations, Intake!InsertRow(c)
      PROVE  StoredInv' /\ IdsDiffer' /\ Shapes
  <2>1. creation[c].at = "inserting" /\ UNCHANGED <<store, nextId>>
    BY <1>4 DEF Intake!InsertRow, Intake!recordVars, Intake!Insert
  <2>2. PICK q \in CreationRecords : q = creation[c] /\ CreationShape(q)
    BY <1>0
  <2>3. /\ q.at = "inserting"
        /\ q.players \in IntakeOpponents /\ q.game \in IntakeGames /\ q.platform \in IntakePlatforms
        /\ q.names \in Pairs /\ q.id \in Intake!Ids /\ q.id < nextId /\ match[q.id] = None
    BY <2>1, <2>2 DEF CreationShape
  <2>4. \/ /\ Intake!GameTaken(q.game)
           /\ creation' = [creation EXCEPT ![c].at = "duplicate"] /\ UNCHANGED Intake!recordVars
        \/ /\ ~ Intake!GameTaken(q.game)
           /\ creation' = [creation EXCEPT ![c].at = "created"]
           /\ Intake!Insert(q.id, Intake!RecordOf(q, q.names))
    BY <1>4, <2>2, <2>3, Zenon DEF Intake!InsertRow
  <2>5. CASE /\ Intake!GameTaken(q.game)
             /\ creation' = [creation EXCEPT ![c].at = "duplicate"] /\ UNCHANGED Intake!recordVars
    <3>1. PICK r : r = [q EXCEPT !.at = "duplicate"]
      OBVIOUS
    <3>2. r.at = "duplicate" /\ r.game = q.game
      BY <3>1 DEF CreationRecords
    <3>3. creation' = [creation EXCEPT ![c] = r]
      BY <2>2, <2>5, <3>1
    <3>4. CreationShape(r)
      BY <2>5, <3>2 DEF CreationShape
    <3> QED BY <2>1, <2>5, <3>2, <3>3, <3>4, <1>b
  <2>6. CASE /\ ~ Intake!GameTaken(q.game)
             /\ creation' = [creation EXCEPT ![c].at = "created"]
             /\ Intake!Insert(q.id, Intake!RecordOf(q, q.names))
    <3>1. PICK r : r = [q EXCEPT !.at = "created"]
      OBVIOUS
    <3>2. /\ r.at = "created" /\ r.names = q.names /\ r.id = q.id
          /\ r.players = q.players /\ r.game = q.game /\ r.platform = q.platform
      BY <3>1 DEF CreationRecords
    <3>3. creation' = [creation EXCEPT ![c] = r]
      BY <2>2, <2>6, <3>1
    <3>4. Intake!RecordOf(q, q.names) = Intake!RecordOf(r, r.names)
      BY <3>2 DEF Intake!RecordOf
    <3>5. Intake!RecordOf(r, r.names) \in Intake!Records
      BY <2>3, <3>2 DEF Intake!RecordOf, Intake!Records
    <3>6. \A d \in Creations \ {c} : creation[d].at = "inserting" => creation[d].id # r.id
      BY <1>0, <2>2, <2>3, <3>2 DEF IdsDiffer
    <3>7. r.id < nextId' /\ nextId' >= nextId /\ nextId' \in Nat
      BY <2>1, <2>3, <3>2, <1>a
    <3>8. /\ r.id \in Intake!Ids /\ r.names \in Pairs /\ match[r.id] = None
          /\ ~ Intake!GameTaken(r.game) /\ Intake!Insert(r.id, Intake!RecordOf(r, r.names))
      BY <2>3, <2>6, <3>2, <3>4
    <3> QED
      BY <2>1, <3>2, <3>3, <3>5, <3>6, <3>7, <3>8, <1>c
  <2> QED BY <2>4, <2>5, <2>6
<1>5. ASSUME NEW w \in Sponsored, Intake!Unlink(w)
      PROVE  StoredInv' /\ IdsDiffer' /\ Shapes
  <2> DEFINE gone == {i \in Intake!Stored : w \in {match[i].players[1], match[i].players[2]}}
  <2>1. /\ UNCHANGED <<store, nextId, born, creation>> /\ store = "memory"
        /\ match' = [i \in Intake!Ids |-> IF i \in gone
                                          THEN [match[i] EXCEPT !.names = None, !.hash = None]
                                          ELSE match[i]]
        /\ unlinked' = unlinked \cup gone
    BY <1>5, Zenon DEF Intake!Unlink
  <2>2. gone \subseteq Intake!Stored
    OBVIOUS
  <2> HIDE DEF gone
  <2>3. ASSUME NEW i \in gone
        PROVE  /\ match'[i] \in Intake!Records /\ match'[i].names = None
               /\ match'[i].game = match[i].game /\ match'[i].players = match[i].players
    <3>1. PICK record \in Intake!Records : record = match[i]
      BY <1>a, <2>2
    <3>2. PICK next : next = [record EXCEPT !.names = None, !.hash = None]
      OBVIOUS
    <3>3. /\ next \in Intake!Records /\ next.names = None
          /\ next.game = record.game /\ next.players = record.players
      BY <3>2 DEF Intake!Records
    <3>4. match'[i] = next
      BY <1>a, <2>1, <2>2, <3>1, <3>2
    <3> QED BY <3>1, <3>3, <3>4
  <2>4. \A i \in Intake!Ids \ gone : match'[i] = match[i]
    BY <2>1
  <2>5. Intake!Stored' = Intake!Stored
    BY <1>a, <2>2, <2>3, <2>4, IntakeConstants DEF Intake!Stored
  <2>6. \A i \in Intake!Stored : match'[i].game = match[i].game /\ match'[i].players = match[i].players
    BY <1>a, <2>3, <2>4
  <2>7. StoredInv'
    <3>1. \A i \in Intake!Stored' :
            i < nextId' /\ match'[i].names = IF i \in unlinked' THEN None ELSE born'[i]
      BY <1>a, <2>1, <2>3, <2>4, <2>5
    <3>2. \A i, j \in Intake!Stored' : match'[i].game = match'[j].game => i = j
      BY <2>5, <2>6
    <3>3. unlinked' \subseteq Intake!Stored' /\ (store' = "sqlite" => unlinked' = {})
      BY <2>1, <2>2, <2>5
    <3> QED BY <3>1, <3>2, <3>3 DEF StoredInv
  <2>8. IdsDiffer'
    BY <1>0, <2>1 DEF IdsDiffer
  <2>9. ASSUME NEW d \in Creations
        PROVE  CreationShape(creation[d])'
    <3>1. PICK o \in CreationRecords : o = creation[d] /\ CreationShape(o)
      BY <1>0
    <3>2. /\ nextId' >= nextId /\ nextId' \in Nat /\ o.at # "inserting"
          /\ \A j \in Intake!Stored : /\ match'[j].players = match[j].players
                                      /\ match'[j].game = match[j].game /\ born'[j] = born[j]
      <4>0. nextId \in Nat /\ nextId' = nextId
        BY <1>5 DEF Intake!Unlink
      <4>1. nextId' >= nextId /\ nextId' \in Nat
        BY <4>0
      <4>2. o.at # "inserting"
        BY <2>1, <3>1 DEF CreationShape
      <4> QED BY <2>1, <2>6, <4>1, <4>2
    <3>3. CreationShape(o)'
      BY <2>1, <2>5, <3>1, <3>2, CreationKeeps
    <3> QED BY <2>1, <3>1, <3>3 DEF CreationShape
  <2> QED BY <2>7, <2>8, <2>9
\* Verifications and evidence.
<1>6. ASSUME UNCHANGED <<store, Intake!recordVars, creation>>
      PROVE  StoredInv' /\ IdsDiffer' /\ Shapes
  BY <1>0, <1>6 DEF Intake!recordVars, StoredInv, IdsDiffer, CreationShape, Intake!Stored,
                    Intake!GameTaken
<1>7. CASE Intake!Restart
  <2>1. CASE store = "sqlite"
    <3>1. /\ UNCHANGED <<store, match, born, unlinked>> /\ nextId' = Intake!FirstId
          /\ creation' = [c \in Creations |-> Intake!Dies(creation[c], Intake!NoCreation)]
      BY <1>7, <2>1 DEF Intake!Restart
    <3>2. Intake!Stored' = Intake!Stored
      BY <3>1 DEF Intake!Stored
    <3>3. StoredInv'
      BY <1>0, <3>1, <3>2, FirstIdIsFree DEF StoredInv
    <3>4. \A c \in Creations :
            \/ creation'[c] = creation[c] /\ creation[c].at \notin {"fetching", "inserting"}
            \/ creation'[c].at = "lost"
      BY <3>1 DEF Intake!Dies, Intake!InFlight, Intake!NoCreation
    <3>5. IdsDiffer'
      BY <3>4 DEF IdsDiffer
    <3>6. Shapes
      BY <3>1, <3>2, <3>4 DEF CreationShape, Intake!GameTaken
    <3> QED BY <3>3, <3>5, <3>6
  <2>2. CASE store # "sqlite"
    <3>1. /\ UNCHANGED store /\ unlinked' = {}
          /\ match' = [i \in Intake!Ids |-> None]
          /\ \A c \in Creations : creation'[c].at \in {"idle", "lost"}
      BY <1>7, <2>2 DEF Intake!Restart, Intake!NoCreation
    <3>2. Intake!Stored' = {}
      BY <3>1 DEF Intake!Stored
    <3> QED BY <3>1, <3>2 DEF StoredInv, IdsDiffer, CreationShape
  <2> QED BY <2>1, <2>2
<1>8. ASSUME NEW v \in IntakeChecks,
             \/ Intake!FetchFails(v) \/ Intake!EvidenceFails(v) \/ Intake!SaveEvidence(v)
             \/ \E answer \in Pairs : Intake!ResultFetched(v, answer)
             \/ \E g \in IntakeGames, platform \in IntakePlatforms : Intake!Verify(v, g, platform)
      PROVE  UNCHANGED <<store, Intake!recordVars, creation>>
  BY <1>8 DEF Intake!FetchFails, Intake!EvidenceFails, Intake!SaveEvidence, Intake!ResultFetched,
     Intake!Verify
<1>9. ASSUME NEW n \in 1 .. Len(evidence), Intake!ForgetEvidence(n)
      PROVE  UNCHANGED <<store, Intake!recordVars, creation>>
  BY <1>9 DEF Intake!ForgetEvidence
<1>10. UNCHANGED intakeVars => UNCHANGED <<store, Intake!recordVars, creation>>
  BY DEF intakeVars, Intake!recordVars
<1> HIDE DEF Shapes
<1> QED
  BY <1>1, <1>2, <1>3, <1>4, <1>5, <1>6, <1>7, <1>8, <1>9, <1>10, Zenon DEF Intake!Next

\* A verification keeps what it knows while records are only added.
LEMMA VerificationKeeps ==
  ASSUME NEW r, VerificationShape(r), UNCHANGED store,
         Intake!Stored \subseteq Intake!Stored',
         \A j \in Intake!Stored : born'[j] = born[j]
  PROVE  VerificationShape(r)'
BY DEF VerificationShape, Intake!SamePlayers

\* Every step keeps what the verifications read.
LEMMA VerificationsNext ==
  ASSUME IntakeInv, [Intake!Next]_intakeVars
  PROVE  \A v \in IntakeChecks : VerificationShape(verification[v])'
<1> DEFINE Shapes == \A v \in IntakeChecks : VerificationShape(verification[v])'
<1> SUFFICES Shapes
  OBVIOUS
<1> USE DEF IntakeInv, IntakeTypes
\* The verifications stay.
<1>a. ASSUME UNCHANGED <<store, verification>>, Intake!Stored \subseteq Intake!Stored',
             \A j \in Intake!Stored : born'[j] = born[j]
      PROVE  Shapes
  <2>1. ASSUME NEW v \in IntakeChecks
        PROVE  VerificationShape(verification[v])'
    <3>1. PICK r : r = verification[v]
      OBVIOUS
    <3>2. VerificationShape(r)'
      BY <1>a, <3>1, VerificationKeeps
    <3> QED BY <1>a, <3>1, <3>2 DEF VerificationShape
  <2> QED BY <2>1
\* One verification moves.
<1>b. ASSUME NEW v \in IntakeChecks, NEW r, verification' = [verification EXCEPT ![v] = r],
             VerificationShape(r), UNCHANGED <<store, Intake!recordVars>>
      PROVE  Shapes
  <2>1. \A u \in IntakeChecks : verification'[u] = IF u = v THEN r ELSE verification[u]
    BY <1>b
  <2>2. Intake!Stored' = Intake!Stored /\ UNCHANGED <<store, born>>
    BY <1>b DEF Intake!Stored, Intake!recordVars
  <2>3. ASSUME NEW u \in IntakeChecks
        PROVE  VerificationShape(verification[u])'
    <3>1. PICK q : q = verification'[u] /\ VerificationShape(q)
      BY <1>b, <2>1
    <3>2. VerificationShape(q)'
      BY <2>2, <3>1, VerificationKeeps
    <3> QED BY <3>1, <3>2 DEF VerificationShape
  <2> QED BY <2>3
<1>1. ASSUME NEW c \in Creations,
             \/ Intake!GameRefused(c)
             \/ \E players \in IntakeOpponents, game \in IntakeCreatable :
                  Intake!RequestMatch(c, players, game[1], game[2])
      PROVE  Shapes
  <2>1. UNCHANGED <<store, verification, match, born>>
    BY <1>1 DEF Intake!GameRefused, Intake!RequestMatch, Intake!recordVars
  <2> QED BY <2>1, <1>a DEF Intake!Stored
<1>2. ASSUME NEW c \in Creations, Intake!GameFound(c) \/ Intake!InsertRow(c)
      PROVE  Shapes
  <2>1. UNCHANGED <<store, verification>>
    BY <1>2 DEF Intake!GameFound, Intake!InsertRow
  <2>2. PICK i : \/ UNCHANGED <<match, born>>
                 \/ /\ match[i] = None
                    /\ \A j \in Intake!Ids \ {i} : match'[j] = match[j] /\ born'[j] = born[j]
    <3>1. CASE Intake!GameFound(c)
      <4>1. nextId \notin Intake!Stored /\ nextId \in Intake!Ids
        BY <3>1 DEF Intake!GameFound, Intake!Ids
      <4>2. match[nextId] = None
        BY <4>1 DEF Intake!Stored
      <4>3. \/ UNCHANGED <<match, born>>
            \/ \E record : Intake!Insert(nextId, record)
        BY <3>1, Zenon DEF Intake!GameFound, Intake!recordVars
      <4> QED BY <4>2, <4>3 DEF Intake!Insert
    <3>2. CASE Intake!InsertRow(c)
      <4>1. match[creation[c].id] = None
        BY <3>2 DEF Intake!InsertRow, CreationShape
      <4>2. \/ UNCHANGED <<match, born>>
            \/ \E record : Intake!Insert(creation[c].id, record)
        BY <3>2, Zenon DEF Intake!InsertRow, Intake!recordVars
      <4> QED BY <4>1, <4>2 DEF Intake!Insert
    <3> QED BY <1>2, <3>1, <3>2
  <2>3. /\ Intake!Stored \subseteq Intake!Stored'
        /\ \A j \in Intake!Stored : born'[j] = born[j]
    BY <2>2 DEF Intake!Stored
  <2> QED BY <2>1, <2>3, <1>a
<1>3. ASSUME NEW w \in Sponsored, Intake!Unlink(w)
      PROVE  Shapes
  <2>1. UNCHANGED <<store, born, verification>>
    BY <1>3 DEF Intake!Unlink
  <2>2. ASSUME NEW i \in Intake!Stored
        PROVE  match'[i] # None
    <3>1. PICK record \in Intake!Records : record = match[i]
      BY DEF Intake!Stored
    <3>2. [record EXCEPT !.names = None, !.hash = None] \in Intake!Records
      BY DEF Intake!Records
    <3>3. i \in Intake!Ids
      BY DEF Intake!Stored
    <3>4. match'[i] \in {record, [record EXCEPT !.names = None, !.hash = None]}
      BY <1>3, <3>1, <3>3 DEF Intake!Unlink
    <3> QED BY <3>2, <3>4, IntakeConstants
  <2>3. Intake!Stored \subseteq Intake!Stored'
    BY <2>2 DEF Intake!Stored
  <2> QED BY <2>1, <2>3, <1>a
<1>4. ASSUME NEW v \in IntakeChecks, Intake!FetchFails(v) \/ Intake!EvidenceFails(v)
      PROVE  Shapes
  <2>1. PICK r : r = [verification[v] EXCEPT !.at = "refused"]
    OBVIOUS
  <2>2. verification[v] \in VerificationRecords
    OBVIOUS
  <2>3. r.at = "refused"
    BY <2>1, <2>2 DEF VerificationRecords
  <2>4. verification' = [verification EXCEPT ![v] = r] /\ UNCHANGED <<store, Intake!recordVars>>
    BY <1>4, <2>1 DEF Intake!FetchFails, Intake!EvidenceFails
  <2> QED BY <2>3, <2>4, <1>b DEF VerificationShape
<1>5. ASSUME NEW v \in IntakeChecks, NEW g \in IntakeGames, NEW platform \in IntakePlatforms,
             Intake!Verify(v, g, platform)
      PROVE  Shapes
  <2>1. PICK i \in Intake!Stored \cup {None} :
          verification' = [verification EXCEPT ![v] =
               IF i = None \/ match[i].names = None \/ match[i].platform # platform
               THEN [Intake!NoVerification EXCEPT !.at = "refused"]
               ELSE [Intake!NoVerification EXCEPT !.at = "fetching", !.id = i,
                                                 !.names = match[i].names]]
    BY <1>5, Zenon DEF Intake!Verify
  <2>2. PICK r : r = IF i = None \/ match[i].names = None \/ match[i].platform # platform
                     THEN [Intake!NoVerification EXCEPT !.at = "refused"]
                     ELSE [Intake!NoVerification EXCEPT !.at = "fetching", !.id = i,
                                                 !.names = match[i].names]
    OBVIOUS
  <2>3. \/ r.at = "refused"
        \/ r.at = "fetching" /\ i \in Intake!Stored /\ r.id = i /\ r.names = match[i].names
           /\ match[i].names # None
    BY <2>2 DEF Intake!NoVerification
  <2>4. VerificationShape(r)
    BY <2>3 DEF VerificationShape
  <2>5. verification' = [verification EXCEPT ![v] = r] /\ UNCHANGED <<store, Intake!recordVars>>
    BY <1>5, <2>1, <2>2, Zenon DEF Intake!Verify
  <2> QED BY <2>4, <2>5, <1>b
<1>6. ASSUME NEW v \in IntakeChecks, NEW answer \in Pairs, Intake!ResultFetched(v, answer)
      PROVE  Shapes
  <2>0. PICK q \in VerificationRecords : q = verification[v] /\ VerificationShape(q)
    OBVIOUS
  <2>1. PICK decision : decision = Intake!Decision(v, answer)
    OBVIOUS
  <2>2. decision \in VerificationDecisions /\ decision \notin {"fetching", "saving"}
    BY <2>1 DEF Intake!Decision, VerificationDecisions
  <2>3. q.at = "fetching" /\ q.id \in Intake!Stored /\ UNCHANGED <<store, Intake!recordVars>>
    BY <1>6, <2>0 DEF Intake!ResultFetched, VerificationShape
  <2>4. CASE store = "memory"
    <3>1. PICK r : r = [q EXCEPT !.at = decision, !.answer = answer]
      OBVIOUS
    <3>2. verification' = [verification EXCEPT ![v] = r]
      BY <1>6, <2>0, <2>1, <2>4, <3>1 DEF Intake!ResultFetched
    <3>3. r.at = decision
      BY <3>1 DEF VerificationRecords
    <3> QED BY <2>2, <2>3, <3>2, <3>3, <1>b DEF VerificationShape
  <2>5. CASE store # "memory"
    <3>1. PICK r : r = [q EXCEPT !.at = "saving", !.answer = answer, !.decision = decision]
      OBVIOUS
    <3>2. verification' = [verification EXCEPT ![v] = r]
      BY <1>6, <2>0, <2>1, <2>5, <3>1 DEF Intake!ResultFetched
    <3>3. r.at = "saving" /\ r.answer = answer /\ r.decision = decision /\ r.id = q.id
      BY <3>1 DEF VerificationRecords
    <3>4. store = "sqlite" /\ q.names = born[q.id]
      BY <2>0, <2>3, <2>5 DEF VerificationShape
    <3>5. decision = "verified" => Intake!SamePlayers(born[q.id], answer)
      BY <2>0, <2>1, <2>5, <3>4 DEF Intake!Decision, Intake!NamesNow
    <3>6. VerificationShape(r)
      BY <2>2, <2>3, <3>3, <3>4, <3>5 DEF VerificationShape
    <3> QED BY <2>3, <3>2, <3>6, <1>b
  <2> QED BY <2>4, <2>5
<1>7. ASSUME NEW v \in IntakeChecks, Intake!SaveEvidence(v)
      PROVE  Shapes
  <2>0. PICK q \in VerificationRecords : q = verification[v] /\ VerificationShape(q)
    OBVIOUS
  <2>1. PICK r : r = [q EXCEPT !.at = q.decision]
    OBVIOUS
  <2>2. verification' = [verification EXCEPT ![v] = r] /\ UNCHANGED <<store, Intake!recordVars>>
    BY <1>7, <2>0, <2>1 DEF Intake!SaveEvidence
  <2>3. r.at = q.decision
    BY <2>1 DEF VerificationRecords
  <2>4. q.decision \in VerificationDecisions
    BY <1>7, <2>0 DEF Intake!SaveEvidence, VerificationShape
  <2>5. VerificationShape(r)
    BY <2>3, <2>4 DEF VerificationShape, VerificationDecisions
  <2> QED BY <2>2, <2>5, <1>b
<1>8. ASSUME NEW n \in 1 .. Len(evidence), Intake!ForgetEvidence(n)
      PROVE  Shapes
  <2>1. UNCHANGED <<store, verification, match, born>>
    BY <1>8 DEF Intake!ForgetEvidence, Intake!recordVars
  <2> QED BY <2>1, <1>a DEF Intake!Stored
<1>9. CASE Intake!Restart
  <2>1. store = "sqlite" => UNCHANGED <<match, born>>
    BY <1>9 DEF Intake!Restart
  <2>2. \A v \in IntakeChecks :
          \/ verification'[v] = verification[v] /\ verification[v].at \notin {"fetching", "saving"}
          \/ verification'[v].at = "lost"
    BY <1>9 DEF Intake!Restart, Intake!Dies, Intake!InFlight, Intake!NoVerification
  <2> QED BY <2>2 DEF VerificationShape
<1>10. CASE UNCHANGED intakeVars
  <2>1. UNCHANGED <<store, verification, match, born>>
    BY <1>10 DEF intakeVars
  <2> QED BY <2>1, <1>a DEF Intake!Stored
<1> HIDE DEF Shapes
<1> QED
  BY <1>1, <1>2, <1>3, <1>4, <1>5, <1>6, <1>7, <1>8, <1>9, <1>10, Zenon DEF Intake!Next

\* The invariant of the intake is inductive.
LEMMA IntakeInvNext == IntakeInv /\ [Intake!Next]_intakeVars => IntakeInv'
BY IntakeTypesNext, CreationsNext, VerificationsNext DEF IntakeInv, StoredInv, IdsDiffer

LEMMA IntakeInvInit == Intake!Init => IntakeInv
<1> SUFFICES ASSUME Intake!Init PROVE IntakeInv
  OBVIOUS
<1>1. /\ \A c \in Creations : creation[c] = Intake!NoCreation
      /\ \A v \in IntakeChecks : verification[v] = Intake!NoVerification
  BY DEF Intake!Init
<1>2. Intake!NoCreation \in CreationRecords /\ Intake!NoVerification \in VerificationRecords
  BY DEF Intake!NoCreation, Intake!NoVerification, CreationRecords, VerificationRecords
<1>3. IntakeTypes
  BY <1>2 DEF Intake!Init, IntakeTypes
<1>4. Intake!Stored = {}
  BY DEF Intake!Init, Intake!Stored
<1> QED
  BY <1>1, <1>3, <1>4 DEF Intake!Init, IntakeInv, CreationShape, VerificationShape,
     Intake!NoCreation, Intake!NoVerification

\* The store never has two matches over one game, what a request was answered stays on record, over
\* restarts too, and a request is refused as a duplicate only because its game is taken
\* (createMatch).
THEOREM RecordsStay == Spec => []RecordsHold
<1>1. IntakeInv => RecordsHold
  BY DEF IntakeInv, CreationShape, RecordsHold, Intake!RecordsHold
<1> QED BY <1>1, IntakeInvInit, IntakeInvNext, IntakeSteps, PTL

\* A step that writes a verdict writes one about the players the match was created for.
LEMMA EvidenceIsRight ==
  ASSUME IntakeInv, [Intake!Next]_intakeVars, Len(evidence') > Len(evidence),
         evidence'[Len(evidence')].decision = "verified"
  PROVE  LET e == evidence'[Len(evidence')] IN
           Intake!SamePlayers(born[e.id], e.answer) /\ e.id \notin unlinked
<1> USE DEF IntakeInv, IntakeTypes
<1>1. ASSUME NEW n \in Nat, n <= Len(evidence)
      PROVE  Len(Intake!Kept(n)) <= Len(evidence)
  <2>1. PICK s \in Seq(EvidenceEntries) : s = evidence
    OBVIOUS
  <2>2. n + 1 \in Int /\ Len(s) \in Int /\ n + 1 <= Len(s) + 1
    BY <1>1, <2>1
  <2>3. Len(SubSeq(s, n + 1, Len(s))) <= Len(s)
    BY <2>2, <1>1, SubSeqProperties
  <2> QED BY <2>1, <2>3 DEF Intake!Kept
<1>2. PICK v \in IntakeChecks :
         Intake!SaveEvidence(v) \/ \E answer \in Pairs : Intake!ResultFetched(v, answer)
  <2>1. \A s : s = evidence => Len(s) \in Nat
    OBVIOUS
  <2>2. evidence' # evidence /\ (\A n \in 0 .. Len(evidence) : evidence' # Intake!Kept(n))
        /\ evidence' # << >>
    BY <1>1, <2>1
  <2>3. ~ UNCHANGED evidence
    BY <2>2
  <2>4. ASSUME NEW n \in 1 .. Len(evidence) PROVE ~ Intake!ForgetEvidence(n)
    BY <2>2 DEF Intake!ForgetEvidence
  <2>5. ~ Intake!Restart
    BY <2>2 DEF Intake!Restart
  <2>6. \A c \in Creations : ~ Intake!GameRefused(c) /\ ~ Intake!GameFound(c) /\ ~ Intake!InsertRow(c)
          /\ \A players, g, platform : ~ Intake!RequestMatch(c, players, g, platform)
    BY <2>3 DEF Intake!GameRefused, Intake!GameFound, Intake!InsertRow, Intake!RequestMatch
  <2>7. \A w : ~ Intake!Unlink(w)
    BY <2>3 DEF Intake!Unlink
  <2>8. \A u : ~ Intake!FetchFails(u) /\ ~ Intake!EvidenceFails(u)
               /\ \A g, platform : ~ Intake!Verify(u, g, platform)
    BY <2>3 DEF Intake!FetchFails, Intake!EvidenceFails, Intake!Verify
  <2>9. intakeVars' # intakeVars
    BY <2>3 DEF intakeVars
  <2> QED BY <2>4, <2>5, <2>6, <2>7, <2>8, <2>9, Zenon DEF Intake!Next
<1>3. PICK q \in VerificationRecords : q = verification[v] /\ VerificationShape(q)
  OBVIOUS
<1>4. CASE Intake!SaveEvidence(v)
  <2>1. PICK e : e = Intake!Entry(v, verification[v].answer, verification[v].decision)
    OBVIOUS
  <2>2. evidence' = Append(evidence, e)
    BY <1>4, <2>1 DEF Intake!SaveEvidence
  <2>3. evidence'[Len(evidence')] = e
    BY <2>2
  <2>4. e.id = q.id /\ e.answer = q.answer /\ e.decision = q.decision
    BY <1>3, <2>1 DEF Intake!Entry
  <2>5. q.at = "saving"
    BY <1>3, <1>4 DEF Intake!SaveEvidence
  <2> QED BY <1>3, <2>3, <2>4, <2>5 DEF VerificationShape
<1>5. ASSUME NEW answer \in Pairs, Intake!ResultFetched(v, answer)
      PROVE  LET e == evidence'[Len(evidence')] IN
               Intake!SamePlayers(born[e.id], e.answer) /\ e.id \notin unlinked
  <2>1. PICK e : e = Intake!Entry(v, answer, Intake!Decision(v, answer))
    OBVIOUS
  <2>2. store = "memory" /\ evidence' = Append(evidence, e)
    <3>1. evidence' # evidence
      OBVIOUS
    <3> QED BY <1>5, <2>1, <3>1 DEF Intake!ResultFetched
  <2>3. evidence'[Len(evidence')] = e
    BY <2>2
  <2>4. e.id = q.id /\ e.answer = answer /\ e.decision = Intake!Decision(v, answer)
    BY <1>3, <2>1 DEF Intake!Entry
  <2>5. q.at = "fetching" /\ q.id \in Intake!Stored
    BY <1>3, <1>5 DEF Intake!ResultFetched, VerificationShape
  <2>6. Intake!SamePlayers(match[q.id].names, answer)
    BY <1>3, <2>2, <2>3, <2>4 DEF Intake!Decision, Intake!NamesNow
  <2>7. match[q.id].names # None
    BY <2>6 DEF Intake!SamePlayers
  <2>8. q.id \notin unlinked /\ match[q.id].names = born[q.id]
    BY <2>5, <2>7
  <2> QED BY <2>3, <2>4, <2>6, <2>8
<1> QED BY <1>2, <1>4, <1>5

\* Each result that is verified has the players its match was created with, and is never one of a
\* match whose players' names were deleted before (verifyGameResult).
THEOREM VerdictsAreRight == Spec => VerdictsHold
<1>1. IntakeInv /\ [Intake!Next]_intakeVars =>
        [Len(evidence') > Len(evidence) =>
           LET e == evidence'[Len(evidence')] IN
             e.decision = "verified" =>
               Intake!SamePlayers(born[e.id], e.answer) /\ e.id \notin unlinked]_(Intake!vars)
  BY EvidenceIsRight
<1> QED
  BY <1>1, IntakeInvInit, IntakeInvNext, IntakeSteps, PTL DEF VerdictsHold, Intake!VerdictsHold

-----------------------------------------------------------------------------
(* The transaction sponsor: TransactionSponsor.                            *)

\* Of each behaviour of the services, the transaction sponsor's part.
LEMMA SponsorSteps == Spec => Sponsor!Init /\ [][Sponsor!Next]_sponsorVars
<1>1. Init => Sponsor!Init
  BY DEF Init
<1>2. [Next]_vars => [Sponsor!Next]_sponsorVars
  BY DEF Next, vars, sponsorVars, Sponsor!sponsorVars
<1> QED BY <1>1, <1>2, PTL DEF Spec

\* What the run's constants are, as far as the proofs use it.
LEMMA SponsorConstants ==
  /\ \A t \in 1 .. 4 : Fee[t] \in Nat
  /\ DailyBudget \in Nat /\ DailyPlayerLimit \in Nat /\ None \notin Requests
BY ServicesAssumption DEF Sponsor!SponsorAssumption

\* The instance's own copy of FiniteSets counts as the module does.
LEMMA SponsorCounts == \A S : Sponsor!Cardinality(S) = Cardinality(S)
BY DEF Sponsor!Cardinality, Cardinality

\* The fees of a set of rows, and their sum.
Fees(R) == [s \in R |-> Fee[s.transaction]]
LEMMA TotalFeeIsSum ==
  ASSUME NEW R
  PROVE  Sponsor!TotalFee(R) = Sum(Fees(R), R)
<1> DEFINE Adds(g) ==
      g = [s \in SUBSET R |-> IF s = {} THEN 0 ELSE Fee[Pick(s).transaction] + g[s \ {Pick(s)}]]
<1>1. ASSUME NEW s \in SUBSET R, s # {}
      PROVE  Fee[Pick(s).transaction] = Fees(R)[Pick(s)]
  <2>1. Pick(s) \in s
    BY <1>1 DEF Pick
  <2> QED BY <2>1 DEF Fees
<1>2. \A g : Adds(g) <=> Sums(g, Fees(R), R)
  BY <1>1 DEF Sums
<1>3. Sponsor!TotalFee(R) = (CHOOSE g : Adds(g))[R]
  BY DEF Sponsor!TotalFee, Sponsor!MapThenSumSet, Sponsor!MapThenFoldSet, Pick
<1>4. (CHOOSE g : Adds(g)) = (CHOOSE g : Sums(g, Fees(R), R))
  <2> HIDE DEF Adds
  <2> QED BY <1>2
<1> QED BY <1>3, <1>4 DEF Sum

\* A reservation adds its fee to the day's total.
LEMMA TotalFeeAdd ==
  ASSUME NEW R, IsFiniteSet(R), NEW x, x \notin R,
         \A s \in R \cup {x} : s.transaction \in 1 .. 4
  PROVE  Sponsor!TotalFee(R \cup {x}) = Sponsor!TotalFee(R) + Fee[x.transaction]
<1> DEFINE f == Fees(R \cup {x})
<1>1. \A s \in R \cup {x} : f[s] \in Int /\ f[s] = Fee[s.transaction]
  BY SponsorConstants DEF Fees
<1>2. \A s \in R : f[s] = Fees(R)[s]
  BY <1>1 DEF Fees
<1> HIDE DEF f
<1>3. Sum(f, R \cup {x}) = Sum(f, R) + f[x]
  BY <1>1, SumAdd
<1>4. Sum(f, R) = Sum(Fees(R), R)
  BY <1>2, SumSame
<1> QED BY <1>1, <1>3, <1>4, TotalFeeIsSum DEF f

\* Bumps that each have a reservation of their own cost no more than those.
LEMMA TotalFeeWithin ==
  ASSUME NEW B, NEW R, IsFiniteSet(B), IsFiniteSet(R), NEW reserved \in [B -> R],
         \A b, c \in B : reserved[b] = reserved[c] => b = c,
         \A b \in B : b.transaction = reserved[b].transaction,
         \A s \in R : s.transaction \in 1 .. 4
  PROVE  Sponsor!TotalFee(B) <= Sponsor!TotalFee(R) /\ Sponsor!TotalFee(R) \in Nat
<1>1. \A s \in R : Fees(R)[s] \in Nat
  BY SponsorConstants DEF Fees
<1>2. \A b \in B : Fees(B)[b] = Fees(R)[reserved[b]] /\ Fees(B)[b] \in Int
  BY SponsorConstants DEF Fees
<1> DEFINE I == {reserved[b] : b \in B}
<1>3. Sum(Fees(B), B) = Sum(Fees(R), I)
  BY <1>2, SumImage
<1>4. I \in SUBSET R
  OBVIOUS
<1> HIDE DEF I
<1>5. Sum(Fees(R), I) <= Sum(Fees(R), R) /\ Sum(Fees(R), R) \in Nat
  <2>1. PICK f : f = Fees(R)
    OBVIOUS
  <2>2. \A s \in R : f[s] \in Nat
    BY <1>1, <2>1
  <2>3. Sum(f, I) <= Sum(f, R) /\ Sum(f, I) \in Nat
    BY <1>4, <2>2, SumMonotone
  <2>4. Sum(f, R) \in Nat
    <3>1. R \in SUBSET R
      OBVIOUS
    <3> QED BY <2>2, <3>1, SumMonotone
  <2> QED BY <2>1, <2>3, <2>4
<1> QED BY <1>3, <1>5, TotalFeeIsSum

\* The stages of a request, the records and the rows.
Places == {"unused", "opening", "checking", "inserting", "committing", "sending", "over"}
SponsorRequests == [at : Places, transaction : 1 .. 4 \cup {None}, day : Nat \cup {None}]
SponsorRows == [transaction : 1 .. 4, day : Nat]
Bumps == [at : Requests, transaction : 1 .. 4, day : Nat]
RowOf(b) == [transaction |-> b.transaction, day |-> b.day]
RowsFor(day, p) == {s \in Sponsor!RowsOf(day) : Source[s.transaction] = p}

\* The values the sponsor's variables take.
SponsorTypes ==
  /\ today \in Nat
  /\ request \in [Requests -> SponsorRequests]
  /\ sponsorships \in SUBSET SponsorRows /\ IsFiniteSet(sponsorships)
  /\ bumped \in SUBSET Bumps /\ IsFiniteSet(bumped)

\* What holds of a request at its place: while it has the write lock, what it
\* has checked; and once it has its reservation, that it is its own.
Fits(q) ==
  /\ Sponsor!TotalFee(Sponsor!RowsOf(q.day)) + Fee[q.transaction] <= DailyBudget
  /\ Cardinality(RowsFor(q.day, Source[q.transaction])) < DailyPlayerLimit

\* The stages in which a request holds the database's write lock.
Locking == {"checking", "inserting", "committing"}

\* What a request has established at each stage.
RequestShape(q) ==
  /\ q.at \notin {"unused", "over"} => q.transaction \in 1 .. 4 /\ q.day \in Nat
  /\ q.at \in {"inserting", "committing"} => Fits(q)
  /\ q.at = "committing" => ~ Sponsor!Taken(q.transaction)
  /\ q.at = "sending" =>
       /\ RowOf(q) \in sponsorships
       /\ \A b \in bumped : ~ Sponsor!SameSlot(b.transaction, q.transaction)

\* The request that holds the lock is the one that wrote last.
OneWriter == \A r \in Requests : request[r].at \in Locking => writer = r

\* Two requests about to send hold different slots.
SendersDiffer ==
  \A r, q \in Requests : request[r].at = "sending" /\ request[q].at = "sending" /\ r # q =>
    ~ Sponsor!SameSlot(request[r].transaction, request[q].transaction)

\* The reservations are within the policy, and every bump has one.
Reservations ==
  /\ \A day \in Nat :
       /\ Sponsor!TotalFee(Sponsor!RowsOf(day)) <= DailyBudget
       /\ \A p \in Sponsored : Cardinality(RowsFor(day, p)) <= DailyPlayerLimit
  /\ \A s, u \in sponsorships : Sponsor!SameSlot(s.transaction, u.transaction) => s = u

\* A fee bump that was sent has its row, and no slot has two.
BumpsReserved ==
  /\ \A b \in bumped : RowOf(b) \in sponsorships
  /\ \A b, c \in bumped : Sponsor!SameSlot(b.transaction, c.transaction) => b = c

\* The inductive invariant of the sponsor.
SponsorInv ==
  /\ SponsorTypes /\ OneWriter /\ SendersDiffer /\ Reservations /\ BumpsReserved
  /\ \A r \in Requests : RequestShape(request[r])

\* A request moves, and no reservation and no bump is made.
LEMMA RequestMoves ==
  ASSUME SponsorInv, NEW r \in Requests, NEW q \in SponsorRequests, RequestShape(q),
         q.at # "sending", request' = [request EXCEPT ![r] = q],
         UNCHANGED <<today, sponsorships, bumped>>,
         q.at \in Locking => writer' = r,
         \/ writer' = writer
         \/ writer \in {r, None} /\ writer' \in {r, None}
  PROVE  SponsorInv'
<1> USE DEF SponsorInv
<1>1. \A p \in Requests : request'[p] = IF p = r THEN q ELSE request[p]
  BY DEF SponsorTypes
<1>2. SponsorTypes'
  BY DEF SponsorTypes
<1>3. OneWriter'
  <2>1. ASSUME NEW p \in Requests, request'[p].at \in Locking
        PROVE  writer' = p
    <3>1. CASE p = r
      BY <1>1, <2>1, <3>1
    <3>2. CASE p # r
      <4>1. writer = p
        BY <1>1, <2>1, <3>2 DEF OneWriter
      <4> QED BY <3>2, <4>1, SponsorConstants
    <3> QED BY <3>1, <3>2
  <2> QED BY <2>1 DEF OneWriter
<1>4. SendersDiffer'
  BY <1>1 DEF SendersDiffer
<1>5. Reservations' /\ BumpsReserved'
  BY DEF Reservations, BumpsReserved, Sponsor!RowsOf, RowsFor
<1>6. \A o : RequestShape(o) => RequestShape(o)'
  BY DEF RequestShape, Fits, Sponsor!RowsOf, RowsFor, Sponsor!Taken
<1>7. ASSUME NEW p \in Requests
      PROVE  RequestShape(request[p])'
  <2>1. PICK o : o = request'[p] /\ RequestShape(o)
    BY <1>1
  <2>2. RequestShape(o)'
    BY <1>6, <2>1
  <2> QED BY <2>1, <2>2 DEF RequestShape, Fits
<1> QED BY <1>2, <1>3, <1>4, <1>5, <1>7

\* A commit adds a row the policy has room for.
LEMMA CommitKeeps ==
  ASSUME SponsorInv, NEW r \in Requests, Sponsor!Commit(r)
  PROVE  SponsorInv'
<1> USE DEF SponsorInv
<1>1. PICK o \in SponsorRequests : o = request[r] /\ RequestShape(o)
  BY DEF SponsorTypes
<1>2. o.at = "committing" /\ o.transaction \in 1 .. 4 /\ o.day \in Nat
      /\ Fits(o) /\ ~ Sponsor!Taken(o.transaction)
  BY <1>1 DEF Sponsor!Commit, Sponsor!At, RequestShape
<1>3. PICK reserved : reserved = [transaction |-> o.transaction, day |-> o.day]
  OBVIOUS
<1>4. reserved \in SponsorRows /\ reserved.transaction = o.transaction /\ reserved.day = o.day
  BY <1>2, <1>3 DEF SponsorRows
<1>5. PICK q : q = [o EXCEPT !.at = "sending"]
  OBVIOUS
<1>6. /\ q \in SponsorRequests /\ q.at = "sending" /\ q.transaction = o.transaction
      /\ q.day = o.day
  BY <1>5 DEF SponsorRequests, Places
<1>7. /\ request' = [request EXCEPT ![r] = q] /\ sponsorships' = sponsorships \cup {reserved}
      /\ UNCHANGED <<today, bumped>> /\ writer' = IF writer = r THEN None ELSE writer
  BY <1>1, <1>3, <1>5 DEF Sponsor!Commit, Sponsor!Goes, Sponsor!Release
<1>8. \A p \in Requests : request'[p] = IF p = r THEN q ELSE request[p]
  BY <1>7 DEF SponsorTypes
<1>9. \A p \in Requests \ {r} : request[p].at \notin Locking
  <2>1. writer = r
    BY <1>1, <1>2 DEF OneWriter, Locking
  <2> QED BY <2>1 DEF OneWriter
<1>10. \A s \in sponsorships : ~ Sponsor!SameSlot(s.transaction, reserved.transaction)
  BY <1>2, <1>4 DEF Sponsor!Taken
<1>11. reserved \notin sponsorships
  BY <1>10 DEF Sponsor!SameSlot
<1>12. SponsorTypes'
  <2>1. IsFiniteSet(sponsorships \cup {reserved})
    BY FS_AddElement DEF SponsorTypes
  <2> QED BY <1>4, <1>6, <1>7, <2>1 DEF SponsorTypes
<1>13. OneWriter'
  BY <1>6, <1>8, <1>9 DEF OneWriter, Locking
<1>14. \A s, u : Sponsor!SameSlot(s, u) => Sponsor!SameSlot(u, s)
  BY DEF Sponsor!SameSlot
<1>15. \A b \in bumped : ~ Sponsor!SameSlot(b.transaction, o.transaction)
  <2>1. \A b \in bumped : RowOf(b) \in sponsorships /\ RowOf(b).transaction = b.transaction
    BY DEF BumpsReserved, RowOf
  <2> QED BY <1>4, <1>10, <2>1
<1>16. \A p \in Requests \ {r} : request[p].at = "sending" =>
         ~ Sponsor!SameSlot(request[p].transaction, o.transaction)
  <2>1. \A p \in Requests : request[p].at = "sending" =>
          RowOf(request[p]) \in sponsorships /\ RowOf(request[p]).transaction = request[p].transaction
    BY DEF RequestShape, RowOf
  <2> QED BY <1>4, <1>10, <2>1
<1>17. SendersDiffer'
  BY <1>6, <1>8, <1>14, <1>16 DEF SendersDiffer
<1>18. BumpsReserved'
  BY <1>7 DEF BumpsReserved
<1>19. ASSUME NEW p \in Requests
       PROVE  RequestShape(request[p])'
  <2>1. CASE p = r
    <3>1. RowOf(request'[p]) = reserved
      BY <1>3, <1>6, <1>8, <2>1 DEF RowOf
    <3> QED BY <1>2, <1>6, <1>7, <1>8, <1>15, <2>1, <3>1 DEF RequestShape
  <2>2. CASE p # r
    BY <1>7, <1>8, <1>9, <2>2 DEF RequestShape, Locking
  <2> QED BY <2>1, <2>2
<1>20. Reservations'
  <2>1. ASSUME NEW day \in Nat
        PROVE  Sponsor!RowsOf(day)' = IF day = o.day THEN Sponsor!RowsOf(day) \cup {reserved}
                                      ELSE Sponsor!RowsOf(day)
    BY <1>4, <1>7 DEF Sponsor!RowsOf
  <2>2. ASSUME NEW day \in Nat, NEW p \in Sponsored
        PROVE  RowsFor(day, p)' = IF day = o.day /\ p = Source[o.transaction]
                                  THEN RowsFor(day, p) \cup {reserved} ELSE RowsFor(day, p)
    BY <1>4, <1>7 DEF Sponsor!RowsOf, RowsFor
  <2>3. \A s, u \in sponsorships' : Sponsor!SameSlot(s.transaction, u.transaction) => s = u
    BY <1>7, <1>10, <1>14 DEF Reservations
  <2>4. ASSUME NEW day \in Nat
        PROVE  Sponsor!TotalFee(Sponsor!RowsOf(day))' <= DailyBudget
    <3>1. CASE day = o.day
      <4>1. PICK R : R = Sponsor!RowsOf(day)
        OBVIOUS
      <4>2. IsFiniteSet(R) /\ reserved \notin R /\ \A s \in R \cup {reserved} : s.transaction \in 1 .. 4
        <5>1. R \subseteq sponsorships
          BY <4>1 DEF Sponsor!RowsOf
        <5> QED BY <1>2, <1>4, <1>11, <5>1, FS_Subset DEF SponsorTypes, SponsorRows
      <4>3. Sponsor!TotalFee(R \cup {reserved}) = Sponsor!TotalFee(R) + Fee[reserved.transaction]
        BY <4>2, TotalFeeAdd
      <4>4. Sponsor!TotalFee(R) + Fee[reserved.transaction] <= DailyBudget
        BY <1>2, <1>4, <3>1, <4>1 DEF Fits
      <4>5. Sponsor!RowsOf(day)' = R \cup {reserved}
        BY <2>1, <3>1, <4>1
      <4>6. Sponsor!TotalFee(Sponsor!RowsOf(day))' = Sponsor!TotalFee(R \cup {reserved})
        BY <4>5 DEF Sponsor!TotalFee, Sponsor!MapThenSumSet, Sponsor!MapThenFoldSet
      <4> QED BY <4>3, <4>4, <4>6
    <3>2. CASE day # o.day
      <4>1. Sponsor!RowsOf(day)' = Sponsor!RowsOf(day)
        BY <2>1, <3>2
      <4>2. Sponsor!TotalFee(Sponsor!RowsOf(day))' = Sponsor!TotalFee(Sponsor!RowsOf(day))
        BY <4>1 DEF Sponsor!TotalFee, Sponsor!MapThenSumSet, Sponsor!MapThenFoldSet
      <4> QED BY <4>2 DEF Reservations
    <3> QED BY <3>1, <3>2
  <2>5. ASSUME NEW day \in Nat, NEW p \in Sponsored
        PROVE  Cardinality(RowsFor(day, p))' <= DailyPlayerLimit
    <3>1. CASE day = o.day /\ p = Source[o.transaction]
      <4>1. PICK R : R = RowsFor(day, p)
        OBVIOUS
      <4>2. IsFiniteSet(R) /\ reserved \notin R
        <5>1. R \subseteq sponsorships
          BY <4>1 DEF Sponsor!RowsOf, RowsFor
        <5> QED BY <1>11, <5>1, FS_Subset DEF SponsorTypes
      <4>3. Cardinality(R \cup {reserved}) = Cardinality(R) + 1 /\ Cardinality(R) \in Nat
        BY <4>2, FS_AddElement, FS_CardinalityType
      <4>4. Cardinality(R) < DailyPlayerLimit
        BY <1>2, <3>1, <4>1 DEF Fits
      <4>5. RowsFor(day, p)' = R \cup {reserved}
        BY <2>2, <3>1, <4>1
      <4> QED BY <4>3, <4>4, <4>5, SponsorConstants
    <3>2. CASE ~ (day = o.day /\ p = Source[o.transaction])
      BY <2>2, <3>2 DEF Reservations
    <3> QED BY <3>1, <3>2
  <2> QED BY <2>3, <2>4, <2>5 DEF Reservations
<1> QED BY <1>12, <1>13, <1>17, <1>18, <1>19, <1>20

LEMMA OverRequest == Sponsor!Over \in SponsorRequests /\ Sponsor!Over.at = "over"
BY DEF Sponsor!Over, Sponsor!Unused, SponsorRequests, Places

\* A submission that is sent is one whose row was committed.
LEMMA SubmitKeeps ==
  ASSUME SponsorInv, NEW r \in Requests, Sponsor!Submit(r)
  PROVE  SponsorInv'
<1> USE DEF SponsorInv
<1>1. PICK o \in SponsorRequests : o = request[r] /\ RequestShape(o)
  BY DEF SponsorTypes
<1>2. /\ o.at = "sending" /\ o.transaction \in 1 .. 4 /\ o.day \in Nat
      /\ RowOf(o) \in sponsorships
      /\ \A b \in bumped : ~ Sponsor!SameSlot(b.transaction, o.transaction)
  BY <1>1 DEF Sponsor!Submit, Sponsor!At, RequestShape
<1>3. PICK q : q = Sponsor!Over
  OBVIOUS
<1>4. PICK sent : sent = [o EXCEPT !.at = r]
  OBVIOUS
<1>5. sent \in Bumps /\ sent.transaction = o.transaction /\ RowOf(sent) = RowOf(o)
  BY <1>2, <1>4 DEF SponsorRequests, Bumps, RowOf
<1>6. /\ request' = [request EXCEPT ![r] = q] /\ UNCHANGED <<today, writer, sponsorships>>
      /\ bumped' = bumped \cup {sent} \/ bumped' = bumped
  BY <1>1, <1>3, <1>4 DEF Sponsor!Submit
<1>7. \A p \in Requests : request'[p] = IF p = r THEN q ELSE request[p]
  BY <1>6 DEF SponsorTypes
<1>8. q \in SponsorRequests /\ q.at = "over"
  BY <1>3, OverRequest
<1>9. SponsorTypes'
  <2>1. IsFiniteSet(bumped \cup {sent})
    BY FS_AddElement DEF SponsorTypes
  <2> QED BY <1>5, <1>6, <1>8, <2>1 DEF SponsorTypes
<1>10. OneWriter'
  BY <1>6, <1>7, <1>8 DEF OneWriter, Locking
<1>11. SendersDiffer'
  BY <1>7, <1>8 DEF SendersDiffer
<1>12. Reservations'
  BY <1>6 DEF Reservations, Sponsor!RowsOf, RowsFor
<1>13. \A t, u : Sponsor!SameSlot(t, u) => Sponsor!SameSlot(u, t)
  BY DEF Sponsor!SameSlot
<1>14. BumpsReserved'
  BY <1>2, <1>5, <1>6, <1>13 DEF BumpsReserved
<1>15. \A p \in Requests \ {r} : request[p].at = "sending" =>
         ~ Sponsor!SameSlot(sent.transaction, request[p].transaction)
  BY <1>1, <1>2, <1>5 DEF SendersDiffer
<1>16. ASSUME NEW p \in Requests
       PROVE  RequestShape(request[p])'
  <2>1. CASE p = r
    BY <1>7, <1>8, <2>1 DEF RequestShape
  <2>2. CASE p # r
    <3>1. PICK x : x = request[p] /\ RequestShape(x) /\ x = request'[p]
      BY <1>7, <2>2
    <3>2. RequestShape(x)'
      <4>1. Fits(x) => Fits(x)'
        BY <1>6 DEF Fits, Sponsor!RowsOf, RowsFor
      <4>2. ~ Sponsor!Taken(x.transaction) => ~ Sponsor!Taken(x.transaction)'
        BY <1>6 DEF Sponsor!Taken
      <4>3. x.at = "sending" =>
              \A b \in bumped' : ~ Sponsor!SameSlot(b.transaction, x.transaction)
        BY <1>6, <1>15, <2>2, <3>1 DEF RequestShape
      <4> QED BY <1>6, <3>1, <4>1, <4>2, <4>3 DEF RequestShape
    <3> QED BY <3>1, <3>2 DEF RequestShape, Fits
  <2> QED BY <2>1, <2>2
<1> QED BY <1>9, <1>10, <1>11, <1>12, <1>14, <1>16

\* The invariant of the sponsor is inductive.
LEMMA SponsorInvNext ==
  ASSUME SponsorInv, [Sponsor!Next]_sponsorVars
  PROVE  SponsorInv'
<1>0. \A r \in Requests : request[r] \in SponsorRequests /\ RequestShape(request[r])
  BY DEF SponsorInv, SponsorTypes
<1>1. ASSUME UNCHANGED <<request, writer, sponsorships, bumped>>, today' \in Nat
      PROVE  SponsorInv'
  BY <1>1 DEF SponsorInv, SponsorTypes, OneWriter, SendersDiffer, Reservations, BumpsReserved,
     RequestShape, Fits, Sponsor!Taken, Sponsor!RowsOf, RowsFor
<1>a. ASSUME NEW r \in Requests, NEW q, q \in SponsorRequests, RequestShape(q), q.at # "sending",
             request' = [request EXCEPT ![r] = q], UNCHANGED <<today, sponsorships, bumped>>,
             q.at \in Locking => writer' = r,
             writer' = writer \/ (writer \in {r, None} /\ writer' \in {r, None})
      PROVE  SponsorInv'
  BY <1>a, RequestMoves
\* A request ends: its connection closes.
<1>b. ASSUME NEW r \in Requests, request' = [request EXCEPT ![r] = Sponsor!Over],
             Sponsor!Release(r), UNCHANGED <<today, sponsorships, bumped>>
      PROVE  SponsorInv'
  <2>1. PICK q : q = Sponsor!Over
    OBVIOUS
  <2>2. q \in SponsorRequests /\ q.at = "over"
    BY <2>1, OverRequest
  <2>3. RequestShape(q)
    BY <2>2 DEF RequestShape
  <2>4. writer' = writer \/ (writer \in {r, None} /\ writer' \in {r, None})
    BY <1>b DEF Sponsor!Release
  <2>5. q.at \notin Locking
    BY <2>2 DEF Locking
  <2> QED BY <1>b, <2>1, <2>2, <2>3, <2>4, <2>5, <1>a
\* A request goes on to its next statement.
<1>c. ASSUME NEW r \in Requests, NEW place \in {"checking", "inserting", "committing"},
             request[r].at \notin {"unused", "over"}, Sponsor!Goes(r, place),
             UNCHANGED <<today, sponsorships, bumped>>,
             place # "checking" => Fits(request[r]),
             place = "committing" => ~ Sponsor!Taken(request[r].transaction),
             writer' = r, writer \in {r, None}
      PROVE  SponsorInv'
  <2>1. PICK o \in SponsorRequests : o = request[r] /\ RequestShape(o)
    BY <1>0
  <2>2. PICK q : q = [o EXCEPT !.at = place]
    OBVIOUS
  <2>3. /\ q \in SponsorRequests /\ q.at = place
        /\ q.transaction = o.transaction /\ q.day = o.day
    BY <2>2 DEF SponsorRequests, Places
  <2>4. request' = [request EXCEPT ![r] = q]
    BY <1>c, <2>1, <2>2 DEF Sponsor!Goes
  <2>5. RequestShape(q)
    BY <1>c, <2>1, <2>3 DEF RequestShape, Fits
  <2>6. q.at # "sending" /\ (writer' = writer \/ (writer \in {r, None} /\ writer' \in {r, None}))
    BY <1>c, <2>3
  <2> QED BY <1>c, <2>3, <2>4, <2>5, <2>6, <1>a
<1>2. CASE Sponsor!Midnight
  BY <1>1, <1>2 DEF Sponsor!Midnight, SponsorInv, SponsorTypes
<1>3. ASSUME NEW r \in Requests, NEW t \in 1 .. 4, Sponsor!SponsorTransaction(r, t)
      PROVE  SponsorInv'
  <2>1. PICK q : q = [at |-> "opening", transaction |-> t, day |-> today]
    OBVIOUS
  <2>2. /\ request' = [request EXCEPT ![r] = q]
        /\ UNCHANGED <<today, writer, sponsorships, bumped>>
    BY <1>3, <2>1 DEF Sponsor!SponsorTransaction
  <2>3. today \in Nat
    BY DEF SponsorInv, SponsorTypes
  <2>4. q.at = "opening" /\ q.transaction = t /\ q.day = today
    BY <2>1
  <2>5. q \in SponsorRequests /\ RequestShape(q) /\ q.at \notin Locking /\ q.at # "sending"
    BY <2>1, <2>3, <2>4 DEF SponsorRequests, Places, RequestShape, Locking
  <2> QED BY <2>2, <2>5, <1>a
<1>4. ASSUME NEW r \in Requests, Sponsor!BeginImmediate(r)
      PROVE  SponsorInv'
  <2>1. request[r].at = "opening" /\ writer = None /\ writer' = r
        /\ Sponsor!Goes(r, "checking") /\ UNCHANGED <<today, sponsorships, bumped>>
    BY <1>4 DEF Sponsor!BeginImmediate, Sponsor!At
  <2> QED BY <2>1, <1>c
<1>5. ASSUME NEW r \in Requests, Sponsor!CheckLimits(r)
      PROVE  SponsorInv'
  <2>1. request[r].at = "checking" /\ UNCHANGED <<today, sponsorships, bumped>>
    BY <1>5 DEF Sponsor!CheckLimits, Sponsor!At
  <2>2. writer = r
    BY <2>1 DEF SponsorInv, OneWriter, Locking
  <2>3. CASE /\ request' = [request EXCEPT ![r] = Sponsor!Over] /\ Sponsor!Release(r)
    BY <2>1, <2>3, <1>b
  <2>4. CASE Sponsor!WithinLimits(r) /\ Sponsor!Goes(r, "inserting") /\ UNCHANGED writer
    <3>1. Fits(request[r])
      BY <2>4, SponsorCounts DEF Sponsor!WithinLimits, Fits, RowsFor
    <3> QED BY <2>1, <2>2, <2>4, <3>1, <1>c
  <2> QED BY <1>5, <2>3, <2>4 DEF Sponsor!CheckLimits
<1>6. ASSUME NEW r \in Requests, Sponsor!Insert(r)
      PROVE  SponsorInv'
  <2>1. request[r].at = "inserting" /\ UNCHANGED <<today, sponsorships, bumped>>
    BY <1>6 DEF Sponsor!Insert, Sponsor!At
  <2>2. writer = r /\ Fits(request[r])
    BY <1>0, <2>1 DEF SponsorInv, OneWriter, Locking, RequestShape
  <2>3. CASE request' = [request EXCEPT ![r] = Sponsor!Over] /\ Sponsor!Release(r)
    BY <2>1, <2>3, <1>b
  <2>4. CASE /\ ~ Sponsor!Taken(request[r].transaction) /\ Sponsor!Goes(r, "committing")
             /\ UNCHANGED writer
    BY <2>1, <2>2, <2>4, <1>c
  <2> QED BY <1>6, <2>3, <2>4 DEF Sponsor!Insert
<1>7. ASSUME NEW r \in Requests, Sponsor!ReserveFails(r) \/ Sponsor!Crash(r)
      PROVE  SponsorInv'
  BY <1>7, <1>b DEF Sponsor!ReserveFails, Sponsor!Crash
<1>8. CASE UNCHANGED sponsorVars
  BY <1>1, <1>8 DEF sponsorVars, SponsorInv, SponsorTypes
<1> QED
  BY <1>2, <1>3, <1>4, <1>5, <1>6, <1>7, <1>8, CommitKeeps, SubmitKeeps DEF Sponsor!Next

LEMMA SponsorInvInit == Sponsor!Init => SponsorInv
<1> SUFFICES ASSUME Sponsor!Init PROVE SponsorInv
  OBVIOUS
<1>1. sponsorships = {} /\ bumped = {} /\ IsFiniteSet({}) /\ Cardinality({}) = 0
  BY FS_EmptySet DEF Sponsor!Init
<1>2. Sponsor!Unused \in SponsorRequests /\ Sponsor!Unused.at = "unused"
  BY DEF Sponsor!Unused, SponsorRequests, Places
<1>3. \A r \in Requests : request[r] = Sponsor!Unused
  BY DEF Sponsor!Init
<1>4. \A day \in Nat : Sponsor!RowsOf(day) = {} /\ \A p \in Sponsored : RowsFor(day, p) = {}
  BY <1>1 DEF Sponsor!RowsOf, RowsFor
<1>5. Sponsor!TotalFee({}) = 0
  BY TotalFeeIsSum, SumEmpty
<1>6. Reservations
  <2>1. ASSUME NEW day \in Nat
        PROVE  /\ Sponsor!TotalFee(Sponsor!RowsOf(day)) <= DailyBudget
               /\ \A p \in Sponsored : Cardinality(RowsFor(day, p)) <= DailyPlayerLimit
    <3>1. Sponsor!RowsOf(day) = {}
      BY <1>4
    <3>2. \A p \in Sponsored : Cardinality(RowsFor(day, p)) = 0
      BY <1>1, <1>4
    <3> QED BY <1>5, <3>1, <3>2, SponsorConstants
  <2> QED BY <1>1, <2>1 DEF Reservations
<1>7. SponsorTypes
  BY <1>1, <1>2 DEF Sponsor!Init, SponsorTypes
<1> QED
  BY <1>1, <1>2, <1>3, <1>6, <1>7 DEF SponsorInv, OneWriter, SendersDiffer, BumpsReserved,
     RequestShape, Locking

\* The bumps of a day have each its own of the day's reservations.
LEMMA SpendWithinReserved ==
  ASSUME SponsorInv
  PROVE  SpendWithinPolicy
<1> USE DEF SponsorInv
<1>1. \A b \in bumped : b.transaction \in 1 .. 4 /\ b.day \in Nat
  BY DEF SponsorTypes, Bumps
<1>2. \A b, c \in bumped : RowOf(b) = RowOf(c) => b = c
  <2>1. \A b, c \in bumped : RowOf(b) = RowOf(c) => b.transaction = c.transaction
    <3>1. \A b : RowOf(b).transaction = b.transaction
      BY DEF RowOf
    <3> QED BY <3>1
  <2> QED BY <2>1 DEF BumpsReserved, Sponsor!SameSlot
<1>3. ASSUME NEW day \in 0 .. LastDay
      PROVE  LET sent == {b \in bumped : b.day = day} IN
               /\ Sponsor!TotalFee(sent) <= DailyBudget
               /\ \A p \in Sponsored :
                    Cardinality({b \in sent : Source[b.transaction] = p}) <= DailyPlayerLimit
  <2> DEFINE sent == {b \in bumped : b.day = day}
             R == Sponsor!RowsOf(day)
             reserved == [b \in sent |-> RowOf(b)]
  <2>1. day \in Nat
    OBVIOUS
  <2>2. IsFiniteSet(sent) /\ IsFiniteSet(R) /\ \A s \in R : s.transaction \in 1 .. 4
    <3>1. sent \subseteq bumped /\ R \subseteq sponsorships
      BY DEF Sponsor!RowsOf
    <3> HIDE DEF sent, R
    <3> QED BY <3>1, FS_Subset DEF SponsorTypes, SponsorRows
  <2>3. \A b \in sent : /\ RowOf(b) \in R /\ b.transaction = RowOf(b).transaction
                        /\ reserved[b] = RowOf(b)
    BY <1>1 DEF BumpsReserved, Sponsor!RowsOf, RowOf
  <2>4. reserved \in [sent -> R]
    BY <2>3
  <2>5. \A b, c \in sent : reserved[b] = reserved[c] => b = c
    BY <1>2, <2>3
  <2>6. Sponsor!TotalFee(sent) <= DailyBudget
    <3>1. \A b \in sent : b.transaction = reserved[b].transaction
      BY <2>3
    <3> HIDE DEF sent, R, reserved
    <3>2. Sponsor!TotalFee(sent) <= Sponsor!TotalFee(R) /\ Sponsor!TotalFee(R) \in Nat
      BY <2>2, <2>4, <2>5, <3>1, TotalFeeWithin
    <3>3. Sponsor!TotalFee(R) <= DailyBudget
      BY <2>1 DEF R, Reservations
    <3>4. Sponsor!TotalFee(sent) \in Int
      <4>1. PICK f : f = Fees(sent)
        OBVIOUS
      <4>2. \A b \in sent : f[b] \in Int
        BY <1>1, <4>1, SponsorConstants DEF Fees, sent
      <4> QED BY <2>2, <4>1, <4>2, SumType, TotalFeeIsSum
    <3> QED BY <3>2, <3>3, <3>4, SponsorConstants
  <2>7. ASSUME NEW p \in Sponsored
        PROVE  Cardinality({b \in sent : Source[b.transaction] = p}) <= DailyPlayerLimit
    <3> DEFINE B == {b \in sent : Source[b.transaction] = p}
               Q == RowsFor(day, p)
               place == [b \in B |-> RowOf(b)]
    <3>1. \A b \in B : RowOf(b) \in Q
      BY <2>3 DEF RowsFor
    <3>2. place \in Injection(B, Q)
      BY <1>2, <3>1 DEF Injection, IsInjective
    <3>3. IsFiniteSet(Q)
      <4>1. Q \subseteq sponsorships
        BY DEF RowsFor, Sponsor!RowsOf
      <4> HIDE DEF Q
      <4> QED BY <4>1, FS_Subset DEF SponsorTypes
    <3> HIDE DEF B, Q, place
    <3>4. Cardinality(B) <= Cardinality(Q) /\ IsFiniteSet(B)
      BY <3>2, <3>3, FS_Injection
    <3>5. Cardinality(Q) <= DailyPlayerLimit
      BY <2>1 DEF Q, Reservations
    <3> QED BY <3>3, <3>4, <3>5, FS_CardinalityType, SponsorConstants DEF B
  <2> QED BY <2>6, <2>7
<1> QED
  BY <1>3, SponsorCounts DEF SpendWithinPolicy, Sponsor!SpendWithinPolicy, BumpsReserved

\* However requests, failures and crashes interleave, the fees bumped on a day are within the
\* daily budget, no player gets more than the daily limit, and no sequence number of a player is
\* bumped twice (transaction-sponsor.ts).
THEOREM SpendStaysWithin == Spec => []SpendWithinPolicy
BY SponsorInvInit, SponsorInvNext, SpendWithinReserved, SponsorSteps, PTL

-----------------------------------------------------------------------------
(* The rate limits: RateLimit.                                             *)

\* Of each behaviour of the services, the rate limiter's part.
LEMMA RateSteps == Spec => Rate!Init /\ [][Rate!Next]_rateVars
<1>1. Init => Rate!Init
  BY DEF Init
<1>2. [Next]_vars => [Rate!Next]_rateVars
  BY DEF Next, vars, rateVars, Rate!rateVars
<1> QED BY <1>1, <1>2, PTL DEF Spec

-----------------------------------------------------------------------------
(* Arithmetic.                                                             *)

\* Multiplying and dividing by a positive number keep an order.
LEMMA Scaled ==
  ASSUME NEW a \in Int, NEW b \in Int, NEW c \in Nat, a <= b
  PROVE  a * c <= b * c
OBVIOUS

LEMMA Unscaled ==
  ASSUME NEW a \in Int, NEW b \in Int, NEW c \in Nat \ {0}, a * c <= b * c
  PROVE  a <= b
<1>1. CASE a >= b + 1
  <2>1. (b + 1) * c <= a * c
    BY <1>1, Scaled
  <2>2. (b + 1) * c = b * c + c /\ b * c \in Int /\ a * c \in Int
    OBVIOUS
  <2> QED BY <2>1, <2>2
<1> QED BY <1>1

\* A quotient is the largest number whose multiple is within the dividend.
LEMMA DivideDown ==
  ASSUME NEW a \in Nat, NEW c \in Nat \ {0}
  PROVE  /\ a \div c \in Nat
         /\ (a \div c) * c <= a
         /\ a < (a \div c) * c + c
OBVIOUS

LEMMA DivideLeast ==
  ASSUME NEW a \in Nat, NEW c \in Nat \ {0}, NEW k \in Int, k * c <= a
  PROVE  k <= a \div c
<1>1. PICK q \in Nat : q = a \div c /\ a < q * c + c
  BY DivideDown
<1>2. q * c + c = (q + 1) * c
  OBVIOUS
<1>3. k * c < (q + 1) * c
  BY <1>1, <1>2
<1>4. ~ (q + 1 <= k)
  <2>1. ASSUME q + 1 <= k PROVE FALSE
    <3>1. (q + 1) * c <= k * c
      BY <2>1, Scaled
    <3>2. k * c \in Int /\ (q + 1) * c \in Int
      OBVIOUS
    <3> QED BY <3>1, <3>2, <1>3
  <2> QED BY <2>1
<1> QED BY <1>1, <1>4

\* Whole intervals of two stretches are no more than those of both together.
LEMMA DivideParts ==
  ASSUME NEW a \in Nat, NEW b \in Nat, NEW c \in Nat \ {0}
  PROVE  (a \div c) + (b \div c) <= (a + b) \div c
<1>1. PICK p \in Nat, q \in Nat : p = a \div c /\ q = b \div c /\ p * c <= a /\ q * c <= b
  BY DivideDown
<1>2. (p + q) * c = p * c + q * c /\ p * c \in Nat /\ q * c \in Nat
  OBVIOUS
<1>3. (p + q) * c <= a + b
  BY <1>1, <1>2
<1> QED BY <1>1, <1>3, DivideLeast

\* What the run's constants are, as far as the proofs use it.
LEMMA RateConstants ==
  /\ Capacity \in Nat \ {0} /\ RefillInterval \in Nat \ {0} /\ RefillAmount \in Nat \ {0}
  /\ StaleThreshold \in Nat /\ RateTime \in Nat
  /\ Capacity <= RefillAmount * (StaleThreshold \div RefillInterval)
  /\ None \notin [tokens : Nat, lastRefill : Nat]
BY ServicesAssumption DEF Rate!RateLimitAssumption

\* The intervals a stretch reaches into.
Intervals(span) == (span + RefillInterval - 1) \div RefillInterval

\* Whole intervals that pass are counted.
LEMMA IntervalsGrow ==
  ASSUME NEW span \in Int, span + RefillInterval - 1 >= 0, NEW more \in Nat
  PROVE  /\ Intervals(span) \in Nat /\ Intervals(span + more) \in Nat
         /\ (more \div RefillInterval) \in Nat
         /\ (more \div RefillInterval) + Intervals(span) <= Intervals(span + more)
         /\ Intervals(span) <= Intervals(span + more)
<1>1. PICK a \in Nat : a = span + RefillInterval - 1
  BY RateConstants
<1>2. a + more = (span + more) + RefillInterval - 1
  BY <1>1, RateConstants
<1>3. (more \div RefillInterval) + (a \div RefillInterval) <= (more + a) \div RefillInterval
  BY RateConstants, DivideParts
<1>4. (more \div RefillInterval) \in Nat /\ (a \div RefillInterval) \in Nat
      /\ ((more + a) \div RefillInterval) \in Nat
  BY RateConstants, DivideDown
<1>5. more + a = a + more
  OBVIOUS
<1>6. Intervals(span) = a \div RefillInterval
      /\ Intervals(span + more) = (more + a) \div RefillInterval
  BY <1>1, <1>2, <1>5 DEF Intervals
<1> QED BY <1>3, <1>4, <1>6

\* The requests granted at s .. t.
Grants(s, t) == Sum(granted, s .. t)

\* The grants of a stretch of time are a sum.
LEMMA GrantedIsSum == \A s, t : Rate!GrantedIn(s, t) = Grants(s, t)
<1> SUFFICES ASSUME NEW s, NEW t PROVE Rate!GrantedIn(s, t) = Grants(s, t)
  OBVIOUS
<1> QED
  BY DEF Rate!GrantedIn, Rate!MapThenSumSet, Rate!MapThenFoldSet, Grants, Sum, Sums, Pick

LEMMA StretchFinite ==
  ASSUME NEW s \in 0 .. RateTime, NEW t \in 0 .. RateTime
  PROVE  IsFiniteSet(s .. t) /\ s .. t \subseteq 0 .. RateTime
<1>1. s \in Int /\ t \in Int /\ s >= 0 /\ t <= RateTime
  BY RateConstants
<1> QED BY <1>1, FS_Interval, RateConstants

\* A sum of grants is a number.
LEMMA GrantsCount ==
  ASSUME granted \in [0 .. RateTime -> Nat]
  PROVE  \A s, t \in 0 .. RateTime : Grants(s, t) \in Nat
<1> SUFFICES ASSUME NEW s \in 0 .. RateTime, NEW t \in 0 .. RateTime
             PROVE  Grants(s, t) \in Nat
  OBVIOUS
<1>1. PICK f : f = granted
  OBVIOUS
<1>2. PICK S : S = s .. t
  OBVIOUS
<1>3. IsFiniteSet(S) /\ \A u \in S : f[u] \in Nat
  BY <1>1, <1>2, StretchFinite
<1>4. S \in SUBSET S
  OBVIOUS
<1>5. Sum(f, S) \in Nat
  BY <1>3, <1>4, SumMonotone
<1> QED BY <1>1, <1>2, <1>5 DEF Grants

\* A longer stretch has no fewer grants.
LEMMA GrantsGrow ==
  ASSUME granted \in [0 .. RateTime -> Nat], NEW s \in 0 .. RateTime, NEW t \in 0 .. RateTime,
         NEW u \in 0 .. RateTime, t <= u
  PROVE  Grants(s, t) <= Grants(s, u)
<1>1. PICK f : f = granted
  OBVIOUS
<1>2. PICK S, T : S = s .. u /\ T = s .. t
  OBVIOUS
<1>3. IsFiniteSet(S) /\ \A v \in S : f[v] \in Nat
  BY <1>1, <1>2, StretchFinite
<1>a. T \in SUBSET S
  BY <1>2, RateConstants
<1>4. Sum(f, T) <= Sum(f, S)
  BY <1>3, <1>a, SumMonotone
<1> QED BY <1>1, <1>2, <1>4 DEF Grants

\* A grant counts in the stretches its instant lies in.
LEMMA GrantCounts ==
  ASSUME granted \in [0 .. RateTime -> Nat], NEW u \in 0 .. RateTime, Rate!Grant(u)
  PROVE  \A s, t \in 0 .. RateTime :
           Grants(s, t)' = Grants(s, t) + IF s <= u /\ u <= t THEN 1 ELSE 0
<1> SUFFICES ASSUME NEW s \in 0 .. RateTime, NEW t \in 0 .. RateTime
             PROVE  Grants(s, t)' = Grants(s, t) + IF s <= u /\ u <= t THEN 1 ELSE 0
  OBVIOUS
<1>1. PICK f, g : f = granted /\ g = granted'
  OBVIOUS
<1>2. PICK S : S = s .. t
  OBVIOUS
<1>3. /\ IsFiniteSet(S)
      /\ \A v \in S : f[v] \in Int
      /\ \A v \in S : g[v] \in Int
      /\ \A v \in S \ {u} : g[v] = f[v]
      /\ u \in S => g[u] = f[u] + 1
  BY <1>1, <1>2, StretchFinite DEF Rate!Grant
<1>4. Grants(s, t) = Sum(f, S) /\ Grants(s, t)' = Sum(g, S)
  BY <1>1, <1>2 DEF Grants
<1>5. Grants(s, t) \in Nat
  BY GrantsCount
<1>6. CASE u \in S
  <2>1. Sum(g, S) = Sum(f, S) - f[u] + g[u]
    <3>1. PICK x \in S : x = u
      BY <1>6
    <3>2. /\ \A v \in S : f[v] \in Int
          /\ \A v \in S : g[v] \in Int
          /\ \A v \in S \ {x} : g[v] = f[v]
      BY <1>3, <3>1
    <3>3. Sum(g, S) = Sum(f, S) - f[x] + g[x]
      BY <1>3, <3>2, SumChange
    <3> QED BY <3>1, <3>3
  <2>2. f[u] \in Int /\ g[u] = f[u] + 1 /\ s <= u /\ u <= t
    BY <1>2, <1>3, <1>6
  <2> QED BY <1>4, <1>5, <2>1, <2>2
<1>7. CASE u \notin S
  <2>1. Sum(f, S) = Sum(g, S)
    <3>1. \A v \in S : f[v] = g[v]
      BY <1>3, <1>7
    <3> QED BY <1>3, <3>1, SumSame
  <2>2. ~ (s <= u /\ u <= t)
    BY <1>2, <1>7, RateConstants
  <2> QED BY <1>4, <1>5, <2>1, <2>2
<1> QED BY <1>6, <1>7

-----------------------------------------------------------------------------
(* The invariant.                                                          *)

\* The instants, the records of a bucket, and the values of the limiter's variables.
Clock == 0 .. RateTime
BucketRecords == [tokens : Nat, lastRefill : Nat]

RateTypes ==
  /\ backend \in {"memory", "sqlite"} /\ time \in Clock
  /\ bucket \in BucketRecords \cup {None}
  /\ bucket # None => bucket.tokens <= Rate!Full /\ bucket.lastRefill <= time
  /\ asking \in [Instances -> [now : Clock, next : {"none", "insert", "consume"}]]
  /\ granted \in [Clock -> Nat]
  /\ \A i \in Instances :
       /\ backend = "memory" => asking[i].next = "none"
       /\ asking[i].now <= time
       /\ asking[i].next = "consume" => bucket # None

\* In memory: the grants since s and the tokens left are paid for by a full
\* bucket and the refills since s; once the bucket is forgotten, by the
\* refills alone.
PaidBy(s, n, tokens, lastRefill) ==
  /\ lastRefill - s + RefillInterval - 1 >= 0
  /\ n * RefillInterval + tokens
       <= (Capacity + RefillAmount * Intervals(lastRefill - s)) * RefillInterval

\* In memory: the grants since any instant are paid for by the bucket and its refills.
MemoryInv ==
  /\ \A s \in Clock : Grants(s, RateTime) > 0 =>
       /\ s <= time
       /\ IF bucket = None THEN Grants(s, RateTime) <= RefillAmount * Intervals(time - s)
          ELSE PaidBy(s, Grants(s, RateTime), bucket.tokens, bucket.lastRefill)
  /\ \A s, t \in Clock : s <= t /\ t < time =>
       Grants(s, t) <= Capacity + RefillAmount * Intervals(t - s)

\* In SQLite a clock reading may be older than the last: a consumption lowers
\* the tokens less the refills up to lastRefill by a token at least, so after
\* the grants of s .. t they are that much below a full bucket's at s.
SqliteInv ==
  \A s, t \in Clock : s <= t =>
    /\ Grants(s, t) * RefillInterval <= Rate!Full + (t - s) * RefillAmount
    /\ Grants(s, t) > 0 =>
         /\ bucket # None
         /\ Grants(s, t) * RefillInterval + bucket.tokens + s * RefillAmount
              <= Rate!Full + bucket.lastRefill * RefillAmount

\* The inductive invariant of the limiter.
RateInv ==
  /\ RateTypes
  /\ backend = "memory" => MemoryInv
  /\ backend = "sqlite" => SqliteInv

\* The bucket after refills of whole intervals is as well paid for.
LEMMA RefillPaid ==
  ASSUME RateTypes, bucket # None, NEW b, b = Rate!Refilled
  PROVE  /\ b \in BucketRecords /\ b.tokens <= Rate!Full /\ b.lastRefill <= time
         /\ time - b.lastRefill < RefillInterval
         /\ \A s, n \in Nat : PaidBy(s, n, bucket.tokens, bucket.lastRefill) =>
              PaidBy(s, n, b.tokens, b.lastRefill)
<1> USE RateConstants
<1>1. PICK tokens \in Nat, last \in Nat : tokens = bucket.tokens /\ last = bucket.lastRefill
  BY DEF RateTypes, BucketRecords
<1>2. tokens <= Rate!Full /\ last <= time /\ time \in Nat
  BY <1>1 DEF RateTypes, Clock
<1>3. PICK span \in Nat : span = time - last
  BY <1>2
<1>4. PICK k \in Nat : k = span \div RefillInterval /\ span < k * RefillInterval + RefillInterval
  BY DivideDown
<1>5. k = Rate!Refills
  BY <1>1, <1>3, <1>4 DEF Rate!Refills
<1>6. CASE k = 0
  <2>1. b = bucket
    BY <1>5, <1>6 DEF Rate!Refilled
  <2>2. span < RefillInterval
    BY <1>4, <1>6
  <2> QED BY <1>1, <1>2, <1>3, <2>1, <2>2 DEF RateTypes
<1>7. CASE k > 0
  <2>1. PICK new : new = tokens + k * RefillAmount * RefillInterval
    OBVIOUS
  <2>2. b = [tokens |-> Rate!AtMostFull(new), lastRefill |-> time]
    BY <1>1, <1>5, <1>7, <2>1 DEF Rate!Refilled, Rate!Token
  <2>3. new \in Nat
    <3>1. k * RefillAmount \in Nat
      OBVIOUS
    <3>2. k * RefillAmount * RefillInterval \in Nat
      BY <3>1
    <3> QED BY <2>1, <3>2
  <2>4. Rate!Full \in Nat
    BY DEF Rate!Full
  <2>5. /\ b.lastRefill = time /\ b.tokens \in Nat /\ b.tokens <= new /\ b.tokens <= Rate!Full
        /\ b \in BucketRecords
    BY <1>2, <2>2, <2>3, <2>4 DEF Rate!AtMostFull, BucketRecords
  <2>6. ASSUME NEW s \in Nat, NEW n \in Nat, PaidBy(s, n, bucket.tokens, bucket.lastRefill)
        PROVE  PaidBy(s, n, b.tokens, b.lastRefill)
    <3>1. last - s \in Int /\ last - s + RefillInterval - 1 >= 0 /\ time - s = (last - s) + span
      BY <1>1, <1>2, <1>3, <2>6 DEF PaidBy
    <3>2. PICK c \in Nat, d \in Nat : c = Intervals(last - s) /\ d = Intervals(time - s) /\ k + c <= d
      BY <1>4, <3>1, IntervalsGrow
    <3>3. n * RefillInterval + tokens <= (Capacity + RefillAmount * c) * RefillInterval
      BY <1>1, <2>6, <3>2 DEF PaidBy
    <3>4. RefillAmount * (k + c) <= RefillAmount * d
      BY <3>2, Scaled
    <3>5. RefillAmount * (k + c) = RefillAmount * k + RefillAmount * c
          /\ RefillAmount * k \in Nat /\ RefillAmount * c \in Nat /\ RefillAmount * d \in Nat
      OBVIOUS
    <3>6. PICK p \in Nat, q \in Nat, r \in Nat :
            p = RefillAmount * k /\ q = RefillAmount * c /\ r = RefillAmount * d /\ p + q <= r
      BY <3>4, <3>5
    <3>7. (Capacity + p + q) * RefillInterval <= (Capacity + r) * RefillInterval
      <4>1. Capacity + p + q <= Capacity + r
        BY <3>6
      <4> QED BY <4>1, Scaled
    <3>8. (Capacity + p + q) * RefillInterval = (Capacity + q) * RefillInterval + p * RefillInterval
      OBVIOUS
    <3>9. new = tokens + p * RefillInterval
      <4>1. k * RefillAmount = p
        BY <3>6
      <4> QED BY <2>1, <4>1
    <3>10. n * RefillInterval + new <= (Capacity + r) * RefillInterval
      <4>1. n * RefillInterval \in Nat /\ p * RefillInterval \in Nat
            /\ (Capacity + q) * RefillInterval \in Nat /\ (Capacity + r) * RefillInterval \in Nat
        OBVIOUS
      <4>2. n * RefillInterval + tokens <= (Capacity + q) * RefillInterval
        BY <3>3, <3>6
      <4> QED BY <3>7, <3>8, <3>9, <4>1, <4>2
    <3>11. n * RefillInterval + b.tokens <= (Capacity + r) * RefillInterval
      <4>1. n * RefillInterval \in Nat /\ (Capacity + r) * RefillInterval \in Nat
        OBVIOUS
      <4> QED BY <2>3, <2>5, <3>10, <4>1
    <3>12. time - s + RefillInterval - 1 >= 0
      BY <1>2, <1>3, <3>1
    <3> QED BY <2>5, <3>2, <3>6, <3>11, <3>12 DEF PaidBy
  <2>7. time - time < RefillInterval
    BY <1>2
  <2> QED BY <1>2, <2>5, <2>6, <2>7
<1> QED BY <1>6, <1>7

\* A full bucket pays for stretches in which nothing was granted yet.
LEMMA PaidFirst ==
  ASSUME NEW s \in Nat, NEW tokens \in Nat, NEW last \in Nat, tokens <= Rate!Full,
         last - s + RefillInterval - 1 >= 0
  PROVE  PaidBy(s, 0, tokens, last)
<1> USE RateConstants
<1>1. PICK i \in Nat : i = Intervals(last - s)
  <2>1. last - s \in Int /\ 0 \in Nat
    OBVIOUS
  <2> QED BY <2>1, IntervalsGrow
<1>2. PICK r \in Nat : r = RefillAmount * i
  OBVIOUS
<1>3. Capacity * RefillInterval <= (Capacity + r) * RefillInterval
  BY Scaled
<1>4. Capacity * RefillInterval \in Nat /\ (Capacity + r) * RefillInterval \in Nat
  OBVIOUS
<1>5. 0 * RefillInterval + tokens = tokens
  OBVIOUS
<1>6. tokens <= (Capacity + r) * RefillInterval
  BY <1>3, <1>4 DEF Rate!Full
<1> QED BY <1>1, <1>2, <1>5, <1>6 DEF PaidBy

\* A grant takes the token that pays for it.
LEMMA PaidMore ==
  ASSUME NEW s \in Nat, NEW n \in Nat, NEW tokens \in Nat, NEW last \in Nat,
         tokens >= RefillInterval, PaidBy(s, n, tokens, last)
  PROVE  PaidBy(s, n + 1, tokens - RefillInterval, last)
<1>1. (n + 1) * RefillInterval = n * RefillInterval + RefillInterval /\ n * RefillInterval \in Nat
  BY RateConstants
<1>2. (n + 1) * RefillInterval + (tokens - RefillInterval) = n * RefillInterval + tokens
  BY <1>1, RateConstants
<1> QED BY <1>2 DEF PaidBy

\* What is paid for is no more than the limit.
LEMMA PaidEnough ==
  ASSUME NEW s \in Nat, NEW n \in Nat, NEW tokens \in Nat, NEW last \in Nat,
         NEW t \in Nat, last <= t, PaidBy(s, n, tokens, last)
  PROVE  n <= Capacity + RefillAmount * Intervals(t - s)
<1> USE RateConstants
<1>1. last - s \in Int /\ last - s + RefillInterval - 1 >= 0
      /\ t - last \in Nat /\ (last - s) + (t - last) = t - s
  BY DEF PaidBy
<1>2. PICK c \in Nat, d \in Nat : c = Intervals(last - s) /\ d = Intervals(t - s) /\ c <= d
  BY <1>1, IntervalsGrow
<1>3. RefillAmount * c <= RefillAmount * d
  BY <1>2, Scaled
<1>4. PICK q \in Nat, r \in Nat : q = RefillAmount * c /\ r = RefillAmount * d /\ q <= r
  BY <1>3
<1>5. n * RefillInterval + tokens <= (Capacity + q) * RefillInterval
  BY <1>2, <1>4 DEF PaidBy
<1>6. n * RefillInterval <= (Capacity + q) * RefillInterval
  <2>1. n * RefillInterval \in Nat /\ (Capacity + q) * RefillInterval \in Nat
    OBVIOUS
  <2> QED BY <1>5, <2>1
<1>7. n <= Capacity + q
  BY <1>6, Unscaled
<1> QED BY <1>2, <1>4, <1>7

\* Where nothing is granted the sums stay.
LEMMA GrantsStay ==
  ASSUME UNCHANGED granted
  PROVE  \A s, t : Grants(s, t)' = Grants(s, t)
BY DEF Grants

\* Nothing was granted before the start.
LEMMA NoGrants ==
  ASSUME granted = [t \in Clock |-> 0]
  PROVE  \A s, t \in Clock : Grants(s, t) = 0
<1> SUFFICES ASSUME NEW s \in Clock, NEW t \in Clock PROVE Grants(s, t) = 0
  OBVIOUS
<1>1. PICK f, S : f = granted /\ S = s .. t
  OBVIOUS
<1>2. IsFiniteSet(S) /\ \A u \in S : f[u] = 0
  BY <1>1, StretchFinite DEF Clock
<1>3. Sum(f, S) = 0
  BY <1>2, SumOfZeros
<1> QED BY <1>1, <1>3 DEF Grants

-----------------------------------------------------------------------------
(* Every step keeps the types.                                             *)

\* The types, at the start and by every step.
LEMMA RateTypesInit == Rate!Init => RateTypes
<1> SUFFICES ASSUME Rate!Init PROVE RateTypes
  OBVIOUS
<1>1. Rate!Nothing \in [now : Clock, next : {"none", "insert", "consume"}] /\ Rate!Nothing.next = "none"
  BY RateConstants DEF Rate!Nothing, Clock
<1>2. 0 \in Clock /\ 0 <= 0 /\ Rate!Nothing.now = 0
  BY RateConstants DEF Clock, Rate!Nothing
<1>3. /\ asking \in [Instances -> [now : Clock, next : {"none", "insert", "consume"}]]
      /\ \A i \in Instances : asking[i].next = "none" /\ asking[i].now = 0
  BY <1>1, <1>2 DEF Rate!Init
<1> QED BY <1>2, <1>3, RateConstants DEF Rate!Init, RateTypes, Clock

LEMMA RateTypesNext == RateTypes /\ [Rate!Next]_rateVars => RateTypes'
<1> SUFFICES ASSUME RateTypes, [Rate!Next]_rateVars PROVE RateTypes'
  OBVIOUS
<1> USE RateConstants DEF Clock
<1>a. /\ Rate!Full \in Nat /\ RefillInterval <= Rate!Full
  <2>1. 1 * RefillInterval <= Capacity * RefillInterval
    <3>1. 1 <= Capacity
      OBVIOUS
    <3> QED BY <3>1, Scaled
  <2>2. Capacity * RefillInterval \in Nat /\ 1 * RefillInterval = RefillInterval
    OBVIOUS
  <2> QED BY <2>1, <2>2 DEF Rate!Full
<1>b. \A t \in Clock : /\ Rate!FirstBucket(t) \in BucketRecords
                       /\ Rate!FirstBucket(t).tokens <= Rate!Full
                       /\ Rate!FirstBucket(t).lastRefill = t
                       /\ Rate!FirstBucket(t) # None
  BY <1>a DEF Rate!FirstBucket, Rate!Token, BucketRecords
<1>c. \A b \in BucketRecords : b # None
  BY DEF BucketRecords
<1>d. \A u \in Clock : Rate!Grant(u) => granted' \in [Clock -> Nat]
  BY DEF Rate!Grant, RateTypes
<1>e. time \in Nat /\ time \in Clock
  BY DEF RateTypes
<1>1. CASE Rate!IsAllowedInMemory
  <2>1. CASE bucket = None
    BY <1>1, <2>1, <1>b, <1>c, <1>d, <1>e DEF Rate!IsAllowedInMemory, RateTypes
  <2>2. CASE bucket # None
    <3>1. PICK b : b = Rate!Refilled
      OBVIOUS
    <3>2. b \in BucketRecords /\ b.tokens <= Rate!Full /\ b.lastRefill <= time
      BY <2>2, <3>1, RefillPaid
    <3>3. CASE bucket' = b /\ UNCHANGED granted
      BY <1>1, <3>2, <3>3, <1>c DEF Rate!IsAllowedInMemory, RateTypes
    <3>4. CASE b.tokens >= RefillInterval /\ bucket' = [b EXCEPT !.tokens = @ - RefillInterval]
               /\ Rate!Grant(time)
      <4>1. bucket' \in BucketRecords /\ bucket'.tokens <= Rate!Full /\ bucket'.lastRefill <= time
        BY <3>2, <3>4, <1>a DEF BucketRecords
      <4> QED BY <1>1, <3>4, <4>1, <1>c, <1>d DEF Rate!IsAllowedInMemory, RateTypes
    <3> QED BY <1>1, <2>2, <3>1, <3>3, <3>4 DEF Rate!IsAllowedInMemory, Rate!Token
  <2> QED BY <2>1, <2>2
<1>2. CASE Rate!Cleanup
  BY <1>2 DEF Rate!Cleanup, RateTypes
<1>3. CASE Rate!Tick
  BY <1>3, <1>e DEF Rate!Tick, RateTypes, BucketRecords
<1>4. ASSUME NEW i \in Instances, Rate!IsAllowed(i) PROVE RateTypes'
  BY <1>4 DEF Rate!IsAllowed, RateTypes
<1>f. \A i \in Instances :
        /\ Rate!Answered(i) =>
             /\ asking' \in [Instances -> [now : Clock, next : {"none", "insert", "consume"}]]
             /\ \A j \in Instances : asking'[j] = IF j = i THEN Rate!Nothing ELSE asking[j]
        /\ asking[i].now \in Clock /\ asking[i].now <= time
  <2>1. PICK q \in [now : Clock, next : {"none", "insert", "consume"}] : q = Rate!Nothing
    <3>1. 0 \in Clock
      OBVIOUS
    <3> QED BY <3>1 DEF Rate!Nothing
  <2>2. TAKE i \in Instances
  <2>3. asking[i].now \in Clock /\ asking[i].now <= time
    BY DEF RateTypes
  <2>4. ASSUME Rate!Answered(i)
        PROVE  /\ asking' \in [Instances -> [now : Clock, next : {"none", "insert", "consume"}]]
               /\ \A j \in Instances : asking'[j] = IF j = i THEN q ELSE asking[j]
    <3>1. asking' = [asking EXCEPT ![i] = q]
      BY <2>1, <2>4 DEF Rate!Answered
    <3> QED BY <3>1 DEF RateTypes
  <2> QED BY <2>1, <2>3, <2>4
<1>g. /\ Rate!Nothing.next = "none" /\ Rate!Nothing.now = 0 /\ 0 <= time
      /\ \A u \in Clock : 0 <= u
  BY <1>e DEF Rate!Nothing
<1>5. ASSUME NEW i \in Instances, Rate!InsertNew(i) PROVE RateTypes'
  <2>1. PICK u \in Clock : u = asking[i].now
    BY <1>f
  <2>2. CASE bucket = None
    <3>1. bucket' = Rate!FirstBucket(u) /\ Rate!Grant(u) /\ Rate!Answered(i)
          /\ UNCHANGED <<backend, time>> /\ backend # "memory"
      BY <1>5, <2>1, <2>2 DEF Rate!InsertNew, RateTypes
    <3>2. u <= time
      BY <2>1, <1>f
    <3>3. /\ bucket' \in BucketRecords \cup {None}
          /\ bucket' # None /\ bucket'.tokens <= Rate!Full /\ bucket'.lastRefill <= time
      BY <3>1, <3>2, <1>b
    <3>4. granted' \in [Clock -> Nat]
      BY <3>1, <1>d
    <3>5. \A j \in Instances : asking'[j].now <= time
      BY <3>1, <1>f, <1>g DEF RateTypes
    <3> QED BY <3>1, <3>3, <3>4, <3>5, <1>f DEF RateTypes
  <2>3. CASE bucket # None
    BY <1>5, <2>3 DEF Rate!InsertNew, RateTypes
  <2> QED BY <2>2, <2>3
<1>6. ASSUME NEW i \in Instances, Rate!Consume(i) PROVE RateTypes'
  <2>1. PICK u \in Clock : u = asking[i].now /\ u <= time
    BY <1>f
  <2>2. backend = backend' /\ time = time' /\ Rate!Answered(i) /\ bucket # None
        /\ backend # "memory"
    BY <1>6 DEF Rate!Consume, RateTypes
  <2>3. /\ asking' \in [Instances -> [now : Clock, next : {"none", "insert", "consume"}]]
        /\ \A j \in Instances : asking'[j].now <= time
    BY <2>2, <1>f, <1>g DEF RateTypes
  <2>4. CASE UNCHANGED <<bucket, granted>>
    BY <2>2, <2>3, <2>4 DEF RateTypes
  <2>5. CASE /\ Rate!RefillExpr(u) >= RefillInterval
             /\ bucket' = [tokens |-> Rate!RefillExpr(u) - RefillInterval, lastRefill |-> u]
             /\ Rate!Grant(u)
    <3>1. PICK x \in Int : x = Rate!RefillExpr(u)
          /\ x <= Rate!Full
      <4>1. bucket.tokens \in Nat /\ bucket.lastRefill \in Nat
        BY <2>2 DEF RateTypes, BucketRecords
      <4>2. bucket.tokens + (u - bucket.lastRefill) * RefillAmount \in Int
        BY <4>1
      <4> QED BY <4>2, <1>a DEF Rate!RefillExpr, Rate!AtMostFull
    <3>2. /\ bucket' \in BucketRecords /\ bucket'.tokens <= Rate!Full
          /\ bucket'.lastRefill <= time
      BY <2>1, <2>5, <3>1, <1>a DEF BucketRecords
    <3>3. granted' \in [Clock -> Nat]
      BY <2>5, <1>d
    <3>4. bucket' # None
      BY <3>2, <1>c
    <3> QED BY <2>2, <2>3, <3>2, <3>3, <3>4 DEF RateTypes
  <2> QED BY <1>6, <2>1, <2>4, <2>5 DEF Rate!Consume, Rate!Token
<1>7. ASSUME NEW i \in Instances, Rate!StoreFails(i) PROVE RateTypes'
  <2>1. Rate!Answered(i) /\ UNCHANGED <<backend, time, bucket, granted>>
    BY <1>7 DEF Rate!StoreFails
  <2>2. /\ asking' \in [Instances -> [now : Clock, next : {"none", "insert", "consume"}]]
        /\ \A j \in Instances : asking'[j].now <= time
        /\ \A j \in Instances : backend = "memory" => asking'[j].next = "none"
        /\ \A j \in Instances : asking'[j].next = "consume" => bucket # None
    BY <2>1, <1>f, <1>g DEF RateTypes
  <2> QED BY <2>1, <2>2 DEF RateTypes
<1>8. CASE UNCHANGED rateVars
  BY <1>8 DEF rateVars, RateTypes
<1> QED BY <1>1, <1>2, <1>3, <1>4, <1>5, <1>6, <1>7, <1>8 DEF Rate!Next

-----------------------------------------------------------------------------
(* Every step keeps what pays for the grants, in memory and in SQLite.     *)

\* A call in memory: the first bucket, a refilled one that gives a token, or
\* a refilled one that has none.
LEMMA MemoryAllows ==
  ASSUME RateTypes, MemoryInv, Rate!IsAllowedInMemory
  PROVE  MemoryInv'
<1> USE RateConstants
<1>1. time \in Clock /\ time \in Nat /\ RateTime \in Clock /\ time <= RateTime
      /\ granted \in [0 .. RateTime -> Nat] /\ Clock = 0 .. RateTime /\ time' = time
      /\ \A s \in Clock : s \in Nat /\ s <= RateTime
  BY DEF RateTypes, Clock, Rate!IsAllowedInMemory
<1>2. PICK G \in [Clock -> Nat] : \A s \in Clock : G[s] = Grants(s, RateTime)
  <2>1. [s \in Clock |-> Grants(s, RateTime)] \in [Clock -> Nat]
    BY <1>1, GrantsCount
  <2> QED BY <2>1
<1>3. \A s, t \in Clock : Grants(s, t) \in Nat
  BY <1>1, GrantsCount
<1>4. ASSUME Rate!Grant(time)
      PROVE  /\ \A s \in Clock : Grants(s, RateTime)' = G[s] + IF s <= time THEN 1 ELSE 0
             /\ \A s, t \in Clock : t < time => Grants(s, t)' = Grants(s, t)
  <2>1. \A s, t \in Clock :
          Grants(s, t)' = Grants(s, t) + IF s <= time /\ time <= t THEN 1 ELSE 0
    BY <1>1, <1>4, GrantCounts
  <2>2. \A s, t \in Clock : t < time => ~ (time <= t)
    BY <1>1
  <2>3. ASSUME NEW s \in Clock
        PROVE  Grants(s, RateTime)' = G[s] + IF s <= time THEN 1 ELSE 0
    <3>1. Grants(s, RateTime) = G[s] /\ time <= RateTime /\ RateTime \in Clock
      BY <1>1, <1>2
    <3> QED BY <2>1, <3>1
  <2>4. ASSUME NEW s \in Clock, NEW t \in Clock, t < time
        PROVE  Grants(s, t)' = Grants(s, t)
    <3>1. ~ (s <= time /\ time <= t) /\ Grants(s, t) \in Nat
      BY <1>3, <2>2, <2>4
    <3> QED BY <2>1, <3>1
  <2> QED BY <2>3, <2>4
<1>5. ASSUME \A s, t \in Clock : t < time => Grants(s, t)' = Grants(s, t)
      PROVE  \A s, t \in Clock : s <= t /\ t < time' =>
               Grants(s, t)' <= Capacity + RefillAmount * Intervals(t - s)
  BY <1>1, <1>5 DEF MemoryInv
<1>6. \A s \in Clock : G[s] > 0 => s <= time
  BY <1>1, <1>2 DEF MemoryInv
<1>7. CASE Rate!Grant(time) /\ bucket = None /\ bucket' = Rate!FirstBucket(time)
  <2>1. /\ Rate!Full \in Nat /\ RefillInterval <= Rate!Full
    <3>1. 1 * RefillInterval <= Capacity * RefillInterval
      <4>1. 1 <= Capacity
        OBVIOUS
      <4> QED BY <4>1, Scaled
    <3>2. Capacity * RefillInterval \in Nat /\ 1 * RefillInterval = RefillInterval
      OBVIOUS
    <3> QED BY <3>1, <3>2 DEF Rate!Full
  <2>2. bucket' # None /\ bucket'.tokens = Rate!Full - RefillInterval /\ bucket'.lastRefill = time
    <3>1. bucket' \in [tokens : Nat, lastRefill : Nat]
      BY <1>1, <1>7, <2>1 DEF Rate!FirstBucket, Rate!Token
    <3> QED BY <1>7, <3>1 DEF Rate!FirstBucket, Rate!Token
  <2>3. ASSUME NEW s \in Clock, s <= time
        PROVE  PaidBy(s, G[s] + 1, Rate!Full - RefillInterval, time)
    <3>1. time - s \in Nat /\ time - s + RefillInterval - 1 >= 0 /\ time - s \in Int
      BY <1>1, <2>3
    <3>2. CASE G[s] = 0
      <4>1. PaidBy(s, 0, Rate!Full, time)
        BY <1>1, <2>1, <3>1, PaidFirst
      <4> QED BY <1>1, <2>1, <3>2, <4>1, PaidMore
    <3>3. CASE G[s] > 0
      <4>1. PICK c \in Nat : c = Intervals(time - s)
        <5>1. 0 \in Nat
          OBVIOUS
        <5> QED BY <3>1, <5>1, IntervalsGrow
      <4>2. PICK r \in Nat, g \in Nat : r = RefillAmount * c /\ g = G[s] /\ g <= r
        BY <1>1, <1>2, <1>7, <3>3, <4>1 DEF MemoryInv
      <4>3. g * RefillInterval <= r * RefillInterval
        BY <4>2, Scaled
      <4>4. (Capacity + r) * RefillInterval = Capacity * RefillInterval + r * RefillInterval
            /\ Capacity * RefillInterval \in Nat /\ r * RefillInterval \in Nat
            /\ g * RefillInterval \in Nat
        OBVIOUS
      <4>5. g * RefillInterval + Rate!Full <= (Capacity + r) * RefillInterval
        BY <4>3, <4>4 DEF Rate!Full
      <4>6. PaidBy(s, g, Rate!Full, time)
        BY <3>1, <4>1, <4>2, <4>5 DEF PaidBy
      <4> QED BY <1>1, <2>1, <4>2, <4>6, PaidMore
    <3>4. G[s] \in Nat
      BY <1>2
    <3> QED BY <3>2, <3>3, <3>4
  <2>4. \A s \in Clock : Grants(s, RateTime)' > 0 =>
          s <= time /\ PaidBy(s, Grants(s, RateTime)', bucket'.tokens, bucket'.lastRefill)
    <3>1. TAKE s \in Clock
    <3>2. CASE s <= time
      BY <1>4, <1>7, <2>2, <2>3, <3>2
    <3>3. CASE ~ (s <= time)
      BY <1>2, <1>4, <1>6, <1>7, <3>3
    <3> QED BY <3>2, <3>3
  <2> QED BY <1>1, <1>4, <1>5, <1>7, <2>2, <2>4 DEF MemoryInv
<1>8. CASE bucket # None
  <2>1. PICK b : b = Rate!Refilled
    OBVIOUS
  <2>2. /\ b \in BucketRecords /\ b.tokens <= Rate!Full /\ b.lastRefill <= time
        /\ time - b.lastRefill < RefillInterval
        /\ \A s, n \in Nat : PaidBy(s, n, bucket.tokens, bucket.lastRefill) =>
             PaidBy(s, n, b.tokens, b.lastRefill)
    BY <1>8, <2>1, RefillPaid
  <2>3. PICK tokens \in Nat, last \in Nat : tokens = b.tokens /\ last = b.lastRefill
          /\ time - last < RefillInterval
    BY <2>2 DEF BucketRecords
  <2>4. \A s \in Clock : G[s] > 0 => PaidBy(s, G[s], tokens, last)
    BY <1>1, <1>2, <1>8, <2>2, <2>3 DEF MemoryInv
  <2>5. b # None
    BY <2>2 DEF BucketRecords
  <2>6. CASE bucket' = b /\ UNCHANGED granted
    <3>1. \A s, t : Grants(s, t)' = Grants(s, t)
      BY <2>6, GrantsStay
    <3>2. \A s \in Clock : Grants(s, RateTime)' > 0 =>
            s <= time /\ PaidBy(s, Grants(s, RateTime)', bucket'.tokens, bucket'.lastRefill)
      BY <1>2, <1>6, <2>3, <2>4, <2>6, <3>1
    <3> QED BY <1>1, <1>5, <2>5, <2>6, <3>1, <3>2 DEF MemoryInv
  <2>7. CASE b.tokens >= RefillInterval /\ bucket' = [b EXCEPT !.tokens = @ - RefillInterval]
             /\ Rate!Grant(time)
    <3>1. bucket' \in [tokens : Nat, lastRefill : Nat] /\ bucket' # None
          /\ bucket'.tokens = tokens - RefillInterval /\ bucket'.lastRefill = last
      BY <2>2, <2>3, <2>7 DEF BucketRecords
    <3>2. ASSUME NEW s \in Clock, s <= time
          PROVE  PaidBy(s, G[s] + 1, tokens - RefillInterval, last)
      <4>1. PaidBy(s, G[s], tokens, last)
        <5>1. CASE G[s] > 0
          BY <2>4, <5>1
        <5>2. CASE G[s] = 0
          <6>1. last - s + RefillInterval - 1 >= 0
            <7>1. s \in Nat /\ time \in Nat
              BY <1>1
            <7> QED BY <2>3, <3>2, <7>1
          <6>2. PaidBy(s, 0, tokens, last)
            BY <1>1, <2>2, <2>3, <6>1, PaidFirst
          <6> QED BY <5>2, <6>2
        <5> QED BY <1>2, <5>1, <5>2
      <4> QED BY <1>1, <1>2, <2>3, <2>7, <4>1, PaidMore
    <3>3. \A s \in Clock : Grants(s, RateTime)' > 0 =>
            s <= time /\ PaidBy(s, Grants(s, RateTime)', bucket'.tokens, bucket'.lastRefill)
      <4>1. TAKE s \in Clock
      <4>2. CASE s <= time
        BY <1>4, <2>7, <3>1, <3>2, <4>2
      <4>3. CASE ~ (s <= time)
        BY <1>2, <1>4, <1>6, <2>7, <4>3
      <4> QED BY <4>2, <4>3
    <3> QED BY <1>1, <1>4, <1>5, <2>7, <3>1, <3>3 DEF MemoryInv
  <2> QED BY <1>8, <2>1, <2>6, <2>7 DEF Rate!IsAllowedInMemory, Rate!Token
<1> QED BY <1>7, <1>8 DEF Rate!IsAllowedInMemory

\* A bucket that goes stale would be full by then.
LEMMA MemoryCleans ==
  ASSUME RateTypes, MemoryInv, Rate!Cleanup
  PROVE  MemoryInv'
<1> USE RateConstants
<1>1. time \in Nat /\ Clock = 0 .. RateTime /\ time' = time /\ bucket' = None /\ bucket # None
      /\ granted \in [0 .. RateTime -> Nat] /\ RateTime \in Clock
      /\ \A s \in Clock : s \in Nat
  BY DEF RateTypes, Clock, Rate!Cleanup
<1>2. \A s, t : Grants(s, t)' = Grants(s, t)
  BY GrantsStay DEF Rate!Cleanup
<1>3. PICK tokens \in Nat, last \in Nat :
        tokens = bucket.tokens /\ last = bucket.lastRefill /\ time - last > StaleThreshold
  BY DEF Rate!Cleanup, RateTypes, BucketRecords
<1>4. ASSUME NEW s \in Clock, Grants(s, RateTime) > 0
      PROVE  s <= time /\ Grants(s, RateTime) <= RefillAmount * Intervals(time - s)
  <2>1. PICK n \in Nat : n = Grants(s, RateTime)
    BY <1>1, GrantsCount
  <2>2. s <= time /\ PaidBy(s, n, tokens, last)
    BY <1>1, <1>3, <1>4, <2>1 DEF MemoryInv
  <2>3. n <= Capacity + RefillAmount * Intervals(last - s)
    BY <1>1, <2>2, PaidEnough
  <2>4. PICK wait \in Nat : wait = StaleThreshold \div RefillInterval
    BY DivideDown
  <2>5. /\ last - s \in Int /\ last - s + RefillInterval - 1 >= 0
        /\ (last - s) + StaleThreshold \in Int
        /\ (last - s) + StaleThreshold + RefillInterval - 1 >= 0
        /\ time - last - StaleThreshold \in Nat
        /\ ((last - s) + StaleThreshold) + (time - last - StaleThreshold) = time - s
    <3>1. s \in Nat /\ time \in Nat /\ last - s + RefillInterval - 1 >= 0
      BY <1>1, <2>2 DEF PaidBy
    <3> QED BY <1>3, <3>1
  <2>6. PICK c \in Nat, d \in Nat : c = Intervals(last - s)
          /\ d = Intervals((last - s) + StaleThreshold) /\ wait + c <= d
    BY <2>4, <2>5, IntervalsGrow
  <2>7. PICK e \in Nat : e = Intervals(time - s) /\ d <= e
    <3>1. Intervals((last - s) + StaleThreshold) <= Intervals(time - s)
          /\ Intervals(time - s) \in Nat
      <4>1. PICK a \in Int, more \in Nat : a = (last - s) + StaleThreshold
              /\ more = time - last - StaleThreshold
        BY <2>5
      <4>2. a + RefillInterval - 1 >= 0 /\ a + more = time - s
        BY <2>5, <4>1
      <4>3. Intervals(a) <= Intervals(a + more) /\ Intervals(a + more) \in Nat
        BY <4>2, IntervalsGrow
      <4> QED BY <4>1, <4>2, <4>3
    <3> QED BY <2>6, <3>1
  <2>8. (wait + c) * RefillAmount <= e * RefillAmount
    <3>1. wait + c <= e /\ wait + c \in Int
      BY <2>6, <2>7
    <3> QED BY <3>1, Scaled
  <2>9. PICK p \in Nat, q \in Nat, r \in Nat :
          p = RefillAmount * wait /\ q = RefillAmount * c /\ r = RefillAmount * e
    OBVIOUS
  <2>10. (wait + c) * RefillAmount = p + q /\ e * RefillAmount = r
    BY <2>9
  <2>11. Capacity <= p /\ n <= Capacity + q
    BY <2>3, <2>4, <2>6, <2>9
  <2> QED BY <2>1, <2>2, <2>7, <2>8, <2>9, <2>10, <2>11
<1> QED BY <1>1, <1>2, <1>4 DEF MemoryInv

\* When time passes, what was granted until now becomes history.
LEMMA MemoryTicks ==
  ASSUME RateTypes, MemoryInv, Rate!Tick
  PROVE  MemoryInv'
<1> USE RateConstants
<1>1. time \in Nat /\ Clock = 0 .. RateTime /\ time' = time + 1 /\ bucket' = bucket
      /\ time \in Clock /\ granted \in [0 .. RateTime -> Nat] /\ RateTime \in Clock
      /\ \A s \in Clock : s \in Nat /\ s <= RateTime
  BY DEF RateTypes, Clock, Rate!Tick
<1>2. \A s, t : Grants(s, t)' = Grants(s, t)
  BY GrantsStay DEF Rate!Tick
<1>3. \A s, t \in Clock : Grants(s, t) \in Nat
  BY <1>1, GrantsCount
<1>4. ASSUME NEW s \in Clock, Grants(s, RateTime) > 0
      PROVE  /\ s <= time + 1
             /\ IF bucket = None THEN Grants(s, RateTime) <= RefillAmount * Intervals((time + 1) - s)
                ELSE PaidBy(s, Grants(s, RateTime), bucket.tokens, bucket.lastRefill)
  <2>1. s <= time
    BY <1>1, <1>4 DEF MemoryInv
  <2>2. CASE bucket # None
    BY <1>1, <1>4, <2>1, <2>2 DEF MemoryInv
  <2>3. CASE bucket = None
    <3>1. PICK span \in Nat : span = time - s /\ span + 1 = (time + 1) - s
      BY <1>1, <2>1
    <3>2. PICK c \in Nat, d \in Nat : c = Intervals(span) /\ d = Intervals(span + 1) /\ c <= d
      <4>1. span \in Int /\ span + RefillInterval - 1 >= 0 /\ 1 \in Nat
        OBVIOUS
      <4> QED BY <4>1, IntervalsGrow
    <3>3. c * RefillAmount <= d * RefillAmount
      BY <3>2, Scaled
    <3>4. Grants(s, RateTime) <= RefillAmount * c
      BY <1>1, <1>4, <2>3, <3>1, <3>2 DEF MemoryInv
    <3>5. PICK q \in Nat, r \in Nat : q = RefillAmount * c /\ r = RefillAmount * d /\ q <= r
      BY <3>3
    <3>6. Grants(s, RateTime) <= r
      <4>1. PICK n \in Nat : n = Grants(s, RateTime)
        BY <1>1, <1>3
      <4>2. n <= q
        BY <3>4, <3>5, <4>1
      <4> QED BY <3>5, <4>1, <4>2
    <3> QED BY <1>1, <2>1, <2>3, <3>1, <3>2, <3>5, <3>6
  <2> QED BY <2>2, <2>3
<1>5. ASSUME NEW s \in Clock, s <= time
      PROVE  Grants(s, time) <= Capacity + RefillAmount * Intervals(time - s)
  <2>1. PICK m \in Nat, n \in Nat : m = Grants(s, time) /\ n = Grants(s, RateTime)
    BY <1>1, <1>3
  <2>2. m <= n
    BY <1>1, <2>1, GrantsGrow
  <2>3. PICK c \in Nat : c = Intervals(time - s)
    <3>1. time - s \in Int /\ time - s + RefillInterval - 1 >= 0 /\ 0 \in Nat
      BY <1>1, <1>5
    <3> QED BY <3>1, IntervalsGrow
  <2>4. PICK r \in Nat : r = RefillAmount * c
    OBVIOUS
  <2>5. n = 0 \/ n <= Capacity + r
    <3>1. CASE n > 0 /\ bucket = None
      BY <1>1, <2>1, <2>3, <2>4, <3>1 DEF MemoryInv
    <3>2. CASE n > 0 /\ bucket # None
      <4>1. PICK tokens \in Nat, last \in Nat :
              tokens = bucket.tokens /\ last = bucket.lastRefill /\ last <= time
        BY <3>2 DEF RateTypes, BucketRecords
      <4>2. PaidBy(s, n, tokens, last)
        BY <1>1, <2>1, <3>2, <4>1 DEF MemoryInv
      <4> QED BY <1>1, <2>3, <2>4, <4>1, <4>2, PaidEnough
    <3> QED BY <3>1, <3>2
  <2> QED BY <2>1, <2>2, <2>3, <2>4, <2>5
<1>6. \A s, t \in Clock : s <= t /\ t < time + 1 =>
        Grants(s, t) <= Capacity + RefillAmount * Intervals(t - s)
  <2>1. TAKE s, t \in Clock
  <2>2. CASE t = time
    BY <1>5, <2>2
  <2>3. CASE t # time
    BY <1>1, <2>3 DEF MemoryInv
  <2> QED BY <2>2, <2>3
<1> QED BY <1>1, <1>2, <1>4, <1>6 DEF MemoryInv

\* A grant in SQLite takes its token from what the bucket held: at most a full
\* one's, and no more than the refill since the last made of it.
LEMMA SqliteGrants ==
  ASSUME RateTypes, SqliteInv, NEW u \in Clock, Rate!Grant(u),
         NEW x \in Nat, RefillInterval <= x, x <= Rate!Full,
         bucket # None => x <= bucket.tokens + (u - bucket.lastRefill) * RefillAmount,
         bucket' # None, bucket'.tokens = x - RefillInterval, bucket'.lastRefill = u
  PROVE  SqliteInv'
<1> USE RateConstants
<1>1. granted \in [0 .. RateTime -> Nat] /\ Clock = 0 .. RateTime /\ RateTime \in Clock
      /\ \A s \in Clock : s \in Nat
  BY DEF RateTypes, Clock
<1>2. \A s, t \in Clock : Grants(s, t) \in Nat
  BY <1>1, GrantsCount
<1>3. \A s, t \in Clock :
        Grants(s, t)' = Grants(s, t) + IF s <= u /\ u <= t THEN 1 ELSE 0
  BY <1>1, GrantCounts
<1>4. PICK full \in Nat, UA \in Nat : full = Rate!Full /\ UA = u * RefillAmount
  <2>1. Capacity * RefillInterval \in Nat /\ u * RefillAmount \in Nat
    BY <1>1
  <2> QED BY <2>1 DEF Rate!Full
<1>5. ASSUME NEW s \in Clock, NEW t \in Clock, s <= t
      PROVE  /\ Grants(s, t)' * RefillInterval <= Rate!Full + (t - s) * RefillAmount
             /\ Grants(s, t)' > 0 =>
                  Grants(s, t)' * RefillInterval + bucket'.tokens + s * RefillAmount
                    <= Rate!Full + bucket'.lastRefill * RefillAmount
  <2>1. PICK n \in Nat : n = Grants(s, t)
    BY <1>2
  <2>2. PICK SA \in Nat, TA \in Nat, N \in Nat :
          SA = s * RefillAmount /\ TA = t * RefillAmount /\ N = n * RefillInterval
    BY <1>1
  <2>3. (t - s) * RefillAmount = TA - SA
    BY <1>1, <2>2
  <2>4. (n + 1) * RefillInterval = N + RefillInterval
    BY <2>2
  <2>5. N <= full + TA - SA
    BY <1>4, <1>5, <2>1, <2>2, <2>3 DEF SqliteInv
  <2>6. ASSUME n > 0 PROVE N + x + SA <= full + UA
    <3>1. PICK tokens \in Nat, last \in Nat :
            tokens = bucket.tokens /\ last = bucket.lastRefill /\ bucket # None
      BY <1>5, <2>1, <2>6 DEF SqliteInv, RateTypes, BucketRecords
    <3>2. PICK LA \in Nat : LA = last * RefillAmount
      OBVIOUS
    <3>3. (u - last) * RefillAmount = UA - LA
      BY <1>1, <1>4, <3>2
    <3>4. x <= tokens + (UA - LA)
      BY <3>1, <3>3
    <3>5. N + tokens + SA <= full + LA
      BY <1>4, <1>5, <2>1, <2>2, <2>6, <3>1, <3>2 DEF SqliteInv
    <3> QED BY <3>4, <3>5
  <2>7. CASE s <= u /\ u <= t
    <3>1. Grants(s, t)' = n + 1
      BY <1>3, <2>1, <2>7
    <3>2. SA <= UA /\ UA <= TA
      <4>1. s \in Int /\ t \in Int /\ u \in Int /\ RefillAmount \in Nat
        BY <1>1
      <4> QED BY <1>4, <2>2, <2>7, <4>1, Scaled
    <3>3. N + x + SA <= full + UA
      <4>1. CASE n = 0
        <5>1. N = 0
          BY <2>2, <4>1
        <5> QED BY <1>4, <3>2, <5>1
      <4>2. CASE n > 0
        BY <2>6, <4>2
      <4> QED BY <4>1, <4>2
    <3>4. N + RefillInterval + (x - RefillInterval) + SA <= full + UA
      BY <3>3
    <3>5. N + RefillInterval <= full + (TA - SA)
      BY <3>2, <3>3
    <3> QED BY <1>4, <2>2, <2>3, <2>4, <3>1, <3>4, <3>5
  <2>8. CASE ~ (s <= u /\ u <= t)
    <3>1. Grants(s, t)' = n
      BY <1>3, <2>1, <2>8
    <3>2. n > 0 => N + (x - RefillInterval) + SA <= full + UA
      BY <2>6
    <3> QED BY <1>4, <2>2, <2>3, <2>5, <3>1, <3>2
  <2> QED BY <2>7, <2>8
<1>6. RateTime' = RateTime
  OBVIOUS
<1> QED BY <1>5 DEF SqliteInv

\* Every step of the database's limiter keeps its invariant.
LEMMA SqliteNext ==
  ASSUME RateTypes, backend = "sqlite", SqliteInv, [Rate!Next]_rateVars
  PROVE  SqliteInv'
<1> USE RateConstants
<1>1. CASE UNCHANGED <<bucket, granted>>
  <2>1. \A s, t : Grants(s, t)' = Grants(s, t)
    BY <1>1, GrantsStay
  <2> QED BY <1>1, <2>1 DEF SqliteInv
<1>a. \A i \in Instances : asking[i].now \in Clock
  BY DEF RateTypes
<1>b. /\ Rate!Full \in Nat /\ RefillInterval <= Rate!Full
  <2>1. 1 * RefillInterval <= Capacity * RefillInterval
    <3>1. 1 <= Capacity
      OBVIOUS
    <3> QED BY <3>1, Scaled
  <2>2. Capacity * RefillInterval \in Nat /\ 1 * RefillInterval = RefillInterval
    OBVIOUS
  <2> QED BY <2>1, <2>2 DEF Rate!Full
<1>2. ASSUME NEW i \in Instances, Rate!InsertNew(i), bucket = None PROVE SqliteInv'
  <2>1. PICK u \in Clock : u = asking[i].now
    BY <1>a
  <2>2. Rate!Grant(u) /\ bucket' = [tokens |-> Rate!Full - RefillInterval, lastRefill |-> u]
    BY <1>2, <2>1 DEF Rate!InsertNew, Rate!FirstBucket, Rate!Token
  <2>3. bucket' \in [tokens : Nat, lastRefill : Nat]
    BY <1>b, <2>2 DEF Clock
  <2>4. bucket' # None /\ bucket'.tokens = Rate!Full - RefillInterval /\ bucket'.lastRefill = u
    BY <2>2, <2>3
  <2>5. Rate!Full <= Rate!Full
    BY <1>b
  <2> QED BY <1>2, <1>b, <2>2, <2>4, <2>5, SqliteGrants
<1>3. ASSUME NEW i \in Instances, Rate!Consume(i), ~ UNCHANGED <<bucket, granted>>
      PROVE  SqliteInv'
  <2>1. PICK u \in Clock : u = asking[i].now
    BY <1>a
  <2>2. bucket # None /\ bucket.tokens \in Nat /\ bucket.lastRefill \in Nat /\ u \in Nat
    BY <1>3, <2>1 DEF Rate!Consume, RateTypes, BucketRecords, Clock
  <2>3. PICK y \in Int : y = bucket.tokens + (u - bucket.lastRefill) * RefillAmount
    BY <2>2
  <2>4. PICK x \in Int : x = Rate!RefillExpr(u) /\ x <= Rate!Full /\ x <= y
    BY <2>3, <1>b DEF Rate!RefillExpr, Rate!AtMostFull
  <2>5. /\ RefillInterval <= x /\ Rate!Grant(u)
        /\ bucket' = [tokens |-> x - RefillInterval, lastRefill |-> u]
    BY <1>3, <2>1, <2>4 DEF Rate!Consume, Rate!Token
  <2>6. x \in Nat /\ x - RefillInterval \in Nat
    BY <2>5
  <2>7. bucket' \in [tokens : Nat, lastRefill : Nat]
    BY <2>2, <2>5, <2>6
  <2>8. bucket' # None /\ bucket'.tokens = x - RefillInterval /\ bucket'.lastRefill = u
    BY <2>5, <2>7
  <2> QED BY <2>3, <2>4, <2>5, <2>6, <2>8, SqliteGrants
<1>4. \/ UNCHANGED <<bucket, granted>>
      \/ \E i \in Instances : Rate!InsertNew(i) /\ bucket = None
      \/ \E i \in Instances : Rate!Consume(i) /\ ~ UNCHANGED <<bucket, granted>>
  BY DEF Rate!Next, rateVars, Rate!IsAllowedInMemory, Rate!Cleanup, Rate!Tick, Rate!IsAllowed,
         Rate!InsertNew, Rate!StoreFails
<1> QED BY <1>1, <1>2, <1>3, <1>4

\* Every step of the limiter in memory keeps its invariant.
LEMMA MemoryNext ==
  ASSUME RateTypes, backend = "memory", MemoryInv, [Rate!Next]_rateVars
  PROVE  MemoryInv'
<1>1. CASE UNCHANGED <<time, bucket, granted>>
  <2>1. \A s, t : Grants(s, t)' = Grants(s, t)
    BY <1>1, GrantsStay
  <2> QED BY <1>1, <2>1 DEF MemoryInv
<1>2. \/ UNCHANGED <<time, bucket, granted>>
      \/ Rate!IsAllowedInMemory \/ Rate!Cleanup \/ Rate!Tick
  <2>1. \A i \in Instances : asking[i].next = "none"
    BY DEF RateTypes
  <2> QED BY <2>1 DEF Rate!Next, rateVars, Rate!IsAllowed, Rate!InsertNew, Rate!Consume,
             Rate!StoreFails
<1> QED BY <1>1, <1>2, MemoryAllows, MemoryCleans, MemoryTicks

\* The invariant of the limiter is inductive.
LEMMA RateStarts == Rate!Init => RateInv
<1> SUFFICES ASSUME Rate!Init PROVE RateInv
  OBVIOUS
<1> USE RateConstants
<1>1. granted = [t \in Clock |-> 0] /\ time = 0 /\ bucket = None /\ RateTime \in Clock
  BY DEF Rate!Init, Clock
<1>2. \A s, t \in Clock : Grants(s, t) = 0
  BY <1>1, NoGrants
<1>3. MemoryInv
  <2>1. \A t \in Clock : ~ (t < 0)
    BY DEF Clock
  <2>2. ~ (0 > 0)
    OBVIOUS
  <2> QED BY <1>1, <1>2, <2>1, <2>2 DEF MemoryInv
<1>4. SqliteInv
  <2>1. ASSUME NEW s \in Clock, NEW t \in Clock, s <= t
        PROVE  0 * RefillInterval <= Rate!Full + (t - s) * RefillAmount
    <3>1. t - s \in Nat
      BY <2>1 DEF Clock
    <3>2. (t - s) * RefillAmount \in Nat /\ Capacity * RefillInterval \in Nat
      BY <3>1
    <3> QED BY <3>2 DEF Rate!Full
  <2>2. ~ (0 > 0)
    OBVIOUS
  <2> QED BY <1>2, <2>1, <2>2 DEF SqliteInv
<1> QED BY <1>3, <1>4, RateTypesInit DEF RateInv

LEMMA RateGoesOn == RateInv /\ [Rate!Next]_rateVars => RateInv'
<1> SUFFICES ASSUME RateInv, [Rate!Next]_rateVars PROVE RateInv'
  OBVIOUS
<1>1. RateTypes'
  BY RateTypesNext DEF RateInv
<1>2. backend' = backend
  BY DEF Rate!Next, rateVars, Rate!IsAllowedInMemory, Rate!Cleanup, Rate!Tick, Rate!IsAllowed,
         Rate!InsertNew, Rate!Consume, Rate!StoreFails
<1> QED BY <1>1, <1>2, MemoryNext, SqliteNext DEF RateInv

\* What the invariant says of the grants is the limit.
LEMMA RateInvLimits == RateInv => LimitHolds
<1> SUFFICES ASSUME RateInv, NEW s \in 0 .. time, NEW t \in 0 .. time, s <= t
             PROVE  Rate!GrantedIn(s, t) <= Capacity + Rate!Earned(t - s)
  BY DEF LimitHolds, Rate!LimitHolds
<1> USE RateConstants
<1>1. /\ time \in Nat /\ s \in Clock /\ t \in Clock /\ s \in Nat /\ t \in Nat
      /\ granted \in [0 .. RateTime -> Nat] /\ Clock = 0 .. RateTime /\ RateTime \in Clock
      /\ t <= RateTime
  BY DEF RateInv, RateTypes, Clock
<1>2. PICK m \in Nat, n \in Nat : m = Grants(s, t) /\ n = Grants(s, RateTime) /\ m <= n
  BY <1>1, GrantsCount, GrantsGrow
<1>3. Rate!GrantedIn(s, t) = m
  BY <1>2, GrantedIsSum
<1>4. PICK span \in Nat : span = t - s
  BY <1>1
<1>5. CASE backend = "memory"
  <2>1. PICK c \in Nat : c = Intervals(span)
    <3>1. span \in Int /\ span + RefillInterval - 1 >= 0 /\ 0 \in Nat
      OBVIOUS
    <3> QED BY <3>1, IntervalsGrow
  <2>2. PICK r \in Nat : r = RefillAmount * c
    OBVIOUS
  <2>3. Rate!Earned(t - s) = r
    BY <1>4, <1>5, <2>1, <2>2 DEF Rate!Earned, Intervals
  <2>4. MemoryInv /\ RateTypes
    BY <1>5 DEF RateInv
  <2>5. CASE t < time
    BY <1>1, <1>2, <1>3, <1>4, <2>1, <2>2, <2>3, <2>4, <2>5 DEF MemoryInv
  <2>6. CASE t = time /\ n > 0
    <3>1. n <= Capacity + r
      <4>1. CASE bucket = None
        <5>1. n <= r
          BY <1>1, <1>2, <1>4, <2>1, <2>2, <2>4, <2>6, <4>1 DEF MemoryInv
        <5> QED BY <5>1
      <4>2. CASE bucket # None
        <5>1. PICK tokens \in Nat, last \in Nat :
                tokens = bucket.tokens /\ last = bucket.lastRefill /\ last <= time
          BY <2>4, <4>2 DEF RateTypes, BucketRecords
        <5>2. PaidBy(s, n, tokens, last)
          BY <1>1, <1>2, <2>4, <2>6, <4>2, <5>1 DEF MemoryInv
        <5>3. n <= Capacity + RefillAmount * Intervals(t - s)
          BY <1>1, <2>6, <5>1, <5>2, PaidEnough
        <5> QED BY <1>4, <2>1, <2>2, <5>3
      <4> QED BY <4>1, <4>2
    <3> QED BY <1>2, <1>3, <2>3, <3>1
  <2>7. CASE n = 0
    BY <1>2, <1>3, <2>3, <2>7
  <2> QED BY <1>1, <1>2, <2>5, <2>6, <2>7
<1>6. CASE backend = "sqlite"
  <2>1. PICK p \in Nat : p = span * RefillAmount
    OBVIOUS
  <2>2. PICK q \in Nat : q = p \div RefillInterval
    BY DivideDown
  <2>3. Rate!Earned(t - s) = q
    BY <1>4, <1>6, <2>1, <2>2 DEF Rate!Earned
  <2>4. m * RefillInterval <= Capacity * RefillInterval + p
    BY <1>1, <1>2, <1>4, <1>6, <2>1 DEF RateInv, SqliteInv, Rate!Full
  <2>5. (m - Capacity) * RefillInterval <= p
    <3>1. (m - Capacity) * RefillInterval = m * RefillInterval - Capacity * RefillInterval
          /\ m * RefillInterval \in Nat /\ Capacity * RefillInterval \in Nat
      OBVIOUS
    <3> QED BY <2>4, <3>1
  <2>6. m - Capacity <= q
    BY <2>2, <2>5, DivideLeast
  <2> QED BY <1>3, <2>3, <2>6
<1> QED BY <1>5, <1>6 DEF RateInv, RateTypes

\* Over any stretch of time the store of a client grants at most a full bucket
\* and what the stretch refills: in memory whole intervals rounded up, also when
\* cleanup forgot the bucket; in SQLite to the tick, also when instances race with
\* clock readings of different age.
THEOREM LimitIsKept == Spec => []LimitHolds
<1>1. Rate!Init => RateInv
  BY RateStarts
<1>2. RateInv /\ [Rate!Next]_rateVars => RateInv'
  BY RateGoesOn
<1>3. RateInv => LimitHolds
  BY RateInvLimits
<1> QED BY <1>1, <1>2, <1>3, RateSteps, PTL

-----------------------------------------------------------------------------
(* The price of a match: EloPricing.                                       *)

\* What truncating may leave is at most the exact value and less than it by at
\* most one.
LEMMA Truncated ==
  ASSUME NEW n \in Int, NEW d \in Nat \ {0}, NEW t \in Pricing!truncate(n, d)
  PROVE  t \in Int /\ t * d <= n /\ n <= (t + 1) * d
<1>1. n \div d \in Int /\ n = (n \div d) * d + (n % d) /\ n % d \in 0 .. d - 1
  OBVIOUS
<1> DEFINE q == n \div d
<1>2. CASE t = q
  BY <1>1, <1>2
<1>3. CASE t = q - 1 /\ n % d = 0
  BY <1>1, <1>3
<1> QED BY <1>2, <1>3 DEF Pricing!truncate

\* The multiplier never takes from a stake and never more than doubles it
\* ("keeps the multiplier from ever landing a hair above the configured
\* maximum").
THEOREM MultiplierInRange ==
  ASSUME NEW e1 \in Int, NEW e2 \in Int, NEW m \in Pricing!calculateEloMultiplier(e1, e2)
  PROVE  m \in Pricing!BASE_MULTIPLIER .. Pricing!MAX_MULTIPLIER
<1> DEFINE n == (e1 + e2 - 1600) * 100
<1>1. CASE e1 + e2 > 1600 /\ e1 + e2 < 5600
  <2>1. PICK t \in Pricing!truncate(n, 4000) : m = 100 + t
    BY <1>1
      DEF Pricing!calculateEloMultiplier, Pricing!Uplift, Pricing!MIN_ELO, Pricing!MAX_ELO,
          Pricing!BASE_MULTIPLIER, Pricing!MAX_MULTIPLIER
  <2>2. t \in Int /\ t * 4000 <= n /\ n <= (t + 1) * 4000
    BY <2>1, Truncated
  <2> QED BY <1>1, <2>1, <2>2 DEF Pricing!BASE_MULTIPLIER, Pricing!MAX_MULTIPLIER
<1>2. CASE ~ (e1 + e2 > 1600 /\ e1 + e2 < 5600)
  BY <1>2 DEF Pricing!calculateEloMultiplier, Pricing!MIN_ELO, Pricing!MAX_ELO,
              Pricing!BASE_MULTIPLIER, Pricing!MAX_MULTIPLIER
<1> QED BY <1>1, <1>2

\* A match between stronger players is never cheaper: of two matches the one
\* with the higher ratings in total has at least the other's multiplier, also
\* where floating point falls short.
THEOREM StrongerIsNotCheaper ==
  ASSUME NEW e1 \in Int, NEW e2 \in Int, NEW f1 \in Int, NEW f2 \in Int,
         e1 + e2 < f1 + f2,
         NEW m \in Pricing!calculateEloMultiplier(e1, e2), NEW k \in Pricing!calculateEloMultiplier(f1, f2)
  PROVE  m <= k
<1>1. m \in 100 .. 200 /\ k \in 100 .. 200
  BY MultiplierInRange DEF Pricing!BASE_MULTIPLIER, Pricing!MAX_MULTIPLIER
<1>2. CASE e1 + e2 <= 1600
  BY <1>1, <1>2 DEF Pricing!calculateEloMultiplier, Pricing!MIN_ELO, Pricing!BASE_MULTIPLIER
<1>3. CASE f1 + f2 >= 5600
  BY <1>1, <1>3 DEF Pricing!calculateEloMultiplier, Pricing!MIN_ELO, Pricing!MAX_ELO, Pricing!MAX_MULTIPLIER
<1>4. CASE e1 + e2 > 1600 /\ f1 + f2 < 5600
  <2> DEFINE n == (e1 + e2 - 1600) * 100
             p == (f1 + f2 - 1600) * 100
  <2>1. PICK t \in Pricing!truncate(n, 4000) : m = 100 + t
    BY <1>4
      DEF Pricing!calculateEloMultiplier, Pricing!Uplift, Pricing!MIN_ELO, Pricing!MAX_ELO,
          Pricing!BASE_MULTIPLIER, Pricing!MAX_MULTIPLIER
  <2>2. PICK u \in Pricing!truncate(p, 4000) : k = 100 + u
    BY <1>4
      DEF Pricing!calculateEloMultiplier, Pricing!Uplift, Pricing!MIN_ELO, Pricing!MAX_ELO,
          Pricing!BASE_MULTIPLIER, Pricing!MAX_MULTIPLIER
  <2>3. t \in Int /\ t * 4000 <= n
    BY <2>1, Truncated
  <2>4. u \in Int /\ p <= (u + 1) * 4000
    BY <2>2, Truncated
  <2>5. n < p
    OBVIOUS
  <2> QED BY <2>1, <2>2, <2>3, <2>4, <2>5
<1> QED BY <1>2, <1>3, <1>4

\* A rating that is missing never raises the price, whoever the opponent is
\* ("an unrated player should not inflate the pot").
THEOREM UnratedIsBasePrice ==
  ASSUME NEW e1 \in Int \cup {None}, NEW e2 \in Int \cup {None},
         NEW m \in Pricing!resolveMultiplier(e1, e2)
  PROVE  /\ m \in Pricing!BASE_MULTIPLIER .. Pricing!MAX_MULTIPLIER
         /\ None \in {e1, e2} => m = Pricing!BASE_MULTIPLIER
<1>1. CASE None \in {e1, e2}
  BY <1>1 DEF Pricing!resolveMultiplier, Pricing!BASE_MULTIPLIER, Pricing!MAX_MULTIPLIER
<1>2. CASE None \notin {e1, e2}
  <2>1. e1 \in Int /\ e2 \in Int
    BY <1>2
  <2>2. PICK k \in Pricing!calculateEloMultiplier(e1, e2) : m \in Pricing!TruncatedAgain(k)
    BY <1>2 DEF Pricing!resolveMultiplier
  <2>3. k \in 100 .. 200
    BY <2>1, MultiplierInRange DEF Pricing!BASE_MULTIPLIER, Pricing!MAX_MULTIPLIER
  <2>4. CASE k % 100 = 0
    BY <1>2, <2>2, <2>3, <2>4 DEF Pricing!TruncatedAgain, Pricing!BASE_MULTIPLIER, Pricing!MAX_MULTIPLIER
  <2>5. CASE k % 100 # 0
    <3>1. k # 100 /\ k \in Int
      BY <2>3, <2>5
    <3>2. m \in {k, k - 1}
      BY <2>2, <2>5, <3>1 DEF Pricing!TruncatedAgain, Pricing!truncate
    <3> QED BY <1>2, <2>3, <3>1, <3>2 DEF Pricing!BASE_MULTIPLIER, Pricing!MAX_MULTIPLIER
  <2> QED BY <2>4, <2>5
<1> QED BY <1>1, <1>2

\* The stake that is asked for is at least the base stake and at most twice it
\* ("the contract is never asked to move more than the multiplier authorises").
THEOREM StakeInRange ==
  ASSUME NEW base \in Nat \ {0}, NEW m \in Pricing!BASE_MULTIPLIER .. Pricing!MAX_MULTIPLIER,
         NEW stake \in Pricing!applyEloMultiplier(base, m)
  PROVE  base <= stake /\ stake <= 2 * base /\ stake * 100 <= base * m
<1>1. m \in 100 .. 200
  BY DEF Pricing!BASE_MULTIPLIER, Pricing!MAX_MULTIPLIER
<1>2. CASE m = 100
  BY <1>2 DEF Pricing!applyEloMultiplier
<1>3. CASE m = 200
  BY <1>3 DEF Pricing!applyEloMultiplier
<1>4. CASE m \in 101 .. 199
  <2>1. stake \in Pricing!truncate(base * m, 100) /\ base * m \in Int
    BY <1>4 DEF Pricing!applyEloMultiplier
  <2>2. stake \in Int /\ stake * 100 <= base * m /\ base * m <= (stake + 1) * 100
    BY <2>1, Truncated
  <2>3. base * m > base * 100 /\ base * m < base * 200
    BY <1>4
  <2> QED BY <2>2, <2>3
<1> QED BY <1>1, <1>2, <1>3, <1>4

-----------------------------------------------------------------------------
(* The circuit breaker: CircuitBreaker.                                    *)

\* Of each behaviour of the services, the breaker's part.
LEMMA BreakerSteps == Spec => Breaker!Init /\ [][Breaker!Next]_breakerVars
<1>1. Init => Breaker!Init
  BY DEF Init
<1>2. [Next]_vars => [Breaker!Next]_breakerVars
  BY DEF Next, vars, breakerVars
<1> QED BY <1>1, <1>2, PTL DEF Spec

\* What every snapshot of the breaker keeps to: its counts stay below the threshold that would
\* have moved it, and a breaker that is not closed knows when it opened.
Snapshot(b) ==
  /\ b \in Breaker!Breaker
  /\ b.state = "CLOSED" => b.attemptCount = 0 /\ b.failureCount < FailureThreshold
  /\ b.state # "CLOSED" => b.openedAt \in Nat
  /\ b.state = "HALF_OPEN" => b.successCount < SuccessThreshold

\* The breaker's counts are covered by what really happened since.
BreakerCounts ==
  /\ streak \in Nat /\ good \in Nat
  /\ tests = breaker.attemptCount
  /\ breaker.state = "CLOSED" => breaker.failureCount <= streak
  /\ breaker.state = "HALF_OPEN" => breaker.successCount <= good
  /\ breaker.state = "OPEN" =>
       quietTill = breaker.openedAt + Breaker!calculateCooldown(breaker.attemptCount)

\* The store's row is the breaker, while no snapshot is newer; else the newest in flight is.
BreakerRow ==
  /\ newest = "landed" => row = breaker \/ (row = None /\ breaker = Breaker!Closed)
  /\ newest = "pending" => Len(saves) > 0 /\ saves[Len(saves)] = breaker

BreakerInv ==
  /\ Snapshot(breaker)
  /\ now \in Nat
  /\ saves \in Seq(Breaker!Breaker) /\ \A i \in 1 .. Len(saves) : Snapshot(saves[i])
  /\ row = None \/ Snapshot(row)
  /\ BreakerCounts
  /\ BreakerRow

LEMMA BreakerConstants ==
  /\ FailureThreshold \in Nat \ {0} /\ SuccessThreshold \in Nat \ {0}
  /\ MaxAttemptCount \in Nat /\ None \notin Nat /\ None \notin Breaker!Breaker
  /\ CooldownMs \in Nat /\ BackoffMultiplier \in Nat \ {0} /\ MaxCooldownMs \in Nat
BY ServicesAssumption DEF Breaker!BreakerAssumption, Breaker!CooldownAssumption

\* A cooldown is a number.
LEMMA CooldownIsInt ==
  ASSUME NEW n \in Nat PROVE Breaker!calculateCooldown(n) \in Int
<1>1. BackoffMultiplier ^ n \in Int
  BY BreakerConstants
<1>2. CooldownMs * BackoffMultiplier ^ n \in Int
  BY <1>1, BreakerConstants
<1> QED BY <1>2, BreakerConstants DEF Breaker!calculateCooldown, Breaker!Least

LEMMA ClosedSnapshot == Snapshot(Breaker!Closed) /\ Breaker!Closed.state = "CLOSED"
                        /\ Breaker!Closed.failureCount = 0 /\ Breaker!Closed.successCount = 0
                        /\ Breaker!Closed.attemptCount = 0
BY BreakerConstants DEF Snapshot, Breaker!Closed, Breaker!Breaker

\* recordSuccess: a snapshot again; it closes a half-open breaker only at the threshold.
LEMMA AfterSuccessKeeps ==
  ASSUME NEW b, Snapshot(b), NEW a, a = Breaker!AfterSuccess(b)
  PROVE  /\ Snapshot(a)
         /\ b.state = "OPEN" => a = b
         /\ b.state = "CLOSED" => a.state = "CLOSED" /\ a.failureCount = 0 /\ a.attemptCount = 0
         /\ b.state = "HALF_OPEN" =>
              \/ a.state = "CLOSED" /\ b.successCount + 1 >= SuccessThreshold
                 /\ a.failureCount = 0 /\ a.attemptCount = 0
              \/ a.state = "HALF_OPEN" /\ a.successCount = b.successCount + 1
                 /\ a.attemptCount = b.attemptCount
<1> b \in Breaker!Breaker
  BY DEF Snapshot
<1>1. CASE b.state = "OPEN"
  BY <1>1 DEF Breaker!AfterSuccess
<1>2. CASE b.state = "CLOSED"
  <2>1. a = [b EXCEPT !.failureCount = 0]
    BY <1>2 DEF Breaker!AfterSuccess
  <2> QED BY <1>2, <2>1, BreakerConstants DEF Snapshot, Breaker!Breaker
<1>3. CASE b.state = "HALF_OPEN" /\ b.successCount + 1 >= SuccessThreshold
  <2>1. a = [Breaker!Closed EXCEPT !.openedAt = b.openedAt]
    BY <1>3 DEF Breaker!AfterSuccess
  <2> QED BY <1>3, <2>1, BreakerConstants DEF Snapshot, Breaker!Breaker, Breaker!Closed
<1>4. CASE b.state = "HALF_OPEN" /\ ~ (b.successCount + 1 >= SuccessThreshold)
  <2>1. a = [b EXCEPT !.successCount = b.successCount + 1]
    BY <1>4 DEF Breaker!AfterSuccess
  <2> QED BY <1>4, <2>1, BreakerConstants DEF Snapshot, Breaker!Breaker
<1> QED BY <1>1, <1>2, <1>3, <1>4 DEF Breaker!Breaker

\* recordFailure: a snapshot again; it opens at the threshold or after a failed test.
LEMMA AfterFailureKeeps ==
  ASSUME NEW b, Snapshot(b), NEW t \in Nat, NEW a, a = Breaker!AfterFailure(b, t)
  PROVE  /\ Snapshot(a)
         /\ b.state = "OPEN" => a = b
         /\ b.state = "HALF_OPEN" => a.state = "OPEN" /\ a.openedAt = t
                                     /\ a.attemptCount = Breaker!Tried(b.attemptCount)
         /\ b.state = "CLOSED" =>
              \/ a.state = "OPEN" /\ b.failureCount + 1 >= FailureThreshold
                 /\ a.attemptCount = 0 /\ a.openedAt = t
              \/ a.state = "CLOSED" /\ a.failureCount = b.failureCount + 1
                 /\ a.attemptCount = 0
<1> b \in Breaker!Breaker
  BY DEF Snapshot
<1>1. CASE b.state = "OPEN"
  BY <1>1 DEF Breaker!AfterFailure
<1>2. CASE b.state = "HALF_OPEN"
  <2>1. a = [b EXCEPT !.state = "OPEN", !.successCount = 0,
                      !.attemptCount = Breaker!Tried(b.attemptCount), !.openedAt = t]
    BY <1>2 DEF Breaker!AfterFailure, Breaker!Opens
  <2>2. Breaker!Tried(b.attemptCount) \in 0 .. MaxAttemptCount
    BY BreakerConstants DEF Breaker!Tried, Breaker!Breaker
  <2>3. a = [state |-> "OPEN", failureCount |-> b.failureCount, successCount |-> 0,
             openedAt |-> t, attemptCount |-> Breaker!Tried(b.attemptCount)]
    BY <2>1, Zenon DEF Breaker!Breaker
  <2> QED BY <1>2, <2>2, <2>3, BreakerConstants DEF Snapshot, Breaker!Breaker
<1>3. CASE b.state = "CLOSED" /\ Breaker!Opens(b)
  <2>1. a = [b EXCEPT !.state = "OPEN", !.failureCount = b.failureCount + 1,
                      !.openedAt = t, !.attemptCount = 0]
    BY <1>3 DEF Breaker!AfterFailure
  <2>2. b.failureCount + 1 >= FailureThreshold
    BY <1>3 DEF Breaker!Opens
  <2>3. a = [state |-> "OPEN", failureCount |-> b.failureCount + 1,
             successCount |-> b.successCount, openedAt |-> t, attemptCount |-> 0]
    BY <2>1, Zenon DEF Breaker!Breaker
  <2> QED BY <1>3, <2>2, <2>3, BreakerConstants DEF Snapshot, Breaker!Breaker
<1>4. CASE b.state = "CLOSED" /\ ~ Breaker!Opens(b)
  <2>1. a = [b EXCEPT !.failureCount = b.failureCount + 1]
    BY <1>4 DEF Breaker!AfterFailure
  <2>2. ~ (b.failureCount + 1 >= FailureThreshold)
    BY <1>4 DEF Breaker!Opens
  <2> QED BY <1>4, <2>1, <2>2, BreakerConstants DEF Snapshot, Breaker!Breaker
<1> QED BY <1>1, <1>2, <1>3, <1>4 DEF Breaker!Breaker

\* allowRequest of a breaker that cooled down.
LEMMA AfterAllowKeeps ==
  ASSUME NEW b, Snapshot(b), b.state = "OPEN", NEW a, a = Breaker!AfterAllow(b, TRUE)
  PROVE  Snapshot(a) /\ a.state = "HALF_OPEN" /\ a.successCount = 0
         /\ a.attemptCount = b.attemptCount
<1> b \in Breaker!Breaker
  BY DEF Snapshot
<1>1. a = [b EXCEPT !.state = "HALF_OPEN", !.successCount = 0, !.failureCount = 0]
  BY DEF Breaker!AfterAllow
<1>2. a = [state |-> "HALF_OPEN", failureCount |-> 0, successCount |-> 0,
           openedAt |-> b.openedAt, attemptCount |-> b.attemptCount]
  BY <1>1, Zenon DEF Breaker!Breaker
<1>3. b.openedAt \in Nat /\ b.attemptCount \in 0 .. MaxAttemptCount
  BY DEF Snapshot, Breaker!Breaker
<1>4. 0 \in 0 .. FailureThreshold /\ 0 \in 0 .. SuccessThreshold /\ 0 < SuccessThreshold
  BY BreakerConstants
<1>5. PICK o, n : o = b.openedAt /\ n = b.attemptCount
  OBVIOUS
<1>6. a = [state |-> "HALF_OPEN", failureCount |-> 0, successCount |-> 0,
           openedAt |-> o, attemptCount |-> n]
      /\ o \in Nat /\ n \in 0 .. MaxAttemptCount
  BY <1>2, <1>3, <1>5
<1>7. a \in Breaker!Breaker
  BY ONLY <1>4, <1>6 DEF Breaker!Breaker
<1> QED BY ONLY <1>4, <1>5, <1>6, <1>7 DEF Snapshot

\* restoreState: the snapshot, or a closed breaker where its cooldown is over.
LEMMA RestoredKeeps ==
  ASSUME NEW b, Snapshot(b), NEW a, a = Breaker!Restored(b)
  PROVE  Snapshot(a) /\ (a = b \/ Breaker!Cooled(b))
BY ClosedSnapshot DEF Breaker!Restored

\* A save that is gone leaves the others in their order.
LEMMA SavesLeft ==
  ASSUME NEW S, NEW s \in Seq(S), NEW i \in 1 .. Len(s), NEW r, r = Breaker!RemoveAt(s, i)
  PROVE  /\ r \in Seq(S) /\ Len(r) = Len(s) - 1
         /\ \A k \in 1 .. Len(r) : r[k] = IF k < i THEN s[k] ELSE s[k + 1]
<1> DEFINE a == SubSeq(s, 1, i - 1)
           b == SubSeq(s, i + 1, Len(s))
<1>1. i \in Nat /\ Len(s) \in Nat /\ i >= 1 /\ i <= Len(s)
  BY LenProperties
<1>2. a \in Seq(S) /\ Len(a) = i - 1 /\ \A k \in 1 .. i - 1 : a[k] = s[k]
  BY <1>1, SubSeqProperties
<1>3. b \in Seq(S) /\ Len(b) = Len(s) - i /\ \A k \in 1 .. Len(s) - i : b[k] = s[i + k]
  BY <1>1, SubSeqProperties
<1>4. r = a \o b
  BY DEF Breaker!RemoveAt
<1> HIDE DEF a, b
<1>5. r \in Seq(S) /\ Len(r) = Len(a) + Len(b)
      /\ \A k \in 1 .. Len(a) + Len(b) : r[k] = IF k <= Len(a) THEN a[k] ELSE b[k - Len(a)]
  <2>1. a \in Seq(S) /\ b \in Seq(S)
    BY <1>2, <1>3
  <2> QED BY ONLY <1>4, <2>1, ConcatProperties
<1>6. ASSUME NEW k \in 1 .. Len(r) PROVE r[k] = IF k < i THEN s[k] ELSE s[k + 1]
  <2>1. CASE k < i
    BY <1>1, <1>2, <1>3, <1>5, <2>1
  <2>2. CASE ~ k < i
    <3>1. k - (i - 1) \in 1 .. Len(s) - i /\ i + (k - (i - 1)) = k + 1
      BY <1>1, <1>2, <1>3, <1>5, <2>2
    <3>2. r[k] = b[k - (i - 1)]
      BY <1>1, <1>2, <1>3, <1>5, <2>2
    <3> QED BY <1>3, <2>2, <3>1, <3>2
  <2> QED BY <2>1, <2>2
<1> QED BY <1>1, <1>2, <1>3, <1>5, <1>6

LEMMA BreakerInitially == Breaker!Init => BreakerInv
BY ClosedSnapshot, BreakerConstants
   DEF Breaker!Init, BreakerInv, BreakerCounts, BreakerRow, Snapshot

\* A call that asks for a save: the store's part of the invariant, and the new breaker's.
LEMMA PersistKeeps ==
  ASSUME BreakerInv, Snapshot(breaker'), Breaker!Persist(breaker'), now' = now, BreakerCounts'
  PROVE  BreakerInv'
<1>1. saves \in Seq(Breaker!Breaker) /\ breaker' \in Breaker!Breaker
  BY DEF BreakerInv, Snapshot
<1>2. saves' = Append(saves, breaker') /\ newest' = "pending" /\ row' = row
  BY DEF Breaker!Persist
<1>3. /\ saves' \in Seq(Breaker!Breaker) /\ Len(saves') = Len(saves) + 1
      /\ \A i \in 1 .. Len(saves) : saves'[i] = saves[i]
      /\ saves'[Len(saves) + 1] = breaker'
  BY <1>1, <1>2, AppendProperties
<1>4. Len(saves) \in Nat
  BY <1>1, LenProperties
<1>5. ASSUME NEW i \in 1 .. Len(saves') PROVE Snapshot(saves'[i])
  BY <1>3, <1>4, <1>5 DEF BreakerInv
<1>6. BreakerRow'
  BY <1>2, <1>3, <1>4 DEF BreakerRow
<1> QED BY <1>2, <1>3, <1>5, <1>6 DEF BreakerInv

LEMMA AllowRequestKeeps ==
  ASSUME BreakerInv, Breaker!AllowRequest PROVE BreakerInv'
<1>1. breaker.state = "OPEN" /\ Snapshot(breaker) /\ breaker' = Breaker!AfterAllow(breaker, TRUE)
  BY DEF Breaker!AllowRequest, BreakerInv
<1>2. Snapshot(breaker') /\ breaker'.state = "HALF_OPEN" /\ breaker'.successCount = 0
      /\ breaker'.attemptCount = breaker.attemptCount
  BY <1>1, AfterAllowKeeps
<1>3. streak' = streak /\ good' = 0 /\ tests' = tests /\ quietTill' = quietTill
  BY DEF Breaker!AllowRequest
<1>4. BreakerCounts'
  BY <1>2, <1>3 DEF BreakerInv, BreakerCounts
<1> QED BY <1>2, <1>4, PersistKeeps DEF Breaker!AllowRequest

LEMMA RecordSuccessKeeps ==
  ASSUME BreakerInv, Breaker!RecordSuccess PROVE BreakerInv'
<1>1. Snapshot(breaker) /\ breaker' = Breaker!AfterSuccess(breaker) /\ breaker \in Breaker!Breaker
  BY DEF Breaker!RecordSuccess, BreakerInv, Snapshot
<1>2. /\ Snapshot(breaker')
      /\ breaker.state = "OPEN" => breaker' = breaker
      /\ breaker.state = "CLOSED" =>
           breaker'.state = "CLOSED" /\ breaker'.failureCount = 0 /\ breaker'.attemptCount = 0
      /\ breaker.state = "HALF_OPEN" =>
           \/ breaker'.state = "CLOSED" /\ breaker'.failureCount = 0 /\ breaker'.attemptCount = 0
           \/ breaker'.state = "HALF_OPEN" /\ breaker'.successCount = breaker.successCount + 1
              /\ breaker'.attemptCount = breaker.attemptCount
  BY <1>1, AfterSuccessKeeps
<1>3. breaker.state \in {"OPEN", "CLOSED", "HALF_OPEN"} /\ breaker.successCount \in Nat
  BY <1>1, BreakerConstants DEF Breaker!Breaker
<1>4. breaker.state = "HALF_OPEN" => breaker.successCount < SuccessThreshold
  BY <1>1 DEF Snapshot
<1>5. /\ streak' = 0 /\ good' = Breaker!Least(good + 1, SuccessThreshold)
      /\ tests' = IF breaker'.state = "CLOSED" THEN 0 ELSE tests
      /\ quietTill' = quietTill /\ now' = now
  BY DEF Breaker!RecordSuccess
<1>6. good \in Nat /\ good' \in Nat /\ (good' = good + 1 \/ good' = SuccessThreshold)
  BY <1>5, BreakerConstants DEF BreakerInv, BreakerCounts, Breaker!Least
<1>7. BreakerCounts'
  BY <1>2, <1>3, <1>4, <1>5, <1>6, BreakerConstants DEF BreakerInv, BreakerCounts
<1> QED BY <1>2, <1>5, <1>7, PersistKeeps DEF Breaker!RecordSuccess

LEMMA RecordFailureKeeps ==
  ASSUME BreakerInv, Breaker!RecordFailure PROVE BreakerInv'
<1>1. Snapshot(breaker) /\ breaker' = Breaker!AfterFailure(breaker, now)
      /\ breaker \in Breaker!Breaker /\ now \in Nat
  BY DEF Breaker!RecordFailure, BreakerInv, Snapshot
<1>2. /\ Snapshot(breaker')
      /\ breaker.state = "OPEN" => breaker' = breaker
      /\ breaker.state = "HALF_OPEN" =>
           breaker'.state = "OPEN" /\ breaker'.openedAt = now
           /\ breaker'.attemptCount = Breaker!Tried(breaker.attemptCount)
      /\ breaker.state = "CLOSED" =>
           \/ breaker'.state = "OPEN" /\ breaker'.attemptCount = 0 /\ breaker'.openedAt = now
           \/ breaker'.state = "CLOSED" /\ breaker'.failureCount = breaker.failureCount + 1
              /\ breaker'.attemptCount = 0
  BY <1>1, AfterFailureKeeps
<1>3. breaker.state \in {"OPEN", "CLOSED", "HALF_OPEN"} /\ breaker.failureCount \in Nat
  BY <1>1, BreakerConstants DEF Breaker!Breaker
<1>4. breaker.state = "CLOSED" =>
        breaker.attemptCount = 0 /\ breaker.failureCount < FailureThreshold
  BY <1>1 DEF Snapshot
<1>5. /\ good' = 0 /\ streak' = Breaker!Least(streak + 1, FailureThreshold)
      /\ tests' = IF breaker.state = "HALF_OPEN" THEN Breaker!Tried(tests) ELSE tests
      /\ quietTill' = IF breaker'.state = "OPEN" /\ breaker.state # "OPEN"
                      THEN now + Breaker!calculateCooldown(tests') ELSE quietTill
      /\ now' = now
  BY DEF Breaker!RecordFailure
<1>6. streak \in Nat /\ streak' \in Nat /\ (streak' = streak + 1 \/ streak' = FailureThreshold)
  BY <1>5, BreakerConstants DEF BreakerInv, BreakerCounts, Breaker!Least
<1>7. tests = breaker.attemptCount
  BY DEF BreakerInv, BreakerCounts
<1>8. tests' = breaker'.attemptCount
  BY <1>2, <1>3, <1>4, <1>5, <1>7
<1>9. breaker'.state = "OPEN" => quietTill' = breaker'.openedAt
                                  + Breaker!calculateCooldown(breaker'.attemptCount)
  BY <1>2, <1>3, <1>5, <1>8 DEF BreakerInv, BreakerCounts
<1>10. breaker'.state = "CLOSED" => breaker'.failureCount <= streak'
  BY <1>2, <1>3, <1>4, <1>6, BreakerConstants DEF BreakerInv, BreakerCounts
<1>11. breaker'.state # "HALF_OPEN"
  BY <1>2, <1>3
<1>12. BreakerCounts'
  BY <1>5, <1>6, <1>8, <1>9, <1>10, <1>11 DEF BreakerCounts
<1> QED BY <1>2, <1>5, <1>12, PersistKeeps DEF Breaker!RecordFailure

LEMMA ResetKeeps == ASSUME BreakerInv, Breaker!Reset PROVE BreakerInv'
<1>1. Snapshot(breaker') /\ breaker'.state = "CLOSED" /\ breaker'.failureCount = 0
      /\ breaker'.attemptCount = 0
  BY ClosedSnapshot DEF Breaker!Reset
<1>2. BreakerCounts'
  BY <1>1 DEF BreakerCounts, Breaker!Reset
<1> QED BY <1>1, <1>2, PersistKeeps DEF Breaker!Reset

\* A restart: the breaker is the restored row, and its snapshot is on its way.
LEMMA RestartKeeps == ASSUME BreakerInv, Breaker!Restart PROVE BreakerInv'
<1> DEFINE b == IF row = None THEN Breaker!Closed ELSE Breaker!Restored(row)
<1>1. Snapshot(b)
  BY ClosedSnapshot, RestoredKeeps DEF BreakerInv
<1>2. /\ breaker' = b /\ now' = now /\ row' = row
      /\ saves' = IF row = None THEN << >> ELSE <<b>>
      /\ newest' = IF row = None THEN "landed" ELSE "pending"
      /\ streak' = b.failureCount /\ good' = b.successCount /\ tests' = b.attemptCount
      /\ quietTill' = IF b.state = "OPEN"
                      THEN b.openedAt + Breaker!calculateCooldown(b.attemptCount) ELSE now
  BY DEF Breaker!Restart
<1>3. row = None => b = Breaker!Closed
  OBVIOUS
<1> HIDE DEF b
<1>4. b.failureCount \in Nat /\ b.successCount \in Nat /\ b \in Breaker!Breaker
  BY <1>1, BreakerConstants DEF Snapshot, Breaker!Breaker
<1>5. BreakerCounts'
  BY <1>2, <1>4 DEF BreakerCounts
<1>6. BreakerRow'
  BY <1>2, <1>3 DEF BreakerRow
<1>7. saves' \in Seq(Breaker!Breaker) /\ \A i \in 1 .. Len(saves') : Snapshot(saves'[i])
  BY <1>1, <1>2, <1>4
<1> QED BY <1>1, <1>2, <1>5, <1>6, <1>7 DEF BreakerInv

LEMMA SaveGoneKeeps ==
  ASSUME BreakerInv, NEW i \in DOMAIN saves, Breaker!SaveLands(i) \/ Breaker!SaveFails(i)
  PROVE  BreakerInv'
<1>1. saves \in Seq(Breaker!Breaker) /\ \A k \in 1 .. Len(saves) : Snapshot(saves[k])
  BY DEF BreakerInv
<1>2. i \in 1 .. Len(saves) /\ Len(saves) \in Nat
  BY <1>1, LenProperties
<1>3. /\ saves' = Breaker!RemoveAt(saves, i) /\ breaker' = breaker /\ now' = now
      /\ streak' = streak /\ good' = good /\ tests' = tests /\ quietTill' = quietTill
      /\ row' = row \/ row' = saves[i]
  BY DEF Breaker!SaveLands, Breaker!SaveFails, Breaker!calls
<1>4. /\ saves' \in Seq(Breaker!Breaker) /\ Len(saves') = Len(saves) - 1
      /\ \A k \in 1 .. Len(saves') : saves'[k] = IF k < i THEN saves[k] ELSE saves[k + 1]
  BY <1>1, <1>2, <1>3, SavesLeft
<1>5. \A k \in 1 .. Len(saves') : Snapshot(saves'[k])
  BY <1>1, <1>2, <1>4
<1>6. row' = None \/ Snapshot(row')
  BY <1>1, <1>2, <1>3 DEF BreakerInv
<1>7. BreakerCounts'
  BY <1>3 DEF BreakerInv, BreakerCounts
<1>8. BreakerRow'
  <2>1. BreakerRow
    BY DEF BreakerInv
  <2>2. newest' = "pending" => Len(saves') > 0 /\ saves'[Len(saves')] = breaker'
    <3>1. SUFFICES ASSUME newest' = "pending" PROVE Len(saves') > 0 /\ saves'[Len(saves')] = breaker'
      OBVIOUS
    <3>2. newest = "pending" /\ i # Len(saves)
      BY <3>1 DEF Breaker!SaveLands, Breaker!SaveFails, Breaker!IsNewest
    <3>3. Len(saves) - 1 \in 1 .. Len(saves') /\ ~ (Len(saves) - 1 < i)
      BY <1>2, <1>4, <3>2
    <3> QED BY <1>2, <1>3, <1>4, <2>1, <3>2, <3>3 DEF BreakerRow
  <2>3. newest' = "landed" => row' = breaker' \/ (row' = None /\ breaker' = Breaker!Closed)
    <3>1. CASE Breaker!SaveLands(i)
      <4>1. row' = saves[i] /\ newest' = IF newest = "pending" /\ i = Len(saves) THEN "landed"
                           ELSE IF newest = "landed" THEN "overwritten" ELSE newest
        BY <3>1 DEF Breaker!SaveLands, Breaker!IsNewest
      <4>2. newest' = "landed" => newest = "pending" /\ i = Len(saves)
        BY <4>1
      <4>3. newest = "pending" => saves[Len(saves)] = breaker
        BY <2>1 DEF BreakerRow
      <4>4. breaker' = breaker
        BY <1>3
      <4> QED BY ONLY <4>1, <4>2, <4>3, <4>4
    <3>2. CASE Breaker!SaveFails(i)
      BY <1>3, <2>1, <3>2 DEF BreakerRow, Breaker!SaveFails, Breaker!IsNewest
    <3> QED BY <3>1, <3>2
  <2> QED BY <2>2, <2>3 DEF BreakerRow
<1> QED BY <1>3, <1>4, <1>5, <1>6, <1>7, <1>8 DEF BreakerInv

LEMMA BreakerInvNext == ASSUME BreakerInv, [Breaker!Next]_breakerVars PROVE BreakerInv'
<1>1. CASE Breaker!Tick
  BY <1>1 DEF Breaker!Tick, Breaker!calls, BreakerInv, BreakerCounts, BreakerRow
<1>2. CASE UNCHANGED breakerVars
  BY <1>2 DEF breakerVars, BreakerInv, BreakerCounts, BreakerRow
<1> QED BY <1>1, <1>2, AllowRequestKeeps, RecordSuccessKeeps, RecordFailureKeeps, ResetKeeps,
           RestartKeeps, SaveGoneKeeps DEF Breaker!Next

-----------------------------------------------------------------------------
\* One step: the circuit opens and closes for a reason.
LEMMA TransitionIsForCause ==
  ASSUME BreakerInv, Breaker!Next, ~ Breaker!Reset, ~ Breaker!Restart
  PROVE  /\ breaker.state # "OPEN" /\ breaker'.state = "OPEN" =>
              breaker.state = "HALF_OPEN" \/ streak' >= FailureThreshold
         /\ breaker.state # "CLOSED" /\ breaker'.state = "CLOSED" =>
              breaker.state = "HALF_OPEN" /\ good' >= SuccessThreshold
<1>1. Snapshot(breaker) /\ BreakerCounts /\ now \in Nat
  BY DEF BreakerInv
<1>2. breaker \in Breaker!Breaker
  BY <1>1 DEF Snapshot
<1>3. /\ breaker.state \in {"OPEN", "CLOSED", "HALF_OPEN"}
      /\ breaker.failureCount \in Nat /\ breaker.successCount \in Nat
  BY <1>2, BreakerConstants DEF Breaker!Breaker
<1>4. CASE Breaker!AllowRequest
  <2>1. breaker.state = "OPEN" /\ breaker' = Breaker!AfterAllow(breaker, TRUE)
    BY <1>4 DEF Breaker!AllowRequest
  <2>2. breaker'.state = "HALF_OPEN"
    BY <1>1, <2>1, AfterAllowKeeps
  <2> QED BY <2>2
<1>5. CASE Breaker!RecordSuccess
  <2>1. breaker' = Breaker!AfterSuccess(breaker)
        /\ good' = Breaker!Least(good + 1, SuccessThreshold)
    BY <1>5 DEF Breaker!RecordSuccess
  <2>2. /\ breaker.state = "OPEN" => breaker' = breaker
        /\ breaker.state = "CLOSED" => breaker'.state = "CLOSED"
        /\ breaker.state = "HALF_OPEN" /\ breaker'.state = "CLOSED" =>
             breaker.successCount + 1 >= SuccessThreshold
        /\ breaker.state = "HALF_OPEN" => breaker'.state \in {"CLOSED", "HALF_OPEN"}
    BY <1>1, <2>1, AfterSuccessKeeps
  <2>3. breaker.state = "HALF_OPEN" => breaker.successCount <= good
    BY <1>1 DEF BreakerCounts
  <2>4. breaker.state = "HALF_OPEN" /\ breaker'.state = "CLOSED" => good' >= SuccessThreshold
    BY <1>1, <1>3, <2>1, <2>2, <2>3, BreakerConstants DEF Breaker!Least, BreakerCounts
  <2> QED BY <1>3, <2>2, <2>4
<1>6. CASE Breaker!RecordFailure
  <2>1. breaker' = Breaker!AfterFailure(breaker, now)
        /\ streak' = Breaker!Least(streak + 1, FailureThreshold)
    BY <1>6 DEF Breaker!RecordFailure
  <2>2. /\ breaker.state = "OPEN" => breaker' = breaker
        /\ breaker.state = "HALF_OPEN" => breaker'.state = "OPEN"
        /\ breaker.state = "CLOSED" /\ breaker'.state = "OPEN" =>
             breaker.failureCount + 1 >= FailureThreshold
    BY <1>1, <2>1, AfterFailureKeeps
  <2>3. breaker.state = "CLOSED" => breaker.failureCount <= streak
    BY <1>1 DEF BreakerCounts
  <2>4. breaker.state = "CLOSED" /\ breaker'.state = "OPEN" => streak' >= FailureThreshold
    BY <1>1, <1>3, <2>1, <2>2, <2>3, BreakerConstants DEF Breaker!Least, BreakerCounts
  <2> QED BY <1>3, <2>2, <2>4
<1>7. CASE Breaker!Tick
  BY <1>7 DEF Breaker!Tick
<1>8. ASSUME NEW i \in DOMAIN saves, Breaker!SaveLands(i) \/ Breaker!SaveFails(i)
      PROVE  breaker' = breaker
  BY <1>8 DEF Breaker!SaveLands, Breaker!SaveFails
<1> QED BY <1>4, <1>5, <1>6, <1>7, <1>8 DEF Breaker!Next

\* One step: an open breaker keeps its cooldown, over a restart too.
LEMMA CooldownIsKept ==
  ASSUME BreakerInv, Breaker!Next, breaker.state = "OPEN", now < quietTill, ~ Breaker!Reset
  PROVE  \/ breaker'.state = "OPEN" /\ quietTill' = quietTill
         \/ Breaker!Restart /\ newest # "landed"
<1>1. Snapshot(breaker) /\ BreakerCounts /\ BreakerRow /\ now \in Nat
  BY DEF BreakerInv
<1>2. breaker \in Breaker!Breaker /\ breaker.openedAt \in Nat
  BY <1>1 DEF Snapshot
<1>3. breaker.attemptCount \in Nat
  BY <1>2, BreakerConstants DEF Breaker!Breaker
<1>4. Breaker!calculateCooldown(breaker.attemptCount) \in Int
  BY <1>3, CooldownIsInt
<1>5. quietTill = breaker.openedAt + Breaker!calculateCooldown(breaker.attemptCount)
  BY <1>1 DEF BreakerCounts
<1>6. ~ Breaker!Cooled(breaker)
  BY <1>1, <1>2, <1>4, <1>5 DEF Breaker!Cooled
<1>7. ~ Breaker!AllowRequest
  BY <1>6 DEF Breaker!AllowRequest
<1>8. CASE Breaker!RecordSuccess
  <2>1. breaker' = breaker
    BY <1>1, <1>8, AfterSuccessKeeps DEF Breaker!RecordSuccess
  <2> QED BY <1>8, <2>1 DEF Breaker!RecordSuccess
<1>9. CASE Breaker!RecordFailure
  <2>1. breaker' = breaker
    BY <1>1, <1>9, AfterFailureKeeps DEF Breaker!RecordFailure
  <2> QED BY <1>9, <2>1 DEF Breaker!RecordFailure
<1>10. CASE Breaker!Tick
  BY <1>10 DEF Breaker!Tick, Breaker!calls
<1>11. ASSUME NEW i \in DOMAIN saves, Breaker!SaveLands(i) \/ Breaker!SaveFails(i)
       PROVE  breaker' = breaker /\ quietTill' = quietTill
  BY <1>11 DEF Breaker!SaveLands, Breaker!SaveFails, Breaker!calls
<1>12. CASE Breaker!Restart /\ newest = "landed"
  <2>1. row = breaker
    BY <1>1, <1>12, ClosedSnapshot DEF BreakerRow
  <2>2. row # None
    BY <1>2, <2>1, BreakerConstants
  <2>3. Breaker!Restored(row) = breaker
    BY <1>6, <2>1 DEF Breaker!Restored
  <2>4. breaker' = breaker /\ quietTill' = IF breaker.state = "OPEN"
          THEN breaker.openedAt + Breaker!calculateCooldown(breaker.attemptCount) ELSE now
    BY <1>12, <2>2, <2>3 DEF Breaker!Restart
  <2> QED BY <1>5, <2>4
<1> QED BY <1>7, <1>8, <1>9, <1>10, <1>11, <1>12 DEF Breaker!Next

LEMMA BreakerAlways == Spec => []BreakerInv
<1>1. BreakerInv /\ [Breaker!Next]_breakerVars => BreakerInv'
  BY BreakerInvNext
<1> QED BY <1>1, BreakerSteps, BreakerInitially, PTL

\* The circuit opens only after FailureThreshold failures with no success between them or a failed
\* test, and closes only by successes after its cooldown; once open it refuses until its cooldown
\* is over, and a restart does not bypass that when the last snapshot landed (circuit-breaker.ts,
\* circuit-breaker-store.ts).
THEOREM CircuitMoves == Spec => CircuitMovesForCause
<1> DEFINE Cause ==
      ~ Breaker!Reset /\ ~ Breaker!Restart =>
        /\ breaker.state # "OPEN" /\ breaker'.state = "OPEN" =>
             breaker.state = "HALF_OPEN" \/ streak' >= FailureThreshold
        /\ breaker.state # "CLOSED" /\ breaker'.state = "CLOSED" =>
             breaker.state = "HALF_OPEN" /\ good' >= SuccessThreshold
    Kept ==
      breaker.state = "OPEN" /\ now < quietTill /\ ~ Breaker!Reset =>
        \/ breaker'.state = "OPEN" /\ quietTill' = quietTill
        \/ Breaker!Restart /\ newest # "landed"
<1>1. BreakerInv /\ [Breaker!Next]_breakerVars =>
        [Cause]_(Breaker!breakerVars) /\ [Kept]_(Breaker!breakerVars)
  BY TransitionIsForCause, CooldownIsKept DEF breakerVars, Breaker!breakerVars, Breaker!calls
<1>2. Spec => [][Cause]_(Breaker!breakerVars) /\ [][Kept]_(Breaker!breakerVars)
  BY <1>1, BreakerSteps, BreakerAlways, PTL
<1> QED BY <1>2
        DEF CircuitMovesForCause, Breaker!TransitionsForCause, Breaker!CooldownKept

-----------------------------------------------------------------------------
(* The review signal: OutcomeMonitor.                                      *)

\* Of each behaviour of the services, the monitor's part.
LEMMA OutcomeSteps == Spec => Outcome!Init /\ [][Outcome!Next]_outcomeVars
<1>1. Init => Outcome!Init
  BY DEF Init
<1>2. [Next]_vars => [Outcome!Next]_outcomeVars
  BY DEF Next, vars, outcomeVars
<1> QED BY <1>1, <1>2, PTL DEF Spec

Observation == [match : WatchedMatches, kind : {"agree", "disagree", "unverifiable"}, at : Int]
SeenKinds == {"none", "agree", "disagree", "unverifiable"}
CheckStates == {"none", "armed", "has_result", "get_result", "provider"}
Checks == [at : CheckStates, attempt : Int, observedAt : Int]

\* A window tells of different matches what was last seen of them, and disagrees only with results
\* that were submitted wrongly.
Tells(w, l) ==
  /\ w \in Seq(Observation)
  /\ \A i \in 1 .. Len(w) : l[w[i].match] = [kind |-> w[i].kind, at |-> w[i].at]
  /\ \A i \in 1 .. Len(w) : w[i].kind = "disagree" => w[i].match \in Outcome!WronglySubmitted
  /\ \A i, j \in 1 .. Len(w) : w[i].match = w[j].match => i = j

\* The observations of r are some of w, each once.
SomeOf(r, w) ==
  /\ r \in Seq(Observation)
  /\ \E p \in [1 .. Len(r) -> 1 .. Len(w)] :
       /\ \A i \in 1 .. Len(r) : r[i] = w[p[i]]
       /\ \A i, j \in 1 .. Len(r) : p[i] = p[j] => i = j

OutcomeInv ==
  /\ clock \in Int
  /\ check \in [WatchedMatches -> Checks]
  /\ latest \in [WatchedMatches -> [kind : SeenKinds, at : Int]]
  /\ Tells(observations, latest)

LEMMA OutcomeConstants ==
  /\ IsFiniteSet(WatchedMatches)
  /\ Game \in [WatchedMatches -> [ended : Outcome!Results, submitted : Outcome!Results,
                                  player1 : {"white", "black"}]]
  /\ WindowSize \in Nat \ {0} /\ MinDecided \in Nat /\ MinDisagreements \in Nat
  /\ MaxAge \in Nat
<1>1. Outcome!IsFiniteSet(WatchedMatches) = IsFiniteSet(WatchedMatches)
  BY DEF Outcome!IsFiniteSet, IsFiniteSet
<1> QED BY <1>1, ServicesAssumption DEF Outcome!OutcomeAssumption

LEMMA SizesAgree == \A S : Outcome!Cardinality(S) = Cardinality(S)
BY DEF Outcome!Cardinality, Cardinality, Outcome!IsFiniteSet, IsFiniteSet

LEMMA FiltersAgree ==
  ASSUME NEW s, NEW kept PROVE Outcome!Filtered(s, kept) = Filtered(s, kept)
<1>1. \A i : Outcome!Place(kept, i) = Place(kept, i)
  BY SizesAgree DEF Outcome!Place, Place
<1> QED BY <1>1, SizesAgree DEF Outcome!Filtered, Filtered

LEMMA TellsPart ==
  ASSUME NEW w, NEW l, Tells(w, l), NEW r, SomeOf(r, w) PROVE Tells(r, l)
<1>1. PICK p \in [1 .. Len(r) -> 1 .. Len(w)] :
        /\ \A i \in 1 .. Len(r) : r[i] = w[p[i]]
        /\ \A i, j \in 1 .. Len(r) : p[i] = p[j] => i = j
  BY DEF SomeOf
<1>2. \A i \in 1 .. Len(r) : p[i] \in 1 .. Len(w)
  BY <1>1
<1>3. r \in Seq(Observation)
  BY DEF SomeOf
<1>4. /\ \A i \in 1 .. Len(w) : l[w[i].match] = [kind |-> w[i].kind, at |-> w[i].at]
      /\ \A i \in 1 .. Len(w) : w[i].kind = "disagree" => w[i].match \in Outcome!WronglySubmitted
      /\ \A i, j \in 1 .. Len(w) : w[i].match = w[j].match => i = j
  BY DEF Tells
<1>5. ASSUME NEW i \in 1 .. Len(r)
      PROVE  /\ l[r[i].match] = [kind |-> r[i].kind, at |-> r[i].at]
             /\ r[i].kind = "disagree" => r[i].match \in Outcome!WronglySubmitted
  <2>1. r[i] = w[p[i]] /\ p[i] \in 1 .. Len(w)
    BY <1>1, <1>2
  <2> QED BY <1>4, <2>1
<1>6. ASSUME NEW i \in 1 .. Len(r), NEW j \in 1 .. Len(r), r[i].match = r[j].match PROVE i = j
  <2>1. w[p[i]].match = w[p[j]].match /\ p[i] \in 1 .. Len(w) /\ p[j] \in 1 .. Len(w)
    BY <1>1, <1>2, <1>6
  <2> QED BY <1>1, <1>4, <2>1
<1> QED BY <1>3, <1>5, <1>6 DEF Tells

LEMMA SomeOfSome ==
  ASSUME NEW w, NEW r, NEW q, SomeOf(r, w), SomeOf(q, r) PROVE SomeOf(q, w)
<1>1. PICK p \in [1 .. Len(r) -> 1 .. Len(w)] :
        /\ \A i \in 1 .. Len(r) : r[i] = w[p[i]]
        /\ \A i, j \in 1 .. Len(r) : p[i] = p[j] => i = j
  BY DEF SomeOf
<1>2. PICK o \in [1 .. Len(q) -> 1 .. Len(r)] :
        /\ \A i \in 1 .. Len(q) : q[i] = r[o[i]]
        /\ \A i, j \in 1 .. Len(q) : o[i] = o[j] => i = j
  BY DEF SomeOf
<1> DEFINE po == [i \in 1 .. Len(q) |-> p[o[i]]]
<1>3. /\ po \in [1 .. Len(q) -> 1 .. Len(w)]
      /\ \A i \in 1 .. Len(q) : q[i] = w[po[i]]
      /\ \A i, j \in 1 .. Len(q) : po[i] = po[j] => i = j
  BY <1>1, <1>2
<1> HIDE DEF po
<1> QED BY <1>3 DEF SomeOf

LEMMA FilteredSome ==
  ASSUME NEW w \in Seq(Observation), NEW kept \in SUBSET DOMAIN w,
         NEW r, r = Outcome!Filtered(w, kept)
  PROVE  SomeOf(r, w) /\ \A i \in 1 .. Len(r) : \E k \in kept : r[i] = w[k]
<1>1. r = Filtered(w, kept)
  BY FiltersAgree
<1>2. /\ r \in Seq(Observation) /\ Len(r) \in Nat
      /\ \A i \in 1 .. Len(r) : Place(kept, i) \in kept /\ r[i] = w[Place(kept, i)]
      /\ \A i, j \in 1 .. Len(r) : Place(kept, i) = Place(kept, j) => i = j
  BY <1>1, FilterKeeps
<1>3. DOMAIN w = 1 .. Len(w)
  BY LenProperties
<1> DEFINE p == [i \in 1 .. Len(r) |-> Place(kept, i)]
<1>4. /\ p \in [1 .. Len(r) -> 1 .. Len(w)]
      /\ \A i \in 1 .. Len(r) : r[i] = w[p[i]]
      /\ \A i, j \in 1 .. Len(r) : p[i] = p[j] => i = j
  BY <1>2, <1>3
<1> HIDE DEF p
<1> QED BY <1>2, <1>4 DEF SomeOf

LEMMA TailSome ==
  ASSUME NEW w \in Seq(Observation), NEW m \in 1 .. Len(w) + 1,
         NEW r, r = SubSeq(w, m, Len(w))
  PROVE  SomeOf(r, w)
<1>1. Len(w) \in Nat /\ \A i \in 1 .. Len(w) : w[i] \in Observation
  BY LenProperties, ElementOfSeq
<1>2. PICK n \in Nat : n = Len(w)
  BY <1>1
<1>3. r \in Seq(Observation) /\ Len(r) = n - m + 1 /\ \A i \in 1 .. n - m + 1 : r[i] = w[m + i - 1]
  BY <1>1, <1>2, SubSeqProperties
<1> DEFINE p == [i \in 1 .. Len(r) |-> m + i - 1]
<1>4. /\ p \in [1 .. Len(r) -> 1 .. n]
      /\ \A i \in 1 .. Len(r) : r[i] = w[p[i]]
      /\ \A i, j \in 1 .. Len(r) : p[i] = p[j] => i = j
  BY <1>2, <1>3
<1> HIDE DEF p
<1> QED BY <1>2, <1>3, <1>4 DEF SomeOf

\* Pruning keeps some observations, all of them fresh.
LEMMA PruneKeeps ==
  ASSUME NEW w \in Seq(Observation), NEW r, r = Outcome!Prune(w)
  PROVE  SomeOf(r, w) /\ \A i \in 1 .. Len(r) : Outcome!Fresh(r[i])
<1> DEFINE kept == {i \in DOMAIN w : Outcome!Fresh(w[i])}
<1>1. PICK y : y = Outcome!Filtered(w, kept)
  OBVIOUS
<1>2. SomeOf(y, w) /\ \A i \in 1 .. Len(y) : Outcome!Fresh(y[i])
  <2>1. kept \in SUBSET DOMAIN w /\ \A k \in kept : Outcome!Fresh(w[k])
    OBVIOUS
  <2> HIDE DEF kept
  <2>2. SomeOf(y, w) /\ \A i \in 1 .. Len(y) : \E k \in kept : y[i] = w[k]
    BY <1>1, <2>1, FilteredSome
  <2> QED BY <2>1, <2>2
<1>3. y \in Seq(Observation)
  BY <1>2 DEF SomeOf
<1>4. Len(y) \in Nat
  BY <1>3, LenProperties
<1> DEFINE m == IF Len(y) > WindowSize THEN Len(y) - WindowSize + 1 ELSE 1
<1>5. m \in 1 .. Len(y) + 1
  BY <1>4, OutcomeConstants
<1>6. r = SubSeq(y, m, Len(y))
  BY <1>1 DEF Outcome!Prune
<1> HIDE DEF m, kept
<1>7. SomeOf(r, y)
  BY <1>3, <1>5, <1>6, TailSome
<1>8. SomeOf(r, w)
  BY <1>2, <1>7, SomeOfSome
<1>9. \A i \in 1 .. Len(r) : Outcome!Fresh(r[i])
  <2>1. PICK p \in [1 .. Len(r) -> 1 .. Len(y)] : \A i \in 1 .. Len(r) : r[i] = y[p[i]]
    BY <1>7 DEF SomeOf
  <2> QED BY <1>2, <2>1
<1> QED BY <1>8, <1>9

\* What is recorded: fresh observations, of every other match what was told before.
LEMMA RecordedTells ==
  ASSUME NEW w, NEW l, Tells(w, l), NEW o \in Observation,
         o.kind = "disagree" => o.match \in Outcome!WronglySubmitted,
         l \in [WatchedMatches -> [kind : SeenKinds, at : Int]],
         NEW k, k = [l EXCEPT ![o.match] = [kind |-> o.kind, at |-> o.at]],
         NEW r, r = Outcome!Recorded(w, o)
  PROVE  Tells(r, k) /\ \A i \in 1 .. Len(r) : Outcome!Fresh(r[i])
<1>0. w \in Seq(Observation)
  BY DEF Tells
<1>1. PICK p : p = Outcome!Prune(w)
  OBVIOUS
<1>2. Tells(p, l)
  <2>1. SomeOf(p, w)
    BY <1>0, <1>1, PruneKeeps
  <2> QED BY <2>1, TellsPart
<1>3. p \in Seq(Observation)
  BY <1>2 DEF Tells
<1> DEFINE kept == {i \in DOMAIN p : p[i].match # o.match}
<1>4. PICK q : q = Outcome!Filtered(p, kept)
  OBVIOUS
<1>5. kept \in SUBSET DOMAIN p /\ \A i \in kept : p[i].match # o.match
  OBVIOUS
<1>6. q = Outcome!Others(p, o.match)
  BY <1>4 DEF Outcome!Others
<1> HIDE DEF kept
<1>7. SomeOf(q, p) /\ \A i \in 1 .. Len(q) : q[i].match # o.match
  BY <1>3, <1>4, <1>5, FilteredSome
<1>8. Tells(q, l)
  BY <1>2, <1>7, TellsPart
<1>9. q \in Seq(Observation) /\ Len(q) \in Nat
  BY <1>8, LenProperties DEF Tells
<1>10. PICK a : a = Append(q, o)
  OBVIOUS
<1>11. /\ a \in Seq(Observation) /\ Len(a) = Len(q) + 1 /\ a[Len(q) + 1] = o
       /\ \A i \in 1 .. Len(q) : a[i] = q[i]
  BY <1>9, <1>10, AppendProperties
<1>12. k[o.match] = [kind |-> o.kind, at |-> o.at]
       /\ \A m \in WatchedMatches : m # o.match => k[m] = l[m]
  BY DEF Observation
<1>13. \A i \in 1 .. Len(q) : q[i].match \in WatchedMatches
  <2>1. \A i \in 1 .. Len(q) : q[i] \in Observation
    BY <1>9, ElementOfSeq
  <2> QED BY <2>1 DEF Observation
<1>14. Tells(a, k)
  <2>1. ASSUME NEW i \in 1 .. Len(a)
        PROVE  /\ k[a[i].match] = [kind |-> a[i].kind, at |-> a[i].at]
               /\ a[i].kind = "disagree" => a[i].match \in Outcome!WronglySubmitted
    <3>1. CASE i = Len(q) + 1
      BY <1>11, <1>12, <3>1
    <3>2. CASE i \in 1 .. Len(q)
      BY <1>7, <1>8, <1>11, <1>12, <1>13, <3>2 DEF Tells
    <3> QED BY <1>9, <1>11, <3>1, <3>2
  <2>2. ASSUME NEW i \in 1 .. Len(a), NEW j \in 1 .. Len(a), a[i].match = a[j].match PROVE i = j
    <3>1. \A n \in 1 .. Len(a) : n = Len(q) + 1 \/ n \in 1 .. Len(q)
      BY <1>9, <1>11
    <3> QED BY <1>7, <1>8, <1>11, <2>2, <3>1 DEF Tells
  <2> QED BY <1>11, <2>1, <2>2 DEF Tells
<1>15. r = Outcome!Prune(a)
  BY <1>1, <1>6, <1>10 DEF Outcome!Recorded
<1>16. SomeOf(r, a) /\ \A i \in 1 .. Len(r) : Outcome!Fresh(r[i])
  BY <1>11, <1>15, PruneKeeps
<1> QED BY <1>14, <1>16, TellsPart

\* A count over a fresh window is one of different matches.
LEMMA CountIsOfMatches ==
  ASSUME NEW w, NEW l \in [WatchedMatches -> [kind : SeenKinds, at : Int]], Tells(w, l),
         \A i \in 1 .. Len(w) : Outcome!Fresh(w[i]),
         NEW kinds, NEW T, T \in SUBSET WatchedMatches,
         \A i \in 1 .. Len(w) : w[i].kind \in kinds => w[i].match \in T
  PROVE  Outcome!Count(w, kinds) <= Cardinality(T) /\ Outcome!Count(w, kinds) \in Nat
         /\ Cardinality(T) \in Nat
<1> DEFINE S == {i \in DOMAIN w : w[i].kind \in kinds}
           f == [i \in S |-> w[i].match]
<1>1. w \in Seq(Observation) /\ DOMAIN w = 1 .. Len(w)
  BY LenProperties DEF Tells
<1>2. \A i, j \in S : w[i].match = w[j].match => i = j
  BY <1>1 DEF Tells
<1>3. f \in [S -> T] /\ \A i, j \in S : f[i] = f[j] => i = j
  BY <1>1, <1>2
<1>4. Outcome!Count(w, kinds) = Cardinality(S)
  BY SizesAgree DEF Outcome!Count
<1> HIDE DEF S, f
<1>5. f \in Injection(S, T)
  BY <1>3 DEF Injection, IsInjective
<1>6. IsFiniteSet(T)
  BY OutcomeConstants, FS_Subset
<1>7. IsFiniteSet(S) /\ Cardinality(S) <= Cardinality(T)
  BY <1>5, <1>6, FS_Injection
<1> QED BY <1>4, <1>6, <1>7, FS_CardinalityType

LEMMA OutcomeInitially == Outcome!Init => OutcomeInv
<1> SUFFICES ASSUME Outcome!Init PROVE OutcomeInv
  OBVIOUS
<1>1. Tells(<< >>, latest)
  BY DEF Tells
<1> QED BY <1>1 DEF Outcome!Init, OutcomeInv, Outcome!NoCheck, Checks, CheckStates, SeenKinds

\* A check ends: what it saw is recorded, and disagrees only with a wrong result.
LEMMA FinishKeeps ==
  ASSUME OutcomeInv, NEW m \in WatchedMatches, NEW kind \in {"agree", "disagree", "unverifiable"},
         NEW retryable, Outcome!Finish(m, kind, retryable),
         kind = "disagree" => m \in Outcome!WronglySubmitted
  PROVE  /\ OutcomeInv' /\ clock' = clock
         /\ \A i \in 1 .. Len(observations') : Outcome!Fresh(observations'[i])
         /\ reviewActive' = Outcome!ReviewRequired(observations')
<1> DEFINE o == [match |-> m, kind |-> kind, at |-> check[m].observedAt]
<1>1. /\ observations' = Outcome!Recorded(observations, o)
      /\ reviewActive' = Outcome!ReviewRequired(observations')
      /\ latest' = [latest EXCEPT ![m] = [kind |-> kind, at |-> check[m].observedAt]]
      /\ clock' = clock
  BY DEF Outcome!Finish, Outcome!handleTransitions
<1>2. check' \in [WatchedMatches -> Checks]
  <2>1. check' = [check EXCEPT ![m] =
                    IF retryable /\ check[m].attempt < MaxAttempts /\ ~ stopped
                    THEN [Outcome!NoCheck EXCEPT !.at = "armed", !.attempt = check[m].attempt + 1]
                    ELSE Outcome!NoCheck]
    BY DEF Outcome!Finish
  <2>2. check[m].attempt + 1 \in Int
    BY DEF OutcomeInv, Checks, CheckStates
  <2>3. Outcome!NoCheck \in Checks
    BY DEF Outcome!NoCheck, Checks, CheckStates
  <2>4. [Outcome!NoCheck EXCEPT !.at = "armed", !.attempt = check[m].attempt + 1] \in Checks
    <3>1. PICK a \in Int : a = check[m].attempt + 1
      BY <2>2
    <3>2. PICK c : c = [Outcome!NoCheck EXCEPT !.at = "armed"]
      OBVIOUS
    <3>3. c \in Checks
      BY <2>3, <3>2 DEF Checks, CheckStates
    <3>4. [c EXCEPT !.attempt = a] \in Checks
      BY <3>3 DEF Checks
    <3> QED BY <3>1, <3>2, <3>4
  <2> QED BY <2>1, <2>3, <2>4 DEF OutcomeInv
<1>3. check[m].observedAt \in Int
  BY DEF OutcomeInv, Checks, CheckStates
<1>4. o \in Observation /\ o.match = m /\ o.kind = kind /\ o.at = check[m].observedAt
  BY <1>3 DEF Observation
<1> HIDE DEF o
<1>5. Tells(observations, latest) /\ latest \in [WatchedMatches -> [kind : SeenKinds, at : Int]]
  BY DEF OutcomeInv
<1>6. Tells(observations', latest')
      /\ \A i \in 1 .. Len(observations') : Outcome!Fresh(observations'[i])
  BY <1>1, <1>4, <1>5, RecordedTells
<1>7. latest' \in [WatchedMatches -> [kind : SeenKinds, at : Int]]
  BY <1>1, <1>3, <1>5 DEF SeenKinds
<1> QED BY <1>1, <1>2, <1>6, <1>7 DEF OutcomeInv

\* A step that ends no check records nothing, raises nothing, and may prune the window.
LEMMA OtherStepKeeps ==
  ASSUME OutcomeInv, latest' = latest, clock' \in Int, check' \in [WatchedMatches -> Checks],
         observations' = observations \/ observations' = Outcome!Prune(observations)
  PROVE  OutcomeInv'
<1>1. Tells(observations, latest) /\ observations \in Seq(Observation)
  BY DEF OutcomeInv, Tells
<1>2. Tells(Outcome!Prune(observations), latest)
  <2>1. SomeOf(Outcome!Prune(observations), observations)
    BY <1>1, PruneKeeps
  <2> QED BY <1>1, <2>1, TellsPart
<1> QED BY <1>1, <1>2 DEF OutcomeInv

\* Player 1's perspective of what the platform says is how the game ended.
LEMMA PerspectiveIsRight ==
  ASSUME NEW m \in WatchedMatches
  PROVE  Outcome!toPlayer1Perspective(m, Outcome!PlatformResult(m)) = Game[m].ended
<1>1. Game[m].ended \in Outcome!Results
  BY OutcomeConstants
<1>2. Outcome!flip(Outcome!flip(Game[m].ended)) = Game[m].ended
  BY <1>1 DEF Outcome!flip, Outcome!Results
<1> QED BY <1>2 DEF Outcome!toPlayer1Perspective, Outcome!PlatformResult

\* The review signal rises for enough different matches.
Warranted ==
  ~ reviewActive /\ reviewActive' =>
    /\ Outcome!Cardinality(Outcome!WronglySubmitted \cap Outcome!Observed({"disagree"})')
         >= MinDisagreements
    /\ Outcome!Cardinality(Outcome!Observed({"agree", "disagree"})') >= MinDecided

LEMMA FinishIsWarranted ==
  ASSUME OutcomeInv, NEW m \in WatchedMatches, NEW kind \in {"agree", "disagree", "unverifiable"},
         NEW retryable, Outcome!Finish(m, kind, retryable),
         kind = "disagree" => m \in Outcome!WronglySubmitted
  PROVE  Warranted
<1>1. /\ OutcomeInv' /\ clock' = clock
      /\ \A i \in 1 .. Len(observations') : Outcome!Fresh(observations'[i])
      /\ reviewActive' = Outcome!ReviewRequired(observations')
  BY FinishKeeps
<1> SUFFICES ASSUME reviewActive' PROVE Warranted
  BY DEF Warranted
<1>2. /\ Outcome!Count(observations', {"agree", "disagree"}) >= MinDecided
      /\ Outcome!Count(observations', {"disagree"}) >= MinDisagreements
  BY <1>1 DEF Outcome!ReviewRequired
<1>3. /\ Tells(observations', latest') /\ latest' \in [WatchedMatches -> [kind : SeenKinds, at : Int]]
      /\ observations' \in Seq(Observation)
  BY <1>1 DEF OutcomeInv, Tells
<1> DEFINE D == Outcome!Observed({"agree", "disagree"})'
           W == Outcome!WronglySubmitted \cap Outcome!Observed({"disagree"})'
<1>4. ASSUME NEW kinds, NEW i \in 1 .. Len(observations'), observations'[i].kind \in kinds
      PROVE  observations'[i].match \in Outcome!Observed(kinds)'
  <2>1. observations'[i] \in Observation
    BY <1>3, ElementOfSeq
  <2>2. latest'[observations'[i].match] = [kind |-> observations'[i].kind, at |-> observations'[i].at]
    BY <1>3 DEF Tells
  <2>3. Outcome!Fresh(observations'[i])
    BY <1>1
  <2> QED BY <1>1, <1>4, <2>1, <2>2, <2>3 DEF Outcome!Observed, Outcome!Fresh, Observation
<1>5. \A i \in 1 .. Len(observations') :
        observations'[i].kind = "disagree" => observations'[i].match \in Outcome!WronglySubmitted
  BY <1>3 DEF Tells
<1>6. D \in SUBSET WatchedMatches /\ W \in SUBSET WatchedMatches
  BY DEF Outcome!Observed
<1>7. /\ \A i \in 1 .. Len(observations') :
           observations'[i].kind \in {"agree", "disagree"} => observations'[i].match \in D
      /\ \A i \in 1 .. Len(observations') :
           observations'[i].kind \in {"disagree"} => observations'[i].match \in W
  BY <1>4, <1>5
<1> HIDE DEF D, W
<1>8. Outcome!Count(observations', {"agree", "disagree"}) <= Cardinality(D)
      /\ Outcome!Count(observations', {"agree", "disagree"}) \in Nat /\ Cardinality(D) \in Nat
  BY <1>1, <1>3, <1>6, <1>7, CountIsOfMatches
<1>9. Outcome!Count(observations', {"disagree"}) <= Cardinality(W)
      /\ Outcome!Count(observations', {"disagree"}) \in Nat /\ Cardinality(W) \in Nat
  BY <1>1, <1>3, <1>6, <1>7, CountIsOfMatches
<1>10. Cardinality(D) >= MinDecided /\ Cardinality(W) >= MinDisagreements
  BY <1>2, <1>8, <1>9, OutcomeConstants
<1>11. Outcome!Cardinality(D) >= MinDecided /\ Outcome!Cardinality(W) >= MinDisagreements
  BY <1>10, SizesAgree
<1> QED BY <1>11 DEF Warranted, D, W

\* Every step is one of those.
LEMMA OutcomeNext ==
  ASSUME OutcomeInv, [Outcome!Next]_outcomeVars
  PROVE  OutcomeInv' /\ (Warranted \/ UNCHANGED outcomeVars)
<1>1. CASE Outcome!GetStatus
  <2>1. OutcomeInv'
    BY <1>1, OtherStepKeeps DEF Outcome!GetStatus, OutcomeInv
  <2> QED BY <1>1, <2>1 DEF Outcome!GetStatus, Warranted
<1>2. CASE Outcome!Stop
  <2>1. check' \in [WatchedMatches -> Checks]
    BY <1>2 DEF Outcome!Stop, OutcomeInv, Outcome!NoCheck, Checks, CheckStates
  <2>2. OutcomeInv'
    BY <1>2, <2>1, OtherStepKeeps DEF Outcome!Stop, OutcomeInv
  <2> QED BY <1>2, <2>2 DEF Outcome!Stop, Warranted
<1>3. CASE Outcome!Tick
  <2>1. OutcomeInv'
    BY <1>3, OtherStepKeeps DEF Outcome!Tick, OutcomeInv
  <2> QED BY <1>3, <2>1 DEF Outcome!Tick, Warranted
<1>4. CASE UNCHANGED outcomeVars
  <2>1. OutcomeInv'
    BY <1>4, OtherStepKeeps DEF outcomeVars, OutcomeInv
  <2> QED BY <1>4, <2>1
<1>5. ASSUME NEW m \in WatchedMatches,
             \/ Outcome!ScheduleCheck(m) \/ Outcome!Execute(m) \/ Outcome!ChainHasResult(m)
             \/ Outcome!ChainAnswers(m) \/ Outcome!ProviderAnswers(m)
      PROVE  OutcomeInv' /\ Warranted
  <2>1. check[m] \in Checks /\ clock \in Int
    BY DEF OutcomeInv
  <2>2. check[m].attempt \in Int /\ check[m].observedAt \in Int
    BY <2>1 DEF Checks
  <2>3. ASSUME NEW s \in CheckStates, check' = [check EXCEPT ![m].at = s],
               UNCHANGED <<clock, stopped, observations, reviewActive, degradedActive, latest>>
        PROVE  OutcomeInv' /\ Warranted
    <3>1. check' \in [WatchedMatches -> Checks]
      BY <2>3 DEF OutcomeInv, Checks, CheckStates
    <3>2. OutcomeInv'
      BY <2>3, <3>1, OtherStepKeeps DEF OutcomeInv
    <3> QED BY <2>3, <3>2 DEF Warranted
  <2>4. CASE Outcome!ScheduleCheck(m)
    <3>1. check' \in [WatchedMatches -> Checks]
      <4>1. PICK c : c = [check EXCEPT ![m].at = "armed"]
        OBVIOUS
      <4>2. c \in [WatchedMatches -> Checks]
        BY <4>1 DEF OutcomeInv, Checks, CheckStates
      <4>3. check' = [c EXCEPT ![m].attempt = 1]
        BY <2>4, <4>1 DEF Outcome!ScheduleCheck
      <4> QED BY <4>2, <4>3 DEF Checks
    <3>2. OutcomeInv'
      BY <2>4, <3>1, OtherStepKeeps DEF Outcome!ScheduleCheck, OutcomeInv
    <3> QED BY <2>4, <3>2 DEF Outcome!ScheduleCheck, Warranted
  <2>5. CASE Outcome!Execute(m)
    <3>1. check' \in [WatchedMatches -> Checks]
      BY <2>5 DEF Outcome!Execute, OutcomeInv, Checks, CheckStates
    <3>2. OutcomeInv'
      BY <2>5, <3>1, OtherStepKeeps DEF Outcome!Execute, OutcomeInv
    <3> QED BY <2>5, <3>2 DEF Outcome!Execute, Warranted
  <2>6. ASSUME NEW retryable, Outcome!Finish(m, "unverifiable", retryable)
        PROVE  OutcomeInv' /\ Warranted
    BY <2>6, FinishKeeps, FinishIsWarranted
  <2>7. CASE Outcome!ChainHasResult(m)
    BY <2>3, <2>6, <2>7 DEF Outcome!ChainHasResult, CheckStates
  <2>8. CASE Outcome!ChainAnswers(m)
    BY <2>3, <2>6, <2>8 DEF Outcome!ChainAnswers, CheckStates
  <2>9. CASE Outcome!ProviderAnswers(m)
    <3> DEFINE outcome == Outcome!toPlayer1Perspective(m, Outcome!PlatformResult(m))
               kind == IF outcome = Game[m].submitted THEN "agree" ELSE "disagree"
    <3>1. CASE Outcome!Finish(m, kind, FALSE)
      <4>1. kind = "disagree" => m \in Outcome!WronglySubmitted
        BY PerspectiveIsRight DEF Outcome!WronglySubmitted
      <4>2. kind \in {"agree", "disagree", "unverifiable"}
        OBVIOUS
      <4> HIDE DEF kind
      <4> QED BY <3>1, <4>1, <4>2, FinishKeeps, FinishIsWarranted
    <3> QED BY <2>6, <2>9, <3>1 DEF Outcome!ProviderAnswers
  <2> QED BY <1>5, <2>4, <2>5, <2>7, <2>8, <2>9
<1> QED BY <1>1, <1>2, <1>3, <1>4, <1>5 DEF Outcome!Next

LEMMA OutcomeAlways == Spec => []OutcomeInv
<1>1. OutcomeInv /\ [Outcome!Next]_outcomeVars => OutcomeInv'
  BY OutcomeNext
<1> QED BY <1>1, OutcomeSteps, OutcomeInitially, PTL

\* When the review signal rises, at least MinDisagreements different matches whose submitted
\* results are wrong were last seen to disagree and MinDecided were decided, all within MaxAge;
\* re-observed matches, outages, late answers and colours do not raise it
\* (outcome-disagreement-service.ts, outcome-disagreement-monitor.ts).
THEOREM SignalsHaveCause == Spec => SignalsAreWarranted
<1>1. OutcomeInv /\ [Outcome!Next]_outcomeVars => [Warranted]_(Outcome!outcomeVars)
  BY OutcomeNext DEF outcomeVars, Outcome!outcomeVars
<1>2. Spec => [][Warranted]_(Outcome!outcomeVars)
  BY <1>1, OutcomeSteps, OutcomeAlways, PTL
<1> QED BY <1>2 DEF SignalsAreWarranted, Outcome!SignalsAreWarranted, Warranted

-----------------------------------------------------------------------------
(* The settlement-age monitor: SettlementAge.                              *)

\* Of each behaviour of the services, the monitor's part.
LEMMA AgeSteps == Spec => Age!Init /\ [][Age!Next]_ageVars
<1>1. Init => Age!Init
  BY DEF Init
<1>2. [Next]_vars => [Age!Next]_ageVars
  BY DEF Next, vars, ageVars
<1> QED BY <1>1, <1>2, PTL DEF Spec

Times == Nat \cup {None}
Stages == {"activated", "provider_result", "submission_started"}
Line == [match : AgingMatches, activated : Times, provider_result : Times,
         submission_started : Times]
LifePhases == {"none", "polling", "finished", "submitting", "settled", "timedOut", "deadLettered"}
Lives == [phase : LifePhases, at : [Age!Phases -> Times]]

\* The times of a match are those of the phases it went through, in their order.
LifeRight(l, t) ==
  /\ l.phase # "none" => l.at["polling"] \in 0 .. t
  /\ l.phase \in {"none", "polling", "timedOut"} => l.at["finished"] = None
  /\ l.phase \notin {"none", "polling", "timedOut"} => l.at["finished"] \in l.at["polling"] .. t
  /\ l.phase \in {"none", "polling", "timedOut", "finished"} => l.at["submitting"] = None
  /\ l.at["submitting"] # None => l.at["submitting"] \in l.at["finished"] .. t
  /\ l.phase = "submitting" => l.at["submitting"] # None
  /\ l.phase = "settled" <=> l.at["settled"] # None
  /\ l.phase = "settled" => l.at["settled"] \in 0 .. t
  /\ l.phase = "none" => l.at["polling"] = None

\* A timeline and the match it is of.
Agree(t, l) ==
  /\ l.phase \in {"polling", "finished", "submitting"}
  /\ t.activated \in {None, l.at["polling"]}
  /\ t.provider_result = l.at["finished"]
  /\ t.submission_started = l.at["submitting"]

\* Where the monitor keeps a match in a phase, while it has not forgotten it.
Placed(phase, open_, closed_) ==
  /\ phase = "none" => ~ open_ /\ ~ closed_
  /\ phase = "polling" => ~ closed_
  /\ phase \in {"finished", "submitting"} => open_ /\ ~ closed_
  /\ phase \in {"settled", "deadLettered"} => ~ open_ /\ closed_
  /\ phase = "timedOut" => ~ open_

\* Timelines of different matches.
LinesRight(lines) ==
  /\ lines \in Seq(Line)
  /\ \A i, j \in 1 .. Len(lines) : lines[i].match = lines[j].match => i = j

\* Match m accounts for a duration d of segment s.
Accounts(m, s, d) ==
  LET from == life[m].at[Age!Ends[s][1]]
      to == life[m].at[Age!Ends[s][2]] IN
    \/ m \in forgotten
    \/ life[m].phase = "settled" /\ from # None /\ to # None /\ to - from >= d

MatchesPlaced ==
  \A m \in AgingMatches :
    m \notin forgotten => Placed(life[m].phase, Age!Tracked(open, m), Age!Contains(closed, m))
LinesAgree ==
  \A i \in 1 .. Len(open) :
    open[i].match \notin forgotten => Agree(open[i], life[open[i].match])
DurationsHaveCause ==
  /\ completed \in [Age!Segments -> Seq(Int)]
  /\ \A s \in Age!Segments : \A i \in 1 .. Len(completed[s]) :
       \E m \in AgingMatches : Accounts(m, s, completed[s][i])
LivesRight ==
  /\ life \in [AgingMatches -> Lives]
  /\ \A m \in AgingMatches : LifeRight(life[m], ticks)

AgeInv ==
  /\ ticks \in Nat /\ maxTracked \in Nat \ {0}
  /\ LivesRight
  /\ LinesRight(open) /\ closed \in Seq(AgingMatches) /\ forgotten \in SUBSET AgingMatches
  /\ MatchesPlaced
  /\ LinesAgree
  /\ DurationsHaveCause

LEMMA AgeConstants ==
  /\ IsFiniteSet(AgingMatches) /\ None \notin Nat
  /\ CompletedWindow \in Nat /\ MinSamples \in Nat \ {0} /\ MAX_CLOSED_IDS \in Nat \ {0}
  /\ Threshold \in [Age!Segments -> Nat] /\ TrackLimits \subseteq Nat \ {0}
<1>1. Age!IsFiniteSet(AgingMatches) = IsFiniteSet(AgingMatches)
  BY DEF Age!IsFiniteSet, IsFiniteSet
<1> QED BY <1>1, ServicesAssumption DEF Age!AgeAssumption

LEMMA AgeFilters ==
  ASSUME NEW s, NEW kept PROVE Age!Filtered(s, kept) = Filtered(s, kept)
<1>1. \A S : Age!Cardinality(S) = Cardinality(S)
  BY DEF Age!Cardinality, Cardinality, Age!IsFiniteSet, IsFiniteSet
<1>2. \A i : Age!Place(kept, i) = Place(kept, i)
  BY <1>1 DEF Age!Place, Place
<1> QED BY <1>1, <1>2 DEF Age!Filtered, Filtered

\* A match is tracked by one of the first Len places.
LEMMA TrackedIs ==
  ASSUME NEW lines \in Seq(Line), NEW m
  PROVE  Age!Tracked(lines, m) <=> \E i \in 1 .. Len(lines) : lines[i].match = m
<1>1. DOMAIN lines = 1 .. Len(lines)
  BY LenProperties
<1> QED BY <1>1 DEF Age!Tracked

\* Room is made by dropping timelines.
LEMMA RoomRight ==
  ASSUME LinesRight(open), maxTracked \in Nat \ {0}, NEW lines, LinesRight(lines),
         NEW r, r = Age!MadeRoom(lines)
  PROVE  LinesRight(r) /\ \A i \in 1 .. Len(r) : \E j \in 1 .. Len(lines) : r[i] = lines[j]
<1>1. lines \in Seq(Line) /\ Len(lines) \in Nat /\ \A i \in 1 .. Len(lines) : lines[i] \in Line
  BY LenProperties, ElementOfSeq DEF LinesRight
<1>2. CASE Len(lines) < maxTracked
  BY <1>2 DEF Age!MadeRoom
<1>3. CASE ~ (Len(lines) < maxTracked)
  <2>1. PICK n \in Nat : n = Len(lines)
    BY <1>1
  <2>2. PICK k \in 1 .. n + 1 : k = n - maxTracked + 2
    <3>1. n - maxTracked + 2 \in 1 .. n + 1
      BY <1>3, <2>1
    <3> QED BY <3>1
  <2>3. r = SubSeq(lines, k, n)
    BY <1>3, <2>1, <2>2 DEF Age!MadeRoom
  <2>4. r \in Seq(Line) /\ Len(r) = n - k + 1 /\ \A i \in 1 .. n - k + 1 : r[i] = lines[k + i - 1]
    BY <1>1, <2>1, <2>2, <2>3, SubSeqProperties
  <2>5. \A i \in 1 .. n - k + 1 : k + i - 1 \in 1 .. n
    BY <2>1, <2>2
  <2>6. ASSUME NEW i \in 1 .. Len(r), NEW j \in 1 .. Len(r), r[i].match = r[j].match PROVE i = j
    <3>1. lines[k + i - 1].match = lines[k + j - 1].match
          /\ k + i - 1 \in 1 .. n /\ k + j - 1 \in 1 .. n
      BY <2>4, <2>5, <2>6
    <3>2. k + i - 1 = k + j - 1
      BY <2>1, <3>1 DEF LinesRight
    <3>3. i \in Int /\ j \in Int /\ k \in Int
      OBVIOUS
    <3> QED BY <3>2, <3>3
  <2> QED BY <2>1, <2>4, <2>5, <2>6 DEF LinesRight
<1> QED BY <1>2, <1>3

\* A timeline with a stage, which keeps its first time.
Staged(t, mark, at) == IF t[mark] = None THEN [t EXCEPT ![mark] = at] ELSE t

LEMMA StagedLine ==
  ASSUME NEW t \in Line, NEW mark \in Stages, NEW at \in Nat
  PROVE  Staged(t, mark, at) \in Line /\ Staged(t, mark, at).match = t.match
<1>1. [t EXCEPT ![mark] = at] \in Line /\ [t EXCEPT ![mark] = at].match = t.match
  BY DEF Line, Stages, Times
<1> QED BY <1>1 DEF Staged

\* recordStage: what the timelines are then.
LEMMA StageRight ==
  ASSUME LinesRight(open), maxTracked \in Nat \ {0}, NEW lines, LinesRight(lines),
         NEW m \in AgingMatches, NEW mark \in Stages, NEW at \in Nat,
         NEW r, r = Age!WithStage(lines, m, mark, at)
  PROVE  /\ LinesRight(r)
         /\ \A i \in 1 .. Len(r) : r[i].match # m => \E j \in 1 .. Len(lines) : r[i] = lines[j]
         /\ Age!Contains(closed, m) => r = lines
         /\ ~ Age!Contains(closed, m) =>
              /\ Age!Tracked(r, m)
              /\ \A i \in 1 .. Len(r) : r[i].match = m =>
                   \/ \E j \in 1 .. Len(lines) :
                        lines[j].match = m /\ r[i] = Staged(lines[j], mark, at)
                   \/ ~ Age!Tracked(lines, m) /\ r[i] = Staged(Age!Blank(m), mark, at)
<1>1. CASE Age!Contains(closed, m)
  <2>1. r = lines
    BY <1>1 DEF Age!WithStage
  <2> QED BY <1>1, <2>1
<1>2. CASE ~ Age!Contains(closed, m)
  <2> DEFINE room == IF Age!Tracked(lines, m) THEN lines
                     ELSE Append(Age!MadeRoom(lines), Age!Blank(m))
  <2>1. r = [i \in DOMAIN room |->
               IF room[i].match = m /\ room[i][mark] = None
               THEN [room[i] EXCEPT ![mark] = at] ELSE room[i]]
    BY <1>2 DEF Age!WithStage
  <2>2. Age!Blank(m) \in Line /\ Age!Blank(m).match = m
    BY DEF Age!Blank, Line, Times
  <2>3. lines \in Seq(Line)
    BY DEF LinesRight
  <2>4. /\ LinesRight(room) /\ Age!Tracked(room, m)
        /\ \A i \in 1 .. Len(room) :
             \/ \E j \in 1 .. Len(lines) : room[i] = lines[j]
             \/ ~ Age!Tracked(lines, m) /\ room[i] = Age!Blank(m)
    <3>1. CASE Age!Tracked(lines, m)
      <4>1. room = lines
        BY <3>1
      <4> HIDE DEF room
      <4> QED BY <3>1, <4>1
    <3>2. CASE ~ Age!Tracked(lines, m)
      <4>1. PICK q : q = Age!MadeRoom(lines)
        OBVIOUS
      <4>2. LinesRight(q) /\ \A i \in 1 .. Len(q) : \E j \in 1 .. Len(lines) : q[i] = lines[j]
        BY <4>1, RoomRight
      <4>3. q \in Seq(Line) /\ Len(q) \in Nat
        BY <4>2, LenProperties DEF LinesRight
      <4>4. room = Append(q, Age!Blank(m))
        BY <3>2, <4>1
      <4> HIDE DEF room
      <4>5. /\ room \in Seq(Line) /\ Len(room) = Len(q) + 1 /\ room[Len(q) + 1] = Age!Blank(m)
            /\ \A i \in 1 .. Len(q) : room[i] = q[i]
        BY <2>2, <4>3, <4>4, AppendProperties
      <4>6. \A i \in 1 .. Len(q) : q[i].match # m
        BY <2>3, <3>2, <4>2, TrackedIs
      <4>7. \A i \in 1 .. Len(room) : i = Len(q) + 1 \/ i \in 1 .. Len(q)
        BY <4>3, <4>5
      <4>8. ASSUME NEW i \in 1 .. Len(room), NEW j \in 1 .. Len(room), room[i].match = room[j].match
            PROVE  i = j
        <5>1. CASE i = Len(q) + 1 \/ j = Len(q) + 1
          BY <2>2, <4>5, <4>6, <4>7, <4>8, <5>1
        <5>2. CASE i \in 1 .. Len(q) /\ j \in 1 .. Len(q)
          BY <4>2, <4>5, <4>8, <5>2 DEF LinesRight
        <5> QED BY <4>7, <5>1, <5>2
      <4>9. Len(q) + 1 \in 1 .. Len(room)
        BY <4>3, <4>5
      <4>10. Age!Tracked(room, m)
        BY <2>2, <4>5, <4>9, TrackedIs
      <4>11. ASSUME NEW i \in 1 .. Len(room)
             PROVE  (\E j \in 1 .. Len(lines) : room[i] = lines[j]) \/ room[i] = Age!Blank(m)
        BY <4>2, <4>5, <4>7
      <4> QED BY <3>2, <4>5, <4>8, <4>10, <4>11 DEF LinesRight
    <3> QED BY <3>1, <3>2
  <2>5. room \in Seq(Line) /\ DOMAIN room = 1 .. Len(room) /\ Len(room) \in Nat
        /\ \A i \in 1 .. Len(room) : room[i] \in Line
    <3> HIDE DEF room
    <3> QED BY <2>4, LenProperties, ElementOfSeq DEF LinesRight
  <2> HIDE DEF room
  <2>6. r = [i \in 1 .. Len(room) |->
               IF room[i].match = m THEN Staged(room[i], mark, at) ELSE room[i]]
    BY <2>1, <2>5 DEF Staged
  <2>7. \A i \in 1 .. Len(room) : r[i] \in Line /\ r[i].match = room[i].match
        /\ r[i] = IF room[i].match = m THEN Staged(room[i], mark, at) ELSE room[i]
    BY <2>5, <2>6, StagedLine
  <2>8. r \in Seq(Line) /\ Len(r) = Len(room)
    BY <2>5, <2>6, <2>7
  <2>9. LinesRight(r)
    BY <2>4, <2>7, <2>8 DEF LinesRight
  <2>10. Age!Tracked(r, m)
    <3>1. PICK i \in 1 .. Len(room) : room[i].match = m
      BY <2>4, <2>5, TrackedIs
    <3> QED BY <2>7, <2>8, <3>1, TrackedIs
  <2>11. ASSUME NEW i \in 1 .. Len(r), r[i].match # m PROVE \E j \in 1 .. Len(lines) : r[i] = lines[j]
    BY <2>2, <2>4, <2>7, <2>8, <2>11
  <2>12. ASSUME NEW i \in 1 .. Len(r), r[i].match = m
         PROVE  \/ \E j \in 1 .. Len(lines) :
                     lines[j].match = m /\ r[i] = Staged(lines[j], mark, at)
                \/ ~ Age!Tracked(lines, m) /\ r[i] = Staged(Age!Blank(m), mark, at)
    <3>1. room[i].match = m /\ r[i] = Staged(room[i], mark, at) /\ i \in 1 .. Len(room)
      BY <2>7, <2>8, <2>12
    <3> QED BY <2>4, <3>1
  <2> QED BY <1>2, <2>9, <2>10, <2>11, <2>12
<1> QED BY <1>1, <1>2

\* A percentile of durations is one of them.
LEMMA PercentileIsValue ==
  ASSUME NEW values \in Seq(Int), Len(values) # 0
  PROVE  \E i \in 1 .. Len(values) : Age!percentile(values, 95) = values[i]
<1> DEFINE n == Len(values)
           atMost(v) == Age!Cardinality({i \in DOMAIN values : values[i] <= v})
           S == Age!ToSet(values)
           high == {v \in S : 100 * atMost(v) >= 95 * Len(values)}
<1>1. n \in Nat \ {0} /\ DOMAIN values = 1 .. n /\ \A i \in 1 .. n : values[i] \in Int
  BY LenProperties, ElementOfSeq
<1>2. S = {values[i] : i \in 1 .. n}
  BY <1>1 DEF Age!ToSet
<1>3. IsFiniteSet(S) /\ S \subseteq Int /\ S # {}
  <2>1. S \subseteq Int
    BY <1>1, <1>2
  <2>2. values[1] \in S
    BY <1>1, <1>2
  <2>3. values \in Surjection(1 .. n, S)
    <3>1. values \in [1 .. n -> S]
      BY <1>1, <1>2
    <3> HIDE DEF S
    <3>2. \A v \in S : \E i \in 1 .. n : values[i] = v
      BY <1>2
    <3> QED BY <3>1, <3>2 DEF Surjection
  <2>4. IsFiniteSet(1 .. n)
    BY <1>1, FS_Interval
  <2> HIDE DEF S
  <2>5. IsFiniteSet(S)
    BY <2>3, <2>4, FS_Surjection
  <2> QED BY <2>1, <2>2, <2>5
<1>4. PICK x \in S : \A y \in S : y <= x
  <2> HIDE DEF S
  <2> QED BY <1>3, LeastAndGreatest
<1>5. x \in high
  <2>1. {i \in DOMAIN values : values[i] <= x} = 1 .. n
    BY <1>1, <1>2, <1>4
  <2>2. Cardinality(1 .. n) = n
    BY <1>1, FS_Interval
  <2>3. atMost(x) = n
    <3>1. Age!Cardinality(1 .. n) = Cardinality(1 .. n)
      BY DEF Age!Cardinality, Cardinality, Age!IsFiniteSet, IsFiniteSet
    <3> QED BY <2>1, <2>2, <3>1
  <2> HIDE DEF S, atMost
  <2> QED BY <1>1, <1>4, <2>3
<1>6. high \subseteq S /\ IsFiniteSet(high) /\ high \subseteq Int /\ high # {}
  <2>1. high \subseteq S
    OBVIOUS
  <2> HIDE DEF high, S
  <2> QED BY <1>3, <1>5, <2>1, FS_Subset
<1>7. \E y \in high : \A z \in high : y <= z
  <2> HIDE DEF high
  <2> QED BY <1>6, LeastAndGreatest
<1>8. Age!percentile(values, 95) = CHOOSE y \in high : \A z \in high : y <= z
  BY DEF Age!percentile, Age!Min
<1>9. Age!percentile(values, 95) \in S
  <2> HIDE DEF high, S
  <2> QED BY <1>6, <1>7, <1>8
<1> QED BY <1>2, <1>9

\* The matches that are polled, and what syncing up to the i-th of them has done to the timelines.
Running == {m \in AgingMatches : life[m].phase = "polling"}
SyncedTo(lines, jobs, i) ==
  /\ LinesRight(lines)
  /\ \A k \in 1 .. Len(lines) :
       LET m == lines[k].match IN
         /\ m \notin Running => \E j \in 1 .. Len(open) : lines[k] = open[j]
         /\ m \in Running \ forgotten => Agree(lines[k], life[m])
         /\ m \in Running \ forgotten =>
              \A h \in 1 .. i : jobs[h] = m => lines[k].activated = life[m].at["polling"]

\* One more of them.
LEMMA SyncsOne ==
  ASSUME AgeInv, NEW n \in Nat, NEW jobs \in [1 .. n -> Running], NEW i \in 1 .. n,
         NEW lines, SyncedTo(lines, jobs, i - 1),
         NEW r, r = Age!WithStage(lines, jobs[i], "activated", life[jobs[i]].at.polling)
  PROVE  SyncedTo(r, jobs, i)
<1>1. PICK m : m = jobs[i]
  OBVIOUS
<1>2. PICK l : l = life[m]
  OBVIOUS
<1>3. m \in AgingMatches /\ m \in Running /\ l.phase = "polling"
  BY <1>1, <1>2 DEF Running
<1>4. PICK at : at = l.at["polling"]
  OBVIOUS
<1>5. at \in Nat /\ l.at["finished"] = None /\ l.at["submitting"] = None /\ None \notin Nat
  <2>1. LifeRight(l, ticks) /\ ticks \in Nat
    BY <1>2, <1>3 DEF AgeInv, LivesRight
  <2>2. at \in 0 .. ticks
    BY <1>3, <1>4, <2>1 DEF LifeRight
  <2> QED BY <1>3, <2>1, <2>2, AgeConstants DEF LifeRight
<1>6. r = Age!WithStage(lines, m, "activated", at) /\ LinesRight(lines)
  BY <1>1, <1>2, <1>4 DEF SyncedTo
<1>7. LinesRight(open) /\ maxTracked \in Nat \ {0} /\ "activated" \in Stages
  BY DEF AgeInv, Stages
<1>8. /\ LinesRight(r)
      /\ \A k \in 1 .. Len(r) : r[k].match # m => \E j \in 1 .. Len(lines) : r[k] = lines[j]
      /\ ~ Age!Contains(closed, m) =>
           /\ \A k \in 1 .. Len(r) : r[k].match = m =>
                \/ \E j \in 1 .. Len(lines) :
                     lines[j].match = m /\ r[k] = Staged(lines[j], "activated", at)
                \/ r[k] = Staged(Age!Blank(m), "activated", at)
  BY <1>3, <1>5, <1>6, <1>7, StageRight
<1>9. m \notin forgotten => ~ Age!Contains(closed, m)
  BY <1>2, <1>3 DEF AgeInv, MatchesPlaced, Placed
<1>10. ASSUME NEW t \in Line, Agree(t, l)
       PROVE  Agree(Staged(t, "activated", at), l) /\ Staged(t, "activated", at).activated = at
  <2>1. CASE t.activated = None
    <3>1. Staged(t, "activated", at) = [t EXCEPT !["activated"] = at]
      BY <2>1 DEF Staged
    <3>2. [t EXCEPT !["activated"] = at].activated = at
          /\ [t EXCEPT !["activated"] = at].provider_result = t.provider_result
          /\ [t EXCEPT !["activated"] = at].submission_started = t.submission_started
      BY DEF Line
    <3> QED BY <1>4, <1>10, <3>1, <3>2 DEF Agree
  <2>2. CASE t.activated # None
    <3>1. Staged(t, "activated", at) = t
      BY <2>2 DEF Staged
    <3> QED BY <1>4, <1>10, <2>2, <3>1 DEF Agree
  <2> QED BY <2>1, <2>2
<1>11. Age!Blank(m) \in Line /\ Agree(Age!Blank(m), l)
  BY <1>3, <1>5 DEF Age!Blank, Line, Times, Agree
<1>12. lines \in Seq(Line) /\ \A j \in 1 .. Len(lines) : lines[j] \in Line
  BY <1>6, ElementOfSeq DEF LinesRight
<1>13. ASSUME NEW k \in 1 .. Len(r), r[k].match = m, m \notin forgotten
       PROVE  Agree(r[k], l) /\ r[k].activated = at
  <2>1. CASE \E j \in 1 .. Len(lines) :
                lines[j].match = m /\ r[k] = Staged(lines[j], "activated", at)
    <3>1. PICK j \in 1 .. Len(lines) :
             lines[j].match = m /\ r[k] = Staged(lines[j], "activated", at)
      BY <2>1
    <3>2. Agree(lines[j], l)
      BY <1>2, <1>3, <1>13, <3>1 DEF SyncedTo
    <3> QED BY <1>10, <1>12, <3>1, <3>2
  <2>2. CASE r[k] = Staged(Age!Blank(m), "activated", at)
    BY <1>10, <1>11, <2>2
  <2> QED BY <1>8, <1>9, <1>13, <2>1, <2>2
<1>14. ASSUME NEW k \in 1 .. Len(r), NEW p, p = r[k].match
       PROVE  /\ p \notin Running => \E j \in 1 .. Len(open) : r[k] = open[j]
              /\ p \in Running \ forgotten => Agree(r[k], life[p])
              /\ p \in Running \ forgotten =>
                   \A h \in 1 .. i : jobs[h] = p => r[k].activated = life[p].at["polling"]
  <2>1. CASE p = m
    BY <1>2, <1>3, <1>4, <1>13, <1>14, <2>1
  <2>2. CASE p # m
    <3>1. PICK j \in 1 .. Len(lines) : r[k] = lines[j]
      BY <1>8, <1>14, <2>2
    <3>2. \A h \in 1 .. i : jobs[h] = p => h \in 1 .. (i - 1)
      <4>1. \A h \in 1 .. i : h = i \/ h \in 1 .. (i - 1)
        OBVIOUS
      <4> QED BY <1>1, <2>2, <4>1
    <3>3. lines[j].match = p
      BY <1>14, <3>1
    <3> QED BY <3>1, <3>2, <3>3 DEF SyncedTo
  <2> QED BY <2>1, <2>2
<1> QED BY <1>8, <1>14 DEF SyncedTo

\* Each match that is polled is one of the jobs.
LEMMA JobsCover ==
  ASSUME AgeInv, NEW jobs \in Age!JobOrders
  PROVE  /\ Len(jobs) \in Nat /\ jobs \in [1 .. Len(jobs) -> Running]
         /\ \A m \in Running : \E h \in 1 .. Len(jobs) : jobs[h] = m
<1>1. Age!Polled = Running
  BY DEF Age!Polled, Running
<1>2. IsFiniteSet(Running)
  <2>1. Running \subseteq AgingMatches
    BY DEF Running
  <2> QED BY <2>1, AgeConstants, FS_Subset
<1>3. PICK n \in Nat : n = Cardinality(Running)
  BY <1>2, FS_CardinalityType
<1>4. Age!Cardinality(Age!Polled) = n
  BY <1>1, <1>3 DEF Age!Cardinality, Cardinality, Age!IsFiniteSet, IsFiniteSet
<1>5. /\ jobs \in [1 .. n -> Running]
      /\ \A i, j \in DOMAIN jobs : i < j => jobs[i] # jobs[j]
  BY <1>1, <1>4 DEF Age!JobOrders
<1>6. Len(jobs) = n /\ DOMAIN jobs = 1 .. n
  BY <1>5
<1>7. ASSUME NEW i \in 1 .. n, NEW j \in 1 .. n, jobs[i] = jobs[j] PROVE i = j
  <2>1. i < j \/ j < i \/ i = j
    OBVIOUS
  <2> QED BY <1>5, <1>6, <1>7, <2>1
<1>8. jobs \in Injection(1 .. n, Running)
  BY <1>5, <1>7 DEF Injection, IsInjective
<1>9. IsFiniteSet(1 .. n) /\ Cardinality(1 .. n) = n
  BY <1>3, FS_Interval
<1>10. jobs \in Surjection(1 .. n, Running)
  BY <1>2, <1>3, <1>8, <1>9, FS_Injection
<1> QED BY <1>5, <1>6, <1>10 DEF Surjection

\* The recursion of Synced.
Syncs(g, jobs) ==
  g = [i \in 0 .. Len(jobs) |->
         IF i = 0 THEN open
         ELSE Age!WithStage(g[i - 1], jobs[i], "activated", life[jobs[i]].at.polling)]

\* syncActivations.
LEMMA SyncedRight ==
  ASSUME AgeInv, NEW jobs \in Age!JobOrders, NEW r, r = Age!Synced(jobs)
  PROVE  SyncedTo(r, jobs, Len(jobs))
<1> DEFINE n == Len(jobs)
           X == {l \in Seq(Line) : LinesRight(l)}
           next(i, l) == Age!WithStage(l, jobs[i], "activated", life[jobs[i]].at.polling)
           step == [i \in 1 .. n |-> [l \in X |-> next(i, l)]]
<1>1. n \in Nat /\ jobs \in [1 .. n -> Running]
  BY JobsCover
<1>2. open \in X
  BY DEF AgeInv, LinesRight
<1>3. ASSUME NEW i \in 1 .. n, NEW l \in X PROVE next(i, l) \in X
  <2>1. jobs[i] \in AgingMatches /\ life[jobs[i]].phase = "polling"
    BY <1>1 DEF Running
  <2>2. PICK at : at = life[jobs[i]].at["polling"]
    OBVIOUS
  <2>3. at \in Nat
    <3>1. LifeRight(life[jobs[i]], ticks) /\ ticks \in Nat
      BY <2>1 DEF AgeInv, LivesRight
    <3>2. at \in 0 .. ticks
      BY <2>1, <2>2, <3>1 DEF LifeRight
    <3> QED BY <3>1, <3>2
  <2>4. PICK q : q = next(i, l)
    OBVIOUS
  <2>5. q = Age!WithStage(l, jobs[i], "activated", at)
    BY <2>2, <2>4
  <2>6. LinesRight(open) /\ maxTracked \in Nat \ {0} /\ "activated" \in Stages
    BY DEF AgeInv, Stages
  <2>7. LinesRight(l)
    OBVIOUS
  <2>8. LinesRight(q)
    BY <2>1, <2>3, <2>5, <2>6, <2>7, StageRight
  <2> HIDE DEF next
  <2> QED BY <2>4, <2>8 DEF LinesRight
<1>4. step \in [1 .. n -> [X -> X]]
  <2> HIDE DEF next, X
  <2> QED BY <1>3
<1>5. PICK g \in [0 .. n -> X] : Iterates(g, open, step, n)
  <2> HIDE DEF step, X
  <2> QED BY <1>1, <1>2, <1>4, IterationExists
<1>6. Syncs(g, jobs)
  <2>1. g[0] = open
    BY <1>5 DEF Iterates
  <2>2. ASSUME NEW i \in 1 .. n PROVE g[i] = next(i, g[i - 1])
    <3>1. i - 1 \in 0 .. n
      BY <1>1
    <3>2. g[i - 1] \in X
      BY <1>5, <3>1
    <3>3. g[i] = step[i][g[i - 1]]
      BY <1>5 DEF Iterates
    <3> HIDE DEF X, next
    <3> QED BY <3>2, <3>3
  <2>3. ASSUME NEW i \in 0 .. n PROVE g[i] = IF i = 0 THEN open ELSE next(i, g[i - 1])
    <3>1. i = 0 \/ i \in 1 .. n
      BY <1>1
    <3> HIDE DEF next
    <3> QED BY <2>1, <2>2, <3>1
  <2>4. g = [i \in 0 .. n |-> g[i]]
    BY <1>5
  <2>5. g = [i \in 0 .. n |-> IF i = 0 THEN open ELSE next(i, g[i - 1])]
    <3> HIDE DEF next, X
    <3> QED BY <2>3, <2>4
  <2> QED BY <2>5 DEF Syncs
<1>7. PICK a : a = CHOOSE f : Syncs(f, jobs)
  OBVIOUS
<1>8. Syncs(a, jobs)
  BY <1>6, <1>7
<1>9. r = a[n]
  BY <1>7 DEF Age!Synced, Syncs
<1>10. /\ a[0] = open
       /\ \A i \in 1 .. n : a[i] = next(i, a[i - 1])
  <2>1. \A i \in 0 .. n : a[i] = IF i = 0 THEN open ELSE next(i, a[i - 1])
    BY <1>8 DEF Syncs
  <2>2. 0 \in 0 .. n /\ \A i \in 1 .. n : i \in 0 .. n /\ i # 0
    BY <1>1
  <2> HIDE DEF next
  <2> QED BY <2>1, <2>2
<1> DEFINE Bad == {i \in 0 .. n : ~ SyncedTo(a[i], jobs, i)}
<1>11. ASSUME Bad # {} PROVE FALSE
  <2>1. PICK i \in Bad : \A j \in Bad : i <= j
    <3>1. Bad \subseteq Nat
      BY <1>1
    <3> HIDE DEF Bad
    <3> QED BY <1>11, <3>1, LeastNat
  <2>2. i \in 0 .. n /\ ~ SyncedTo(a[i], jobs, i)
    BY <2>1
  <2>3. CASE i = 0
    <3>1. LinesRight(open)
      BY DEF AgeInv
    <3>2. ASSUME NEW k \in 1 .. Len(open), open[k].match \in Running \ forgotten
          PROVE  Agree(open[k], life[open[k].match])
      BY <3>2 DEF AgeInv, LinesAgree
    <3>3. \A h \in 1 .. 0 : FALSE
      OBVIOUS
    <3>4. SyncedTo(open, jobs, 0)
      BY <3>1, <3>2, <3>3 DEF SyncedTo
    <3> QED BY <1>10, <2>2, <2>3, <3>4
  <2>4. CASE i # 0
    <3>1. i \in 1 .. n /\ i - 1 \in 0 .. n /\ i - 1 < i
      BY <1>1, <2>2, <2>4
    <3>2. i - 1 \notin Bad
      BY <1>1, <2>1, <2>2, <3>1
    <3>3. SyncedTo(a[i - 1], jobs, i - 1)
      BY <3>1, <3>2
    <3>4. PICK lines : lines = a[i - 1]
      OBVIOUS
    <3>5. PICK q : q = a[i]
      OBVIOUS
    <3>6. q = Age!WithStage(lines, jobs[i], "activated", life[jobs[i]].at.polling)
      BY <1>10, <3>1, <3>4, <3>5
    <3>7. SyncedTo(lines, jobs, i - 1)
      BY <3>3, <3>4
    <3>8. SyncedTo(q, jobs, i)
      BY <1>1, <3>1, <3>6, <3>7, SyncsOne
    <3> QED BY <2>2, <3>5, <3>8
  <2> QED BY <2>3, <2>4
<1>12. n \in 0 .. n
  BY <1>1
<1>13. SyncedTo(a[n], jobs, n)
  BY <1>11, <1>12
<1> QED BY <1>9, <1>13

\* What the timelines are when the publisher has synced them.
LinesAreRight(lines, forgot) ==
  /\ LinesRight(lines)
  /\ \A k \in 1 .. Len(lines) :
       LET m == lines[k].match IN
         m \notin forgot => /\ Agree(lines[k], life[m])
                            /\ m \in Running => lines[k].activated = life[m].at["polling"]
                            /\ m \notin Running => \E j \in 1 .. Len(open) : lines[k] = open[j]
  /\ \A m \in AgingMatches \ forgot :
       /\ m \in Running => Age!Tracked(lines, m)
       /\ m \notin Running => (Age!Tracked(lines, m) <=> Age!Tracked(open, m))

LEMMA PublishLines ==
  ASSUME AgeInv, Age!Publish
  PROVE  LinesAreRight(open', forgotten') /\ forgotten \subseteq forgotten'
         /\ forgotten' \in SUBSET AgingMatches
<1>1. PICK jobs \in Age!JobOrders : open' = Age!Synced(jobs)
  BY DEF Age!Publish
<1>2. PICK lines : lines = open'
  OBVIOUS
<1>3. PICK forgot : forgot = forgotten'
  OBVIOUS
<1>4. PICK n : n = Len(jobs)
  OBVIOUS
<1>5. SyncedTo(lines, jobs, n)
  BY <1>1, <1>2, <1>4, SyncedRight
<1>6. \A m \in Running : \E h \in 1 .. n : jobs[h] = m
  BY <1>1, <1>4, JobsCover
<1>7. forgot = forgotten \cup Age!Evicted(open, lines)
                \cup {m \in Age!Polled : ~ Age!Tracked(lines, m)}
  BY <1>2, <1>3 DEF Age!Publish
<1>8. Age!Polled = Running
  BY DEF Age!Polled, Running
<1>9. /\ forgotten \subseteq forgot
      /\ \A m \in AgingMatches : Age!Tracked(open, m) /\ ~ Age!Tracked(lines, m) => m \in forgot
      /\ \A m \in Running : ~ Age!Tracked(lines, m) => m \in forgot
  BY <1>7, <1>8 DEF Age!Evicted
<1>10. forgot \in SUBSET AgingMatches
  BY <1>7, <1>8 DEF Age!Evicted, Running, AgeInv
<1>11. lines \in Seq(Line) /\ open \in Seq(Line) /\ LinesRight(lines)
  BY <1>5 DEF AgeInv, SyncedTo, LinesRight
<1>12. ASSUME NEW k \in 1 .. Len(lines), NEW m, m = lines[k].match, m \notin forgot
       PROVE  /\ Agree(lines[k], life[m])
              /\ m \in Running => lines[k].activated = life[m].at["polling"]
              /\ m \notin Running => \E j \in 1 .. Len(open) : lines[k] = open[j]
  <2>1. m \notin forgotten
    BY <1>9, <1>12
  <2>2. CASE m \in Running
    BY <1>5, <1>6, <1>12, <2>1, <2>2 DEF SyncedTo
  <2>3. CASE m \notin Running
    <3>1. PICK j \in 1 .. Len(open) : lines[k] = open[j]
      BY <1>5, <1>12, <2>3 DEF SyncedTo
    <3>2. Agree(open[j], life[m])
      BY <1>12, <2>1, <3>1 DEF AgeInv, LinesAgree
    <3> QED BY <2>3, <3>1, <3>2
  <2> QED BY <2>2, <2>3
<1>13. ASSUME NEW m \in AgingMatches \ forgot
       PROVE  /\ m \in Running => Age!Tracked(lines, m)
              /\ m \notin Running => (Age!Tracked(lines, m) <=> Age!Tracked(open, m))
  <2>1. ASSUME m \notin Running, Age!Tracked(lines, m) PROVE Age!Tracked(open, m)
    <3>1. PICK k \in 1 .. Len(lines) : lines[k].match = m
      BY <1>11, <2>1, TrackedIs
    <3>2. PICK j \in 1 .. Len(open) : lines[k] = open[j]
      BY <1>12, <1>13, <2>1, <3>1
    <3> QED BY <1>11, <3>1, <3>2, TrackedIs
  <2> QED BY <1>9, <1>13, <2>1
<1> QED BY <1>2, <1>3, <1>9, <1>10, <1>11, <1>12, <1>13 DEF LinesAreRight

\* The publisher keeps the books right.
LEMMA PublishKeeps ==
  ASSUME AgeInv, Age!Publish
  PROVE  AgeInv'
<1>1. LinesAreRight(open', forgotten') /\ forgotten \subseteq forgotten'
      /\ forgotten' \in SUBSET AgingMatches
  BY PublishLines
<1>2. /\ ticks' = ticks /\ maxTracked' = maxTracked /\ closed' = closed
      /\ completed' = completed /\ life' = life
  BY DEF Age!Publish
<1>3. LinesRight(open')
  BY <1>1 DEF LinesAreRight
<1>4. MatchesPlaced'
  <2>1. ASSUME NEW m \in AgingMatches, m \notin forgotten'
        PROVE  Placed(life[m].phase, Age!Tracked(open', m), Age!Contains(closed, m))
    <3>1. Placed(life[m].phase, Age!Tracked(open, m), Age!Contains(closed, m))
      BY <1>1, <2>1 DEF AgeInv, MatchesPlaced
    <3>2. CASE m \in Running
      <4>1. life[m].phase = "polling"
        BY <3>2 DEF Running
      <4> QED BY <3>1, <4>1 DEF Placed
    <3>3. CASE m \notin Running
      <4>1. Age!Tracked(open', m) <=> Age!Tracked(open, m)
        BY <1>1, <2>1, <3>3 DEF LinesAreRight
      <4> QED BY <3>1, <4>1 DEF Placed
    <3> QED BY <3>2, <3>3
  <2>2. \A m : Age!Contains(closed, m)' = Age!Contains(closed, m)
    BY <1>2 DEF Age!Contains
  <2>3. \A m : Age!Tracked(open, m)' = Age!Tracked(open', m)
    BY DEF Age!Tracked
  <2> QED BY <1>2, <2>1, <2>2, <2>3 DEF MatchesPlaced
<1>5. LinesAgree'
  BY <1>1, <1>2 DEF LinesAreRight, LinesAgree
<1>6. DurationsHaveCause'
  <2>1. ASSUME NEW s \in Age!Segments, NEW i \in 1 .. Len(completed[s])
        PROVE  \E m \in AgingMatches : Accounts(m, s, completed[s][i])'
    <3>1. PICK m \in AgingMatches : Accounts(m, s, completed[s][i])
      BY DEF AgeInv, DurationsHaveCause
    <3>2. Accounts(m, s, completed[s][i])'
      BY <1>1, <1>2, <3>1 DEF Accounts, Age!Ends
    <3> QED BY <3>2
  <2> QED BY <1>2, <2>1 DEF AgeInv, DurationsHaveCause
<1>7. LivesRight'
  BY <1>2 DEF AgeInv, LivesRight
<1> QED BY <1>1, <1>2, <1>3, <1>4, <1>5, <1>6, <1>7 DEF AgeInv

\* A timeline waits in a segment since its match does.
LEMMA WaitsTogether ==
  ASSUME NEW t \in Line, NEW l \in Lives, NEW u \in Nat, LifeRight(l, u), Agree(t, l)
  PROVE  /\ l.phase \in {"polling", "finished", "submitting"}
         /\ Age!SegmentOf[l.phase] = "provider_wait" =>
              l.phase = "polling" /\ t.provider_result = None /\ t.submission_started = None
         /\ Age!SegmentOf[l.phase] = "submission_lag" =>
              l.phase = "finished" /\ t.provider_result # None /\ t.submission_started = None
         /\ Age!SegmentOf[l.phase] = "chain_delay" =>
              l.phase = "submitting" /\ t.submission_started # None
         /\ Age!SegmentOf[l.phase] \in {"provider_wait", "submission_lag", "chain_delay"}
<1>1. None \notin Nat
  BY AgeConstants
<1>2. CASE l.phase = "polling"
  BY <1>2 DEF Agree, LifeRight, Age!SegmentOf
<1>3. CASE l.phase = "finished"
  <2>1. l.at["polling"] \in Nat /\ l.at["finished"] \in l.at["polling"] .. u
    BY <1>3 DEF LifeRight
  <2>2. l.at["finished"] # None
    BY <1>1, <2>1
  <2> QED BY <1>3, <2>2 DEF Agree, LifeRight, Age!SegmentOf
<1>4. CASE l.phase = "submitting"
  BY <1>4 DEF Agree, LifeRight, Age!SegmentOf
<1> QED BY <1>2, <1>3, <1>4 DEF Agree

\* The total of a timeline runs since its match was polled or later.
LEMMA SinceLater ==
  ASSUME NEW t \in Line, NEW l \in Lives, NEW u \in Nat, LifeRight(l, u), Agree(t, l)
  PROVE  /\ l.at["polling"] \in Nat
         /\ Age!Since(t) # None => Age!Since(t) \in Nat /\ Age!Since(t) >= l.at["polling"]
         /\ t.activated # None => Age!Since(t) = l.at["polling"] /\ Age!Since(t) # None
         /\ t.provider_result # None => t.provider_result \in Nat /\ t.provider_result >= l.at["polling"]
         /\ t.submission_started # None =>
              /\ t.submission_started \in Nat /\ t.submission_started >= l.at["polling"]
              /\ t.provider_result # None /\ t.submission_started >= t.provider_result
<1>1. None \notin Nat
  BY AgeConstants
<1>2. l.at["polling"] \in Nat
  BY DEF LifeRight, Agree
<1>3. t.provider_result # None => l.at["finished"] \in l.at["polling"] .. u
  BY DEF LifeRight, Agree
<1>4. t.submission_started # None =>
        /\ l.at["submitting"] \in l.at["finished"] .. u
        /\ l.at["finished"] \in l.at["polling"] .. u
  <2>1. l.phase # "submitting" => l.at["submitting"] = None
    BY DEF LifeRight, Agree
  <2> QED BY <2>1 DEF LifeRight, Agree
<1>5. t.provider_result # None => t.provider_result \in Nat /\ t.provider_result >= l.at["polling"]
  <2>1. t.provider_result = l.at["finished"]
    BY DEF Agree
  <2> QED BY <1>2, <1>3, <2>1
<1>6. t.submission_started # None =>
        /\ t.submission_started \in Nat /\ t.submission_started >= l.at["polling"]
        /\ t.provider_result # None /\ t.submission_started >= t.provider_result
  <2>1. t.submission_started = l.at["submitting"] /\ t.provider_result = l.at["finished"]
    BY DEF Agree
  <2> QED BY <1>1, <1>2, <1>4, <2>1
<1>7. t.activated # None => t.activated = l.at["polling"]
  BY DEF Agree
<1> QED BY <1>1, <1>2, <1>5, <1>6, <1>7 DEF Age!Since

\* What the publisher says of the open matches.
LEMMA StuckIsTrue ==
  ASSUME AgeInv, NEW lines, NEW forgot, LinesAreRight(lines, forgot),
         forgotten \subseteq forgot, NEW s \in Age!Segments
  PROVE  /\ \A m \in AgingMatches \ forgot :
              /\ Age!WaitsTooLong(m, s)
              /\ s = "total" => \E i \in DOMAIN open : open[i].match = m /\ open[i].activated # None
              => s \in Age!Stuck(lines)
         /\ s \in Age!Stuck(lines) => \E m \in AgingMatches : Age!WaitsTooLong(m, s) \/ m \in forgot
<1>1. lines \in Seq(Line) /\ open \in Seq(Line) /\ LinesRight(open)
  BY DEF AgeInv, LinesAreRight, LinesRight
<1>2. DOMAIN lines = 1 .. Len(lines) /\ DOMAIN open = 1 .. Len(open)
      /\ (\A k \in 1 .. Len(lines) : lines[k] \in Line)
      /\ (\A k \in 1 .. Len(open) : open[k] \in Line)
  BY <1>1, LenProperties, ElementOfSeq
<1>3. \A m \in AgingMatches : life[m] \in Lives /\ LifeRight(life[m], ticks)
  BY DEF AgeInv, LivesRight
<1>4. ticks \in Nat /\ None \notin Nat /\ Threshold[s] \in Nat
  BY AgeConstants DEF AgeInv
<1>5. s \in {"provider_wait", "submission_lag", "chain_delay", "total"}
  BY DEF Age!Segments
<1>6. ASSUME NEW m \in AgingMatches \ forgot, Age!WaitsTooLong(m, s),
             s = "total" => \E i \in DOMAIN open : open[i].match = m /\ open[i].activated # None
      PROVE  s \in Age!Stuck(lines)
  <2>1. PICK l \in Lives : l = life[m] /\ LifeRight(l, ticks)
    BY <1>3
  <2>2. /\ l.phase \in {"polling", "finished", "submitting"}
        /\ \/ s = Age!SegmentOf[l.phase] /\ ticks - l.at[l.phase] > Threshold[s]
           \/ s = "total" /\ ticks - l.at["polling"] > Threshold[s]
    BY <1>6, <2>1 DEF Age!WaitsTooLong, Age!Waits, Age!SegmentOf, Age!TooLong
  <2>3. Age!Tracked(lines, m)
    <3>1. CASE m \in Running
      BY <1>6, <3>1 DEF LinesAreRight
    <3>2. CASE m \notin Running
      <4>1. l.phase \in {"finished", "submitting"} /\ m \notin forgotten
        BY <1>6, <2>1, <2>2, <3>2 DEF Running
      <4>2. Age!Tracked(open, m)
        BY <2>1, <4>1 DEF AgeInv, MatchesPlaced, Placed
      <4> QED BY <1>6, <3>2, <4>2 DEF LinesAreRight
    <3> QED BY <3>1, <3>2
  <2>4. PICK k \in 1 .. Len(lines) : lines[k].match = m
    BY <1>1, <2>3, TrackedIs
  <2>5. PICK t \in Line : t = lines[k]
    BY <1>2
  <2>6. /\ Agree(t, l)
        /\ m \in Running => t.activated = l.at["polling"]
        /\ m \notin Running => \E j \in 1 .. Len(open) : t = open[j]
    BY <1>6, <2>1, <2>4, <2>5 DEF LinesAreRight
  <2>7. /\ Age!SegmentOf[l.phase] = "provider_wait" =>
              l.phase = "polling" /\ t.provider_result = None /\ t.submission_started = None
        /\ Age!SegmentOf[l.phase] = "submission_lag" =>
              l.phase = "finished" /\ t.provider_result # None /\ t.submission_started = None
        /\ Age!SegmentOf[l.phase] = "chain_delay" =>
              l.phase = "submitting" /\ t.submission_started # None
        /\ Age!SegmentOf[l.phase] \in {"provider_wait", "submission_lag", "chain_delay"}
    BY <1>4, <2>1, <2>6, WaitsTogether
  <2>8. /\ l.at["polling"] \in Nat
        /\ t.activated # None => Age!Since(t) = l.at["polling"] /\ Age!Since(t) # None
    BY <1>4, <2>1, <2>6, SinceLater
  <2>9. Age!WaitsSince(t, s) # None /\ ticks - Age!WaitsSince(t, s) > Threshold[s]
    <3>1. CASE s = "total"
      <4>1. t.activated # None
        <5>1. CASE m \in Running
          BY <1>4, <2>6, <2>8, <5>1
        <5>2. CASE m \notin Running
          <6>1. PICK j \in 1 .. Len(open) : t = open[j]
            BY <2>6, <5>2
          <6>2. PICK i \in 1 .. Len(open) : open[i].match = m /\ open[i].activated # None
            BY <1>2, <1>6, <3>1
          <6>3. i = j
            BY <1>1, <2>4, <2>5, <6>1, <6>2 DEF LinesRight
          <6> QED BY <6>1, <6>2, <6>3
        <5> QED BY <5>1, <5>2
      <4>2. Age!WaitsSince(t, s) = Age!Since(t)
        BY <3>1 DEF Age!WaitsSince
      <4>3. ticks - l.at["polling"] > Threshold[s]
        BY <2>2, <2>7, <3>1
      <4> QED BY <2>8, <4>1, <4>2, <4>3
    <3>2. CASE s # "total"
      <4>1. s = Age!SegmentOf[l.phase] /\ ticks - l.at[l.phase] > Threshold[s]
        BY <2>2, <3>2
      <4>2. CASE s = "provider_wait"
        <5>1. m \in Running
          BY <2>1, <2>7, <4>1, <4>2 DEF Running
        <5>2. Age!WaitsSince(t, s) = t.activated
          BY <2>7, <4>1, <4>2 DEF Age!WaitsSince
        <5> QED BY <1>4, <2>6, <2>7, <2>8, <4>1, <4>2, <5>1, <5>2
      <4>3. CASE s = "submission_lag"
        <5>1. Age!WaitsSince(t, s) = t.provider_result /\ t.provider_result # None
          BY <2>7, <4>1, <4>3 DEF Age!WaitsSince
        <5>2. t.provider_result = l.at["finished"] /\ l.phase = "finished"
          BY <2>6, <2>7, <4>1, <4>3 DEF Agree
        <5> QED BY <4>1, <5>1, <5>2
      <4>4. CASE s = "chain_delay"
        <5>1. Age!WaitsSince(t, s) = t.submission_started /\ t.submission_started # None
          BY <2>7, <4>1, <4>4 DEF Age!WaitsSince
        <5>2. t.submission_started = l.at["submitting"] /\ l.phase = "submitting"
          BY <2>6, <2>7, <4>1, <4>4 DEF Agree
        <5> QED BY <4>1, <5>1, <5>2
      <4> QED BY <1>5, <3>2, <4>2, <4>3, <4>4
    <3> QED BY <3>1, <3>2
  <2>10. Age!WaitsSince(lines[k], s) # None /\ Age!TooLong(ticks - Age!WaitsSince(lines[k], s), s)
    BY <2>5, <2>9 DEF Age!TooLong
  <2> QED BY <1>2, <2>10 DEF Age!Stuck
<1>7. ASSUME s \in Age!Stuck(lines), \A m \in AgingMatches : m \notin forgot
      PROVE  \E m \in AgingMatches : Age!WaitsTooLong(m, s)
  <2>1. PICK k \in 1 .. Len(lines) :
          Age!WaitsSince(lines[k], s) # None
          /\ Age!TooLong(ticks - Age!WaitsSince(lines[k], s), s)
    BY <1>2, <1>7 DEF Age!Stuck
  <2>2. PICK t \in Line : t = lines[k]
    BY <1>2
  <2>3. PICK m \in AgingMatches : m = t.match
    BY DEF Line
  <2>4. PICK l \in Lives : l = life[m] /\ LifeRight(l, ticks)
    BY <1>3
  <2>5. Agree(t, l)
    BY <1>7, <2>2, <2>3, <2>4 DEF LinesAreRight
  <2>6. PICK since : since = Age!WaitsSince(t, s)
    OBVIOUS
  <2>7. since # None /\ ticks - since > Threshold[s]
    BY <2>1, <2>2, <2>6 DEF Age!TooLong
  <2>8. l.phase \in {"polling", "finished", "submitting"}
    BY <2>5 DEF Agree
  <2>9. \/ s = Age!SegmentOf[l.phase] /\ ticks - l.at[l.phase] > Threshold[s]
        \/ s = "total" /\ ticks - l.at["polling"] > Threshold[s]
    <3>1. CASE s = "total"
      <4>1. since = Age!Since(t)
        BY <2>6, <3>1 DEF Age!WaitsSince
      <4>2. since \in Nat /\ since >= l.at["polling"] /\ l.at["polling"] \in Nat
        BY <1>4, <2>4, <2>5, <2>7, <4>1, SinceLater
      <4> QED BY <1>4, <2>7, <3>1, <4>2
    <3>2. CASE s = "chain_delay"
      <4>1. t.submission_started # None /\ since = t.submission_started
        BY <2>6, <2>7, <3>2 DEF Age!WaitsSince
      <4>2. l.at["submitting"] = since
        BY <2>5, <4>1 DEF Agree
      <4>3. l.phase = "submitting"
        BY <2>4, <2>7, <2>8, <4>2 DEF LifeRight
      <4> QED BY <2>7, <3>2, <4>2, <4>3 DEF Age!SegmentOf
    <3>3. CASE s = "submission_lag"
      <4>1. t.submission_started = None /\ t.provider_result # None /\ since = t.provider_result
        BY <2>6, <2>7, <3>3 DEF Age!WaitsSince
      <4>2. l.at["finished"] = since /\ l.at["submitting"] = None
        BY <2>5, <4>1 DEF Agree
      <4>3. l.phase = "finished"
        BY <2>4, <2>7, <2>8, <4>2 DEF LifeRight
      <4> QED BY <2>7, <3>3, <4>2, <4>3 DEF Age!SegmentOf
    <3>4. CASE s = "provider_wait"
      <4>1. t.submission_started = None /\ t.provider_result = None /\ since = t.activated
        BY <2>6, <2>7, <3>4 DEF Age!WaitsSince
      <4>2. l.at["finished"] = None /\ l.at["submitting"] = None /\ l.at["polling"] = since
        BY <2>5, <2>7, <4>1 DEF Agree
      <4>3. l.phase # "finished"
        <5>1. l.phase = "finished" => l.at["polling"] \in Nat /\ l.at["finished"] \in l.at["polling"] .. ticks
          BY <2>4 DEF LifeRight
        <5> QED BY <1>4, <4>2, <5>1
      <4>4. l.phase = "polling"
        BY <2>4, <2>8, <4>2, <4>3 DEF LifeRight
      <4> QED BY <2>7, <3>4, <4>2, <4>4 DEF Age!SegmentOf
    <3> QED BY <1>5, <3>1, <3>2, <3>3, <3>4
  <2> QED BY <2>4, <2>8, <2>9 DEF Age!WaitsTooLong, Age!Waits, Age!SegmentOf, Age!TooLong
<1> QED BY <1>6, <1>7

\* What it says of the completed ones.
LEMMA SlowIsTrue ==
  ASSUME AgeInv, NEW s \in Age!Slow
  PROVE  \E m \in AgingMatches : Age!WaitedTooLong(m, s) \/ m \in forgotten
<1>1. s \in Age!Segments /\ Len(completed[s]) >= MinSamples
      /\ Age!TooLong(Age!percentile(completed[s], 95), s)
  BY DEF Age!Slow
<1>2. completed[s] \in Seq(Int) /\ MinSamples \in Nat \ {0}
  BY <1>1, AgeConstants DEF AgeInv, DurationsHaveCause
<1>3. Len(completed[s]) # 0
  BY <1>1, <1>2
<1>4. PICK i \in 1 .. Len(completed[s]) : Age!percentile(completed[s], 95) = completed[s][i]
  BY <1>2, <1>3, PercentileIsValue
<1>5. PICK d \in Int : d = completed[s][i]
  BY <1>2, ElementOfSeq
<1>6. d > Threshold[s] /\ Threshold[s] \in Nat
  BY <1>1, <1>4, <1>5, AgeConstants DEF Age!TooLong
<1>7. PICK m \in AgingMatches : Accounts(m, s, d)
  BY <1>1, <1>5 DEF AgeInv, DurationsHaveCause
<1>8. CASE m \in forgotten
  BY <1>8
<1>9. CASE m \notin forgotten
  <2>1. PICK from, to : from = life[m].at[Age!Ends[s][1]] /\ to = life[m].at[Age!Ends[s][2]]
    OBVIOUS
  <2>2. life[m].phase = "settled" /\ from # None /\ to # None /\ to - from >= d
    BY <1>7, <1>9, <2>1 DEF Accounts
  <2>3. from \in Nat /\ to \in Nat
    <3>1. life[m].at \in [Age!Phases -> Times]
      BY DEF AgeInv, LivesRight, Lives
    <3>2. Age!Ends[s][1] \in Age!Phases /\ Age!Ends[s][2] \in Age!Phases
      BY <1>1 DEF Age!Ends, Age!Phases, Age!Segments
    <3>3. from \in Times /\ to \in Times
      BY <2>1, <3>1, <3>2
    <3> QED BY <2>2, <3>3 DEF Times
  <2>4. to - from > Threshold[s]
    BY <1>6, <2>2, <2>3
  <2>5. Age!WaitedTooLong(m, s)
    BY <2>1, <2>2, <2>4 DEF Age!WaitedTooLong, Age!TooLong
  <2> QED BY <2>5
<1> QED BY <1>8, <1>9

\* A match in its next phase.
Entered(l, phase, t) ==
  [phase |-> phase,
   at |-> IF phase \in Age!Phases /\ l.at[phase] = None THEN [l.at EXCEPT ![phase] = t] ELSE l.at]

LEMMA EntersIs ==
  ASSUME life \in [AgingMatches -> Lives], ticks \in Nat,
         NEW m \in AgingMatches, NEW phase \in LifePhases, Age!Enters(m, phase)
  PROVE  /\ life' \in [AgingMatches -> Lives]
         /\ life'[m] = Entered(life[m], phase, ticks)
         /\ \A o \in AgingMatches \ {m} : life'[o] = life[o]
<1>1. life' = [life EXCEPT ![m].phase = phase,
                 ![m].at = IF phase \in Age!Phases /\ @[phase] = None
                           THEN [@ EXCEPT ![phase] = ticks] ELSE @]
  BY DEF Age!Enters
<1>2. PICK l \in Lives : l = life[m]
  OBVIOUS
<1>3. PICK at : at = IF phase \in Age!Phases /\ l.at[phase] = None
                     THEN [l.at EXCEPT ![phase] = ticks] ELSE l.at
  OBVIOUS
<1>4. at \in [Age!Phases -> Times]
  BY <1>3 DEF Lives, Times
<1>5. PICK f : f = [life EXCEPT ![m].phase = phase]
  OBVIOUS
<1>6. f \in [AgingMatches -> Lives] /\ f[m].at = l.at /\ f[m].phase = phase
      /\ \A o \in AgingMatches \ {m} : f[o] = life[o]
  BY <1>2, <1>5 DEF Lives
<1>7. life' = [f EXCEPT ![m].at = at]
  BY <1>1, <1>2, <1>3, <1>5, <1>6
<1>8. life' \in [AgingMatches -> Lives] /\ life'[m].at = at /\ life'[m].phase = phase
      /\ \A o \in AgingMatches \ {m} : life'[o] = f[o]
  BY <1>4, <1>6, <1>7 DEF Lives
<1>9. PICK k \in Lives : k = life'[m] /\ k.at = at /\ k.phase = phase
  BY <1>8
<1>10. k = [phase |-> phase, at |-> at]
  BY <1>9 DEF Lives
<1>11. k = Entered(life[m], phase, ticks)
  BY <1>2, <1>3, <1>10 DEF Entered
<1> QED BY <1>6, <1>8, <1>9, <1>11

\* When it may, its times stay in order.
Follows(phase, next) ==
  \/ phase = "none" /\ next = "polling"
  \/ phase = "polling" /\ next \in {"finished", "timedOut"}
  \/ phase = "finished" /\ next \in {"submitting", "deadLettered"}
  \/ phase = "submitting" /\ next \in {"settled", "deadLettered"}
  \/ phase \in {"deadLettered", "settled"} /\ next = "settled"

LEMMA EnteredRight ==
  ASSUME NEW l \in Lives, NEW t \in Nat, LifeRight(l, t), NEW phase \in LifePhases,
         Follows(l.phase, phase), NEW k, k = Entered(l, phase, t)
  PROVE  /\ k \in Lives /\ LifeRight(k, t) /\ k.phase = phase
         /\ l.phase = "settled" => k = l
         /\ k.at["polling"] = IF phase = "polling" THEN t ELSE l.at["polling"]
         /\ k.at["finished"] = IF phase = "finished" THEN t ELSE l.at["finished"]
         /\ k.at["submitting"] = IF phase = "submitting" THEN t ELSE l.at["submitting"]
         /\ phase = "settled" /\ l.phase # "settled" => k.at["settled"] = t
<1>1. None \notin Nat /\ l = [phase |-> l.phase, at |-> l.at] /\ l.at \in [Age!Phases -> Times]
      /\ l.phase \in LifePhases
  BY AgeConstants DEF Lives
<1>2. k.phase = phase /\ k.at = IF phase \in Age!Phases /\ l.at[phase] = None
                                THEN [l.at EXCEPT ![phase] = t] ELSE l.at
  BY DEF Entered
<1>3. k \in Lives
  BY <1>1 DEF Entered, Lives, Times
<1>4. PICK a, p, b : a = l.at /\ p = l.phase /\ b = k.at
  OBVIOUS
<1>5. a \in [Age!Phases -> Times] /\ b = IF phase \in Age!Phases /\ a[phase] = None
                                         THEN [a EXCEPT ![phase] = t] ELSE a
  BY <1>1, <1>2, <1>4
<1>6. CASE p = "none" /\ phase = "polling"
  <2>1. b["polling"] = t /\ b["finished"] = a["finished"] /\ b["submitting"] = a["submitting"]
        /\ b["settled"] = a["settled"]
    BY <1>4, <1>5, <1>6 DEF LifeRight, Age!Phases
  <2>2. a["finished"] = None /\ a["submitting"] = None /\ a["settled"] = None
    BY <1>4, <1>6 DEF LifeRight
  <2> QED BY <1>1, <1>2, <1>3, <1>4, <1>6, <2>1, <2>2 DEF LifeRight
<1>7. CASE p = "polling" /\ phase = "finished"
  <2>1. a["polling"] \in 0 .. t /\ a["finished"] = None /\ a["submitting"] = None /\ a["settled"] = None
    BY <1>4, <1>7 DEF LifeRight
  <2>2. b["finished"] = t /\ b["polling"] = a["polling"] /\ b["submitting"] = a["submitting"]
        /\ b["settled"] = a["settled"]
    BY <1>5, <1>7, <2>1 DEF Age!Phases
  <2> QED BY <1>1, <1>2, <1>3, <1>4, <1>7, <2>1, <2>2 DEF LifeRight
<1>8. CASE p = "finished" /\ phase = "submitting"
  <2>1. a["polling"] \in 0 .. t /\ a["finished"] \in a["polling"] .. t /\ a["submitting"] = None
        /\ a["settled"] = None
    BY <1>4, <1>8 DEF LifeRight
  <2>2. b["submitting"] = t /\ b["polling"] = a["polling"] /\ b["finished"] = a["finished"]
        /\ b["settled"] = a["settled"]
    BY <1>5, <1>8, <2>1 DEF Age!Phases
  <2> QED BY <1>1, <1>2, <1>3, <1>4, <1>8, <2>1, <2>2 DEF LifeRight
<1>9. CASE phase = "settled" /\ p # "settled"
  <2>1. p \in {"submitting", "deadLettered"}
    BY <1>4, <1>9 DEF Follows
  <2>2. a["settled"] = None /\ a["polling"] \in 0 .. t /\ a["finished"] \in a["polling"] .. t
        /\ (a["submitting"] # None => a["submitting"] \in a["finished"] .. t)
    BY <1>4, <1>9, <2>1 DEF LifeRight
  <2>3. b["settled"] = t /\ b["polling"] = a["polling"] /\ b["finished"] = a["finished"]
        /\ b["submitting"] = a["submitting"]
    BY <1>5, <1>9, <2>2 DEF Age!Phases
  <2> QED BY <1>1, <1>2, <1>3, <1>4, <1>9, <2>1, <2>2, <2>3 DEF LifeRight
<1>10. CASE p = "settled" /\ phase = "settled"
  <2>1. a["settled"] # None
    BY <1>4, <1>10 DEF LifeRight
  <2>2. b = a
    BY <1>5, <1>10, <2>1
  <2>3. k = l
    <3>1. k = [phase |-> k.phase, at |-> k.at]
      BY DEF Entered
    <3>2. k.phase = l.phase /\ k.at = l.at
      BY <1>2, <1>4, <1>10, <2>2
    <3> QED BY <1>1, <3>1, <3>2
  <2> QED BY <1>1, <1>3, <1>4, <1>10, <2>3
<1>11. CASE phase \in {"timedOut", "deadLettered"}
  <2>1. b = a
    BY <1>5, <1>11 DEF Age!Phases
  <2>2. p \in {"polling", "finished", "submitting"} /\ (phase = "timedOut" => p = "polling")
        /\ (phase = "deadLettered" => p # "polling")
    BY <1>4, <1>11 DEF Follows
  <2> QED BY <1>1, <1>2, <1>3, <1>4, <1>11, <2>1, <2>2 DEF LifeRight
<1> QED BY <1>4, <1>6, <1>7, <1>8, <1>9, <1>10, <1>11 DEF Follows

\* Of one step, what happens to the lives.
LEMMA LifeGoesOn ==
  ASSUME AgeInv, NEW m \in AgingMatches, NEW phase \in LifePhases,
         Follows(life[m].phase, phase), Age!Enters(m, phase), ticks' = ticks
  PROVE  /\ LivesRight'
         /\ life'[m] = Entered(life[m], phase, ticks)
         /\ \A o \in AgingMatches \ {m} : life'[o] = life[o]
         /\ life[m].phase = "settled" => life'[m] = life[m]
<1>1. life \in [AgingMatches -> Lives] /\ ticks \in Nat
      /\ \A o \in AgingMatches : LifeRight(life[o], ticks)
  BY DEF AgeInv, LivesRight
<1>2. /\ life' \in [AgingMatches -> Lives]
      /\ life'[m] = Entered(life[m], phase, ticks)
      /\ \A o \in AgingMatches \ {m} : life'[o] = life[o]
  BY <1>1, EntersIs
<1>3. LifeRight(life'[m], ticks) /\ (life[m].phase = "settled" => life'[m] = life[m])
  <2>1. PICK l \in Lives : l = life[m] /\ LifeRight(l, ticks) /\ Follows(l.phase, phase)
    BY <1>1
  <2>2. PICK k : k = life'[m] /\ k = Entered(l, phase, ticks)
    BY <1>2, <2>1
  <2>3. LifeRight(k, ticks) /\ (l.phase = "settled" => k = l)
    BY <1>1, <2>1, <2>2, EnteredRight
  <2> QED BY <2>1, <2>2, <2>3
<1>4. \A o \in AgingMatches : LifeRight(life'[o], ticks)
  BY <1>1, <1>2, <1>3
<1> QED BY <1>2, <1>3, <1>4 DEF LivesRight

\* Only matches that have settled account for durations, and they stay as they are.
LEMMA AccountsStay ==
  ASSUME forgotten \subseteq forgotten', NEW m, life[m].phase = "settled" => life'[m] = life[m],
         NEW s, NEW d, Accounts(m, s, d)
  PROVE  Accounts(m, s, d)'
<1>1. CASE m \in forgotten
  BY <1>1 DEF Accounts
<1>2. CASE m \notin forgotten
  <2>1. life'[m] = life[m]
    BY <1>2 DEF Accounts
  <2> QED BY <1>2, <2>1 DEF Accounts, Age!Ends
<1> QED BY <1>1, <1>2

LEMMA DurationsStay ==
  ASSUME AgeInv, forgotten \subseteq forgotten', completed' = completed,
         \A o \in AgingMatches : life[o].phase = "settled" => life'[o] = life[o]
  PROVE  DurationsHaveCause'
<1>1. ASSUME NEW s \in Age!Segments, NEW i \in 1 .. Len(completed[s])
      PROVE  \E m \in AgingMatches : Accounts(m, s, completed[s][i])'
  <2>1. PICK d : d = completed[s][i] /\ d = completed'[s][i]
    OBVIOUS
  <2>2. PICK m \in AgingMatches : Accounts(m, s, d)
    BY <2>1 DEF AgeInv, DurationsHaveCause
  <2>3. Accounts(m, s, d)'
    BY <2>2, AccountsStay
  <2> QED BY <2>1, <2>2, <2>3 DEF Accounts
<1> QED BY <1>1 DEF AgeInv, DurationsHaveCause

\* recordStage keeps the books right when the match enters the phase of the stage.
LEMMA RecordKeeps ==
  ASSUME AgeInv, NEW m \in AgingMatches, NEW mark \in Stages, Age!RecordStage(m, mark),
         ticks' = ticks, maxTracked' = maxTracked, LivesRight',
         \A o \in AgingMatches \ {m} : life'[o] = life[o],
         \/ life'[m] = life[m] /\ life[m].phase \in {"settled", "deadLettered"}
         \/ /\ life[m].phase \in {"polling", "finished", "submitting"}
            /\ life'[m].phase \in {"finished", "submitting"},
         \A t \in Line : Agree(t, life[m]) => Agree(Staged(t, mark, ticks), life'[m]),
         life[m].phase = "polling" => Agree(Staged(Age!Blank(m), mark, ticks), life'[m])
  PROVE  AgeInv'
<1>1. PICK r : r = open'
  OBVIOUS
<1>2. PICK forgot : forgot = forgotten'
  OBVIOUS
<1>3. r = Age!WithStage(open, m, mark, ticks) /\ forgot = forgotten \cup Age!Evicted(open, r)
      /\ closed' = closed /\ completed' = completed
  BY <1>1, <1>2 DEF Age!RecordStage
<1>4. LinesRight(open) /\ maxTracked \in Nat \ {0} /\ ticks \in Nat
      /\ closed \in Seq(AgingMatches) /\ forgotten \in SUBSET AgingMatches
  BY DEF AgeInv
<1>5. /\ LinesRight(r)
      /\ \A i \in 1 .. Len(r) : r[i].match # m => \E j \in 1 .. Len(open) : r[i] = open[j]
      /\ Age!Contains(closed, m) => r = open
      /\ ~ Age!Contains(closed, m) =>
           /\ Age!Tracked(r, m)
           /\ \A i \in 1 .. Len(r) : r[i].match = m =>
                \/ \E j \in 1 .. Len(open) :
                     open[j].match = m /\ r[i] = Staged(open[j], mark, ticks)
                \/ ~ Age!Tracked(open, m) /\ r[i] = Staged(Age!Blank(m), mark, ticks)
  BY <1>3, <1>4, StageRight
<1>6. r \in Seq(Line) /\ open \in Seq(Line) /\ \A j \in 1 .. Len(open) : open[j] \in Line
  <2>1. r \in Seq(Line) /\ open \in Seq(Line)
    BY <1>4, <1>5 DEF LinesRight
  <2> QED BY <2>1, ElementOfSeq
<1>7. forgotten \subseteq forgot /\ forgot \in SUBSET AgingMatches
      /\ \A o \in AgingMatches \ forgot : Age!Tracked(open, o) => Age!Tracked(r, o)
  BY <1>3, <1>4 DEF Age!Evicted
<1>8. m \notin forgotten => Placed(life[m].phase, Age!Tracked(open, m), Age!Contains(closed, m))
  BY DEF AgeInv, MatchesPlaced
<1>9. ASSUME NEW o \in AgingMatches \ forgot
      PROVE  Placed(life'[o].phase, Age!Tracked(r, o), Age!Contains(closed, o))
  <2>1. CASE o # m
    <3>1. Age!Tracked(r, o) => Age!Tracked(open, o)
      <4>1. SUFFICES ASSUME Age!Tracked(r, o) PROVE Age!Tracked(open, o)
        OBVIOUS
      <4>2. PICK i \in 1 .. Len(r) : r[i].match = o
        BY <1>6, <4>1, TrackedIs
      <4>3. PICK j \in 1 .. Len(open) : r[i] = open[j]
        BY <1>5, <2>1, <4>2
      <4> QED BY <1>6, <4>2, <4>3, TrackedIs
    <3>2. Age!Tracked(r, o) <=> Age!Tracked(open, o)
      BY <1>7, <3>1
    <3>3. Placed(life[o].phase, Age!Tracked(open, o), Age!Contains(closed, o)) /\ life'[o] = life[o]
      BY <1>7, <2>1 DEF AgeInv, MatchesPlaced
    <3> QED BY <3>2, <3>3 DEF Placed
  <2>2. CASE o = m
    <3>1. m \notin forgotten
      BY <1>7, <2>2
    <3>2. CASE Age!Contains(closed, m)
      <4>1. r = open /\ life[m].phase \notin {"polling", "finished", "submitting"}
        BY <1>5, <1>8, <3>1, <3>2 DEF Placed
      <4> QED BY <1>8, <2>2, <3>1, <4>1
    <3>3. CASE ~ Age!Contains(closed, m)
      <4>1. Age!Tracked(r, m) /\ life[m].phase \notin {"settled", "deadLettered"}
        BY <1>5, <1>8, <3>1, <3>3 DEF Placed
      <4>2. life'[m].phase \in {"finished", "submitting"}
        BY <4>1
      <4> QED BY <2>2, <3>3, <4>1, <4>2 DEF Placed
    <3> QED BY <3>2, <3>3
  <2> QED BY <2>1, <2>2
<1>10. ASSUME NEW i \in 1 .. Len(r), NEW o, o = r[i].match, o \notin forgot
       PROVE  Agree(r[i], life'[o])
  <2>0. r[i] \in Line /\ o \in AgingMatches
    <3>1. r[i] \in Line
      BY <1>6, ElementOfSeq
    <3> QED BY <1>10, <3>1 DEF Line
  <2>1. CASE o # m
    <3>1. PICK j \in 1 .. Len(open) : r[i] = open[j]
      BY <1>5, <1>10, <2>1
    <3>2. Agree(open[j], life[o])
      BY <1>7, <1>10, <3>1 DEF AgeInv, LinesAgree
    <3> QED BY <2>0, <2>1, <3>1, <3>2
  <2>2. CASE o = m
    <3>1. m \notin forgotten
      BY <1>7, <1>10, <2>2
    <3>2. CASE Age!Contains(closed, m)
      <4>1. r = open
        BY <1>5, <3>2
      <4>2. Agree(open[i], life[m])
        BY <1>10, <2>2, <3>1, <4>1 DEF AgeInv, LinesAgree
      <4> QED BY <1>8, <3>1, <3>2, <4>2 DEF Placed, Agree
    <3>3. CASE ~ Age!Contains(closed, m)
      <4>1. CASE \E j \in 1 .. Len(open) :
                   open[j].match = m /\ r[i] = Staged(open[j], mark, ticks)
        <5>1. PICK j \in 1 .. Len(open) :
                open[j].match = m /\ r[i] = Staged(open[j], mark, ticks)
          BY <4>1
        <5>2. Agree(open[j], life[m]) /\ open[j] \in Line
          BY <1>6, <3>1, <5>1 DEF AgeInv, LinesAgree
        <5> QED BY <2>2, <5>1, <5>2
      <4>2. CASE ~ Age!Tracked(open, m) /\ r[i] = Staged(Age!Blank(m), mark, ticks)
        <5>1. life[m].phase = "polling"
          BY <1>8, <3>1, <3>3, <4>2 DEF Placed
        <5> QED BY <2>2, <4>2, <5>1
      <4> QED BY <1>5, <1>10, <2>2, <3>3, <4>1, <4>2
    <3> QED BY <3>2, <3>3
  <2> QED BY <2>1, <2>2
<1>11. MatchesPlaced'
  <2>1. \A o : Age!Contains(closed, o)' = Age!Contains(closed, o)
    BY <1>3 DEF Age!Contains
  <2>2. \A o : Age!Tracked(open, o)' = Age!Tracked(r, o)
    BY <1>1 DEF Age!Tracked
  <2> QED BY <1>2, <1>9, <2>1, <2>2 DEF MatchesPlaced
<1>12. LinesAgree'
  BY <1>1, <1>2, <1>10 DEF LinesAgree
<1>13. DurationsHaveCause'
  <2>1. \A o \in AgingMatches : life[o].phase = "settled" => life'[o] = life[o]
    OBVIOUS
  <2> QED BY <1>2, <1>3, <1>7, <2>1, DurationsStay
<1> QED BY <1>1, <1>2, <1>3, <1>4, <1>5, <1>7, <1>11, <1>12, <1>13 DEF AgeInv

\* The ids that are closed when one more is.
LEMMA ClosedIds ==
  ASSUME closed \in Seq(AgingMatches), NEW m \in AgingMatches,
         NEW ids, ids = Append(closed, m),
         NEW c, c = IF Len(ids) > MAX_CLOSED_IDS THEN Tail(ids) ELSE ids
  PROVE  /\ c \in Seq(AgingMatches) /\ Age!Contains(c, m)
         /\ \A o \in AgingMatches : Age!Contains(c, o) => o = m \/ Age!Contains(closed, o)
         /\ \A o \in AgingMatches :
              Age!Contains(closed, o) /\ ~ Age!Contains(c, o)
                => o \in Age!ToSet(ids) \ Age!ToSet(c)
<1>1. PICK n \in Nat : n = Len(closed)
  BY LenProperties
<1>2. /\ ids \in Seq(AgingMatches) /\ Len(ids) = n + 1 /\ ids[n + 1] = m
      /\ \A i \in 1 .. n : ids[i] = closed[i]
  BY <1>1, AppendProperties
<1>3. DOMAIN ids = 1 .. n + 1
  BY <1>2, LenProperties
<1>4. \E k \in {0, 1} : /\ c \in Seq(AgingMatches) /\ Len(c) = n + 1 - k
                        /\ \A i \in 1 .. n + 1 - k : c[i] = ids[i + k]
                        /\ k = 1 => n + 1 > MAX_CLOSED_IDS
  <2>1. CASE Len(ids) > MAX_CLOSED_IDS
    <3>1. ids # << >>
      BY <1>2
    <3>2. c = Tail(ids) /\ c \in Seq(AgingMatches) /\ Len(c) = Len(ids) - 1
          /\ \A i \in 1 .. Len(c) : c[i] = ids[i + 1]
      BY <1>2, <2>1, <3>1, HeadTailProperties
    <3> QED BY <1>2, <2>1, <3>2
  <2>2. CASE ~ (Len(ids) > MAX_CLOSED_IDS)
    <3>1. c = ids
      BY <2>2
    <3> QED BY <1>2, <3>1
  <2> QED BY <2>1, <2>2
<1>5. PICK k \in {0, 1} : /\ c \in Seq(AgingMatches) /\ Len(c) = n + 1 - k
                          /\ \A i \in 1 .. n + 1 - k : c[i] = ids[i + k]
                          /\ k = 1 => n + 1 > MAX_CLOSED_IDS
  BY <1>4
<1>6. n + 1 - k \in 1 .. n + 1 - k
  BY <1>1, <1>5, AgeConstants
<1>7. Age!Contains(c, m)
  <2>1. c[n + 1 - k] = ids[n + 1]
    BY <1>1, <1>5, <1>6
  <2> QED BY <1>2, <1>5, <1>6, <2>1 DEF Age!Contains
<1>8. ASSUME NEW o \in AgingMatches, Age!Contains(c, o) PROVE o = m \/ Age!Contains(closed, o)
  <2>1. PICK i \in 1 .. n + 1 - k : c[i] = o
    BY <1>5, <1>8 DEF Age!Contains
  <2>2. ids[i + k] = o /\ (i + k = n + 1 \/ i + k \in 1 .. n)
    BY <1>1, <1>5, <2>1
  <2>3. i + k \in 1 .. n => closed[i + k] = o
    BY <1>2, <2>2
  <2> QED BY <1>1, <1>2, <2>2, <2>3 DEF Age!Contains
<1>9. ASSUME NEW o \in AgingMatches, Age!Contains(closed, o), ~ Age!Contains(c, o)
      PROVE  o \in Age!ToSet(ids) \ Age!ToSet(c)
  <2>1. PICK i \in 1 .. n : closed[i] = o
    BY <1>1, <1>9 DEF Age!Contains
  <2>2. i \in DOMAIN ids /\ ids[i] = o
    BY <1>1, <1>2, <1>3, <2>1
  <2>3. DOMAIN c = 1 .. Len(c)
    BY <1>5, LenProperties
  <2> QED BY <1>9, <2>2, <2>3 DEF Age!ToSet, Age!Contains
<1> QED BY <1>5, <1>7, <1>8, <1>9

\* complete and abandon keep the books right.
LEMMA ClosingKeeps ==
  ASSUME AgeInv, NEW m \in AgingMatches, NEW room, LinesRight(room),
         \A i \in 1 .. Len(room) : \E j \in 1 .. Len(open) : room[i] = open[j],
         Age!Finish(m, room), ticks' = ticks, maxTracked' = maxTracked, LivesRight',
         \A o \in AgingMatches \ {m} : life'[o] = life[o],
         life'[m].phase \in {"settled", "timedOut", "deadLettered"}, DurationsHaveCause'
  PROVE  AgeInv'
<1> DEFINE kept == {i \in DOMAIN room : room[i].match # m}
           ids == Append(closed, m)
<1>1. PICK r, c, forgot : r = open' /\ c = closed' /\ forgot = forgotten'
  OBVIOUS
<1>2. /\ r = Age!Filtered(room, kept)
      /\ c = IF Len(ids) > MAX_CLOSED_IDS THEN Tail(ids) ELSE ids
      /\ forgot = forgotten \cup (Age!Evicted(open, room) \ {m})
                            \cup (Age!ToSet(ids) \ Age!ToSet(c))
  BY <1>1 DEF Age!Finish
<1>3. closed \in Seq(AgingMatches) /\ forgotten \in SUBSET AgingMatches
      /\ open \in Seq(Line) /\ room \in Seq(Line)
  BY DEF AgeInv, LinesRight
<1>4. /\ c \in Seq(AgingMatches) /\ Age!Contains(c, m)
      /\ \A o \in AgingMatches : Age!Contains(c, o) => o = m \/ Age!Contains(closed, o)
      /\ \A o \in AgingMatches :
           Age!Contains(closed, o) /\ ~ Age!Contains(c, o)
             => o \in Age!ToSet(ids) \ Age!ToSet(c)
  <2> HIDE DEF kept
  <2> QED BY <1>2, <1>3, ClosedIds
<1>5. r = Filtered(room, kept) /\ kept \in SUBSET DOMAIN room
  BY <1>2, AgeFilters
<1>6. /\ r \in Seq(Line) /\ Len(r) \in Nat
      /\ \A i \in 1 .. Len(r) : Place(kept, i) \in kept /\ r[i] = room[Place(kept, i)]
      /\ \A i, j \in 1 .. Len(r) : Place(kept, i) = Place(kept, j) => i = j
      /\ \A k \in kept : \E i \in 1 .. Len(r) : Place(kept, i) = k /\ r[i] = room[k]
  <2> HIDE DEF kept
  <2> QED BY <1>3, <1>5, FilterKeeps
<1>7. DOMAIN room = 1 .. Len(room)
  BY <1>3, LenProperties
<1>8. ASSUME NEW i \in 1 .. Len(r)
      PROVE  /\ r[i].match # m /\ Place(kept, i) \in 1 .. Len(room)
             /\ \E j \in 1 .. Len(open) : r[i] = open[j]
  <2>1. PICK k \in kept : k = Place(kept, i) /\ r[i] = room[k]
    <3> HIDE DEF kept
    <3> QED BY <1>6
  <2>2. k \in 1 .. Len(room) /\ room[k].match # m
    BY <1>7
  <2> HIDE DEF kept
  <2> QED BY <2>1, <2>2
<1>9. LinesRight(r)
  <2>1. ASSUME NEW i \in 1 .. Len(r), NEW j \in 1 .. Len(r), r[i].match = r[j].match PROVE i = j
    <3>1. Place(kept, i) = Place(kept, j)
      <4>1. PICK a \in 1 .. Len(room) : a = Place(kept, i)
        BY <1>8
      <4>2. PICK b \in 1 .. Len(room) : b = Place(kept, j)
        BY <1>8
      <4>3. room[a].match = room[b].match
        BY <1>6, <2>1, <4>1, <4>2
      <4> QED BY <4>1, <4>2, <4>3 DEF LinesRight
    <3> QED BY <1>6, <3>1
  <2> QED BY <1>6, <2>1 DEF LinesRight
<1>10. \A o \in AgingMatches \ {m} : Age!Tracked(r, o) <=> Age!Tracked(room, o)
  <2>1. ASSUME NEW o \in AgingMatches \ {m}, Age!Tracked(r, o) PROVE Age!Tracked(room, o)
    <3>1. PICK i \in 1 .. Len(r) : r[i].match = o
      BY <1>6, <2>1, TrackedIs
    <3>2. PICK a \in 1 .. Len(room) : r[i] = room[a]
      BY <1>6, <1>8
    <3> QED BY <1>3, <3>1, <3>2, TrackedIs
  <2>2. ASSUME NEW o \in AgingMatches \ {m}, Age!Tracked(room, o) PROVE Age!Tracked(r, o)
    <3>1. PICK a \in 1 .. Len(room) : room[a].match = o
      BY <1>3, <2>2, TrackedIs
    <3>2. a \in kept
      BY <1>7, <2>2, <3>1
    <3>3. PICK i \in 1 .. Len(r) : r[i] = room[a]
      BY <1>6, <3>2
    <3> QED BY <1>6, <3>1, <3>3, TrackedIs
  <2> QED BY <2>1, <2>2
<1>11. ASSUME NEW o \in AgingMatches, Age!Tracked(room, o) PROVE Age!Tracked(open, o)
  <2>1. PICK a \in 1 .. Len(room) : room[a].match = o
    BY <1>3, <1>11, TrackedIs
  <2> QED BY <1>3, <2>1, TrackedIs
<1>12. forgotten \subseteq forgot
  BY <1>2
<1>13. forgot \in SUBSET AgingMatches
  <2>1. ASSUME NEW o \in Age!ToSet(ids) PROVE o \in AgingMatches
    <3>1. ids \in Seq(AgingMatches)
      BY <1>3, AppendProperties
    <3> HIDE DEF ids
    <3>2. PICK i \in 1 .. Len(ids) : ids[i] = o
      BY <2>1, <3>1, LenProperties DEF Age!ToSet
    <3> QED BY <3>1, <3>2, ElementOfSeq
  <2> HIDE DEF ids
  <2> QED BY <1>2, <1>3, <2>1 DEF Age!Evicted
<1> HIDE DEF ids, kept
<1>14. ASSUME NEW o \in AgingMatches \ forgot
       PROVE  Placed(life'[o].phase, Age!Tracked(r, o), Age!Contains(c, o))
  <2>1. CASE o = m
    <3>1. ~ Age!Tracked(r, m)
      BY <1>6, <1>8, TrackedIs
    <3> QED BY <1>4, <2>1, <3>1 DEF Placed
  <2>2. CASE o # m
    <3>1. Age!Tracked(r, o) <=> Age!Tracked(open, o)
      <4>1. Age!Tracked(open, o) => Age!Tracked(room, o)
        BY <1>2, <1>14, <2>2 DEF Age!Evicted
      <4> QED BY <1>10, <1>11, <1>14, <2>2, <4>1
    <3>2. Age!Contains(c, o) <=> Age!Contains(closed, o)
      BY <1>2, <1>4, <1>14, <2>2
    <3>3. Placed(life[o].phase, Age!Tracked(open, o), Age!Contains(closed, o)) /\ life'[o] = life[o]
      BY <1>12, <1>14, <2>2 DEF AgeInv, MatchesPlaced
    <3> QED BY <3>1, <3>2, <3>3 DEF Placed
  <2> QED BY <2>1, <2>2
<1>15. ASSUME NEW i \in 1 .. Len(r), NEW o, o = r[i].match, o \notin forgot
       PROVE  Agree(r[i], life'[o])
  <2>1. PICK j \in 1 .. Len(open) : r[i] = open[j]
    BY <1>8
  <2>2. o \in AgingMatches /\ o # m
    <3>1. r[i] \in Line
      BY <1>6, ElementOfSeq
    <3> QED BY <1>8, <1>15, <3>1 DEF Line
  <2>3. Agree(open[j], life[o])
    BY <1>12, <1>15, <2>1 DEF AgeInv, LinesAgree
  <2> QED BY <2>1, <2>2, <2>3
<1>16. MatchesPlaced'
  <2>1. \A o : Age!Contains(closed, o)' = Age!Contains(c, o)
    BY <1>1 DEF Age!Contains
  <2>2. \A o : Age!Tracked(open, o)' = Age!Tracked(r, o)
    BY <1>1 DEF Age!Tracked
  <2> QED BY <1>1, <1>14, <2>1, <2>2 DEF MatchesPlaced
<1>17. LinesAgree'
  BY <1>1, <1>15 DEF LinesAgree
<1> QED BY <1>1, <1>4, <1>9, <1>13, <1>16, <1>17 DEF AgeInv

\* The durations of a match that is confirmed are those it took.
LEMMA DurationsAreTrue ==
  ASSUME AgeInv, NEW m \in AgingMatches, NEW t \in Line,
         m \notin forgotten => Agree(t, life[m]), life[m].phase \in {"submitting", "deadLettered", "settled"},
         life'[m] = Entered(life[m], "settled", ticks), forgotten \subseteq forgotten',
         NEW s \in Age!Segments, NEW q, q = Age!Durations(t)[s]
  PROVE  /\ q \in Seq(Int) /\ Len(q) \in {0, 1}
         /\ \A i \in 1 .. Len(q) : Accounts(m, s, q[i])'
<1>1. ticks \in Nat /\ None \notin Nat
  BY AgeConstants DEF AgeInv
<1>2. PICK a \in Times : a = t.activated
  BY DEF Line
<1>3. PICK p \in Times : p = t.provider_result
  BY DEF Line
<1>4. PICK u \in Times : u = t.submission_started
  BY DEF Line
<1>5. PICK w : w = Age!Since(t)
  OBVIOUS
<1>6. w \in Times
  BY <1>2, <1>3, <1>4, <1>5 DEF Age!Since
<1>7. PICK from, to : /\ from \in Times /\ to \in Times
                      /\ q = IF None \in {from, to} THEN << >> ELSE <<to - from>>
                      /\ s = "provider_wait" => from = a /\ to = p
                      /\ s = "submission_lag" => from = p /\ to = u
                      /\ s = "chain_delay" => from = u /\ to = ticks
                      /\ s = "total" => from = w /\ to = ticks
  <2>1. ticks \in Times
    BY <1>1 DEF Times
  <2>2. CASE s = "provider_wait"
    <3>1. q = IF None \in {a, p} THEN << >> ELSE <<p - a>>
      BY <1>2, <1>3, <2>2 DEF Age!Durations
    <3> QED BY <2>2, <3>1
  <2>3. CASE s = "submission_lag"
    <3>1. q = IF None \in {p, u} THEN << >> ELSE <<u - p>>
      BY <1>3, <1>4, <2>3 DEF Age!Durations
    <3> QED BY <2>3, <3>1
  <2>4. CASE s = "chain_delay"
    <3>1. q = IF None \in {u, ticks} THEN << >> ELSE <<ticks - u>>
      BY <1>4, <2>4 DEF Age!Durations
    <3> QED BY <2>1, <2>4, <3>1
  <2>5. CASE s = "total"
    <3>1. q = IF None \in {w, ticks} THEN << >> ELSE <<ticks - w>>
      BY <1>5, <2>5 DEF Age!Durations
    <3> QED BY <1>6, <2>1, <2>5, <3>1
  <2> QED BY <2>2, <2>3, <2>4, <2>5 DEF Age!Segments
<1>8. CASE from = None \/ to = None
  <2>1. q = << >>
    BY <1>7, <1>8
  <2> QED BY <2>1
<1>9. CASE from # None /\ to # None
  <2>1. from \in Nat /\ to \in Nat
    BY <1>7, <1>9 DEF Times
  <2>2. q = <<to - from>>
    BY <1>7, <1>9
  <2>3. q \in Seq(Int) /\ Len(q) = 1 /\ q[1] = to - from
    BY <2>1, <2>2
  <2>4. Accounts(m, s, to - from)'
    <3>1. CASE m \in forgotten
      BY <3>1 DEF Accounts
    <3>2. CASE m \notin forgotten
      <4>1. PICK l \in Lives : l = life[m] /\ LifeRight(l, ticks)
        BY DEF AgeInv, LivesRight
      <4>2. Agree(t, l) /\ l.phase = "submitting"
        <5>1. Agree(t, l)
          BY <3>2, <4>1
        <5> QED BY <4>1, <5>1 DEF Agree
      <4>3. PICK k : k = life'[m]
        OBVIOUS
      <4>4. k = Entered(l, "settled", ticks)
        BY <4>1, <4>3
      <4>5. /\ k.phase = "settled" /\ k.at["settled"] = ticks
            /\ k.at["polling"] = l.at["polling"] /\ k.at["finished"] = l.at["finished"]
            /\ k.at["submitting"] = l.at["submitting"]
        BY <1>1, <4>1, <4>2, <4>4, EnteredRight DEF Follows, LifePhases
      <4>6. /\ l.at["polling"] \in Nat
            /\ w # None => w \in Nat /\ w >= l.at["polling"]
        BY <1>1, <1>5, <4>1, <4>2, SinceLater
      <4>7. /\ a # None => a = l.at["polling"]
            /\ p = l.at["finished"] /\ u = l.at["submitting"]
        BY <1>2, <1>3, <1>4, <4>2 DEF Agree
      <4>8. PICK x, y : x = k.at[Age!Ends[s][1]] /\ y = k.at[Age!Ends[s][2]]
        OBVIOUS
      <4>9. x # None /\ y # None /\ y - x >= to - from
        <5>1. CASE s = "provider_wait"
          BY <1>7, <1>9, <2>1, <4>5, <4>7, <4>8, <5>1 DEF Age!Ends
        <5>2. CASE s = "submission_lag"
          BY <1>7, <1>9, <2>1, <4>5, <4>7, <4>8, <5>2 DEF Age!Ends
        <5>3. CASE s = "chain_delay"
          BY <1>7, <1>9, <2>1, <4>5, <4>7, <4>8, <5>3 DEF Age!Ends
        <5>4. CASE s = "total"
          <6>1. x = l.at["polling"] /\ y = ticks
            BY <4>5, <4>8, <5>4 DEF Age!Ends
          <6>2. from \in Nat /\ from >= l.at["polling"] /\ to = ticks
            BY <1>7, <1>9, <4>6, <5>4
          <6> QED BY <1>1, <4>6, <6>1, <6>2
        <5> QED BY <5>1, <5>2, <5>3, <5>4 DEF Age!Segments
      <4> QED BY <4>3, <4>5, <4>8, <4>9 DEF Accounts, Age!Ends
    <3> QED BY <3>1, <3>2
  <2> QED BY <2>3, <2>4
<1> QED BY <1>8, <1>9

\* complete keeps the durations of the last matches.
LEMMA WithDurationsRight ==
  ASSUME AgeInv, NEW m \in AgingMatches, NEW t \in Line,
         m \notin forgotten => Agree(t, life[m]), life[m].phase \in {"submitting", "deadLettered", "settled"},
         life'[m] = Entered(life[m], "settled", ticks), forgotten \subseteq forgotten',
         \A o \in AgingMatches : life[o].phase = "settled" => life'[o] = life[o],
         completed' = Age!WithDurations(t)
  PROVE  DurationsHaveCause'
<1>1. ASSUME NEW s \in Age!Segments, NEW r, r = Age!WithDurations(t)[s]
      PROVE  r \in Seq(Int) /\ \A i \in 1 .. Len(r) : \E o \in AgingMatches : Accounts(o, s, r[i])'
  <2>1. PICK b \in Seq(Int) : b = completed[s]
    BY DEF AgeInv, DurationsHaveCause
  <2>2. PICK q : q = Age!Durations(t)[s]
    OBVIOUS
  <2>3. /\ q \in Seq(Int) /\ Len(q) \in {0, 1}
        /\ \A i \in 1 .. Len(q) : Accounts(m, s, q[i])'
    BY <2>2, DurationsAreTrue
  <2>4. PICK f : f = b \o q
    OBVIOUS
  <2>5. /\ f \in Seq(Int) /\ Len(b) \in Nat /\ Len(f) = Len(b) + Len(q)
        /\ \A i \in 1 .. Len(f) :
             f[i] = IF i <= Len(b) THEN b[i] ELSE q[i - Len(b)]
    BY <2>3, <2>4, ConcatProperties, LenProperties
  <2>6. ASSUME NEW i \in 1 .. Len(f) PROVE \E o \in AgingMatches : Accounts(o, s, f[i])'
    <3>1. PICK d : d = f[i]
      OBVIOUS
    <3>2. CASE i <= Len(b)
      <4>1. i \in 1 .. Len(b) /\ d = b[i]
        BY <2>3, <2>5, <3>1, <3>2
      <4>2. PICK o \in AgingMatches : Accounts(o, s, d)
        BY <2>1, <4>1 DEF AgeInv, DurationsHaveCause
      <4>3. Accounts(o, s, d)'
        BY <4>2, AccountsStay
      <4> QED BY <3>1, <4>3
    <3>3. CASE ~ (i <= Len(b))
      <4>1. i - Len(b) \in 1 .. Len(q) /\ d = q[i - Len(b)]
        BY <2>3, <2>5, <3>1, <3>3
      <4> QED BY <2>3, <3>1, <4>1
    <3> QED BY <3>2, <3>3
  <2>7. r = IF Len(f) > CompletedWindow THEN Tail(f) ELSE f
    <3>1. r = IF Len(completed[s] \o Age!Durations(t)[s]) > CompletedWindow
              THEN Tail(completed[s] \o Age!Durations(t)[s])
              ELSE completed[s] \o Age!Durations(t)[s]
      BY <1>1 DEF Age!WithDurations
    <3> QED BY <2>1, <2>2, <2>4, <3>1
  <2>8. CASE Len(f) > CompletedWindow
    <3>1. f # << >>
      BY <2>8, AgeConstants
    <3>2. r \in Seq(Int) /\ Len(r) = Len(f) - 1 /\ \A i \in 1 .. Len(r) : r[i] = f[i + 1]
      BY <2>5, <2>7, <2>8, <3>1, HeadTailProperties
    <3>3. ASSUME NEW i \in 1 .. Len(r) PROVE \E o \in AgingMatches : Accounts(o, s, r[i])'
      <4>1. i + 1 \in 1 .. Len(f) /\ r[i] = f[i + 1]
        BY <2>3, <2>5, <3>2
      <4> QED BY <2>6, <4>1
    <3> QED BY <3>2, <3>3
  <2>9. CASE ~ (Len(f) > CompletedWindow)
    <3>1. r = f
      BY <2>7, <2>9
    <3> QED BY <2>5, <2>6, <3>1
  <2> QED BY <2>8, <2>9
<1>2. completed' = [s \in Age!Segments |-> Age!WithDurations(t)[s]]
  BY DEF Age!WithDurations
<1>3. ASSUME NEW s \in Age!Segments
      PROVE  /\ completed'[s] \in Seq(Int)
             /\ \A i \in 1 .. Len(completed'[s]) : \E o \in AgingMatches : Accounts(o, s, completed[s][i])'
  <2>1. PICK r : r = completed'[s]
    OBVIOUS
  <2>2. r = Age!WithDurations(t)[s]
    BY <2>1
  <2>3. r \in Seq(Int) /\ \A i \in 1 .. Len(r) : \E o \in AgingMatches : Accounts(o, s, r[i])'
    BY <1>1, <2>2
  <2> QED BY <2>1, <2>3 DEF Accounts
<1>4. completed' \in [Age!Segments -> Seq(Int)]
  BY <1>2, <1>3
<1> QED BY <1>3, <1>4 DEF DurationsHaveCause

LEMMA AgeInit == Age!Init => AgeInv
<1> SUFFICES ASSUME Age!Init PROVE AgeInv
  OBVIOUS
<1>1. open = << >> /\ closed = << >> /\ forgotten = {} /\ ticks = 0 /\ maxTracked \in Nat \ {0}
  BY AgeConstants DEF Age!Init
<1>2. PICK l : l = [phase |-> "none", at |-> [p \in Age!Phases |-> None]]
  OBVIOUS
<1>3. life = [m \in AgingMatches |-> l]
  BY <1>2 DEF Age!Init
<1>4. l \in Lives /\ l.phase = "none" /\ \A p \in Age!Phases : l.at[p] = None
  BY <1>2 DEF Lives, LifePhases, Times
<1>5. LifeRight(l, 0)
  BY <1>4, AgeConstants DEF LifeRight, Age!Phases
<1>6. LivesRight
  BY <1>1, <1>3, <1>4, <1>5 DEF LivesRight
<1>7. LinesRight(open) /\ LinesAgree
  BY <1>1 DEF LinesRight, LinesAgree
<1>8. MatchesPlaced
  BY <1>1, <1>3, <1>4 DEF MatchesPlaced, Placed, Age!Tracked, Age!Contains
<1>9. DurationsHaveCause
  <2>1. completed = [s \in Age!Segments |-> << >>]
    BY DEF Age!Init
  <2>2. completed \in [Age!Segments -> Seq(Int)]
    BY <2>1
  <2>3. ASSUME NEW s \in Age!Segments, NEW i \in 1 .. Len(completed[s]) PROVE FALSE
    BY <2>1
  <2> QED BY <2>2, <2>3 DEF DurationsHaveCause
<1> QED BY <1>1, <1>6, <1>7, <1>8, <1>9 DEF AgeInv

\* What a monitor that is told nothing keeps.
LEMMA MonitorStays ==
  ASSUME AgeInv, open' = open, closed' = closed, completed' = completed, forgotten' = forgotten,
         ticks' = ticks, maxTracked' = maxTracked, LivesRight', NEW m \in AgingMatches,
         \A o \in AgingMatches \ {m} : life'[o] = life[o],
         life[m].phase = "settled" => life'[m] = life[m],
         m \notin forgotten =>
           /\ Placed(life'[m].phase, Age!Tracked(open, m), Age!Contains(closed, m))
           /\ ~ Age!Tracked(open, m)
  PROVE  AgeInv'
<1>1. MatchesPlaced'
  <2>1. \A o : Age!Contains(closed, o)' = Age!Contains(closed, o)
    BY DEF Age!Contains
  <2>2. \A o : Age!Tracked(open, o)' = Age!Tracked(open, o)
    BY DEF Age!Tracked
  <2>3. ASSUME NEW o \in AgingMatches \ forgotten
        PROVE  Placed(life'[o].phase, Age!Tracked(open, o), Age!Contains(closed, o))
    <3>1. CASE o = m
      BY <3>1
    <3>2. CASE o # m
      BY <3>2 DEF AgeInv, MatchesPlaced
    <3> QED BY <3>1, <3>2
  <2> QED BY <2>1, <2>2, <2>3 DEF MatchesPlaced
<1>2. LinesAgree'
  <2>1. open \in Seq(Line)
    BY DEF AgeInv, LinesRight
  <2>2. ASSUME NEW i \in 1 .. Len(open), open[i].match \notin forgotten
        PROVE  Agree(open[i], life'[open[i].match])
    <3>1. open[i].match \in AgingMatches
      <4>1. open[i] \in Line
        BY <2>1, ElementOfSeq
      <4> QED BY <4>1 DEF Line
    <3>2. open[i].match # m
      BY <2>1, <2>2, TrackedIs
    <3>3. Agree(open[i], life[open[i].match])
      BY <2>2 DEF AgeInv, LinesAgree
    <3> QED BY <3>1, <3>2, <3>3
  <2> QED BY <2>2 DEF LinesAgree
<1>3. DurationsHaveCause'
  <2>1. \A o \in AgingMatches : life[o].phase = "settled" => life'[o] = life[o]
    OBVIOUS
  <2> QED BY <2>1, DurationsStay
<1> QED BY <1>1, <1>2, <1>3 DEF AgeInv

LEMMA CreateJobKeeps ==
  ASSUME AgeInv, NEW m \in AgingMatches, Age!CreateJob(m) PROVE AgeInv'
<1>1. /\ life[m].phase = "none" /\ Age!Enters(m, "polling")
      /\ open' = open /\ closed' = closed /\ completed' = completed /\ forgotten' = forgotten
      /\ ticks' = ticks /\ maxTracked' = maxTracked
  BY DEF Age!CreateJob, Age!monitor, Age!Others
<1>2. Follows(life[m].phase, "polling") /\ "polling" \in LifePhases
  BY <1>1 DEF Follows, LifePhases
<1>3. /\ LivesRight' /\ life'[m] = Entered(life[m], "polling", ticks)
      /\ \A o \in AgingMatches \ {m} : life'[o] = life[o]
  BY <1>1, <1>2, LifeGoesOn
<1>4. m \notin forgotten => ~ Age!Tracked(open, m) /\ ~ Age!Contains(closed, m)
  BY <1>1 DEF AgeInv, MatchesPlaced, Placed
<1>5. life'[m].phase = "polling"
  BY <1>3 DEF Entered
<1>6. m \notin forgotten => Placed(life'[m].phase, Age!Tracked(open, m), Age!Contains(closed, m))
  BY <1>4, <1>5 DEF Placed
<1> QED BY <1>1, <1>3, <1>4, <1>6, MonitorStays

LEMMA ProviderResultKeeps ==
  ASSUME AgeInv, NEW m \in AgingMatches, Age!ProviderResult(m) PROVE AgeInv'
<1>1. /\ life[m].phase = "polling" /\ Age!Enters(m, "finished")
      /\ Age!RecordStage(m, "provider_result") /\ ticks' = ticks /\ maxTracked' = maxTracked
  BY DEF Age!ProviderResult, Age!Others
<1>2. Follows(life[m].phase, "finished") /\ "finished" \in LifePhases
      /\ "provider_result" \in Stages
  BY <1>1 DEF Follows, LifePhases, Stages
<1>3. /\ LivesRight' /\ life'[m] = Entered(life[m], "finished", ticks)
      /\ \A o \in AgingMatches \ {m} : life'[o] = life[o]
  BY <1>1, <1>2, LifeGoesOn
<1>4. PICK l \in Lives : l = life[m] /\ LifeRight(l, ticks) /\ l.phase = "polling"
  BY <1>1 DEF AgeInv, LivesRight
<1>5. PICK k : k = life'[m]
  OBVIOUS
<1>6. ticks \in Nat /\ None \notin Nat
  BY AgeConstants DEF AgeInv
<1>7. /\ k.phase = "finished" /\ k.at["polling"] = l.at["polling"] /\ k.at["finished"] = ticks
      /\ k.at["submitting"] = l.at["submitting"]
  BY <1>2, <1>3, <1>4, <1>5, <1>6, EnteredRight
<1>8. l.at["finished"] = None /\ l.at["submitting"] = None
  BY <1>4 DEF LifeRight
<1>9. ASSUME NEW t \in Line, t.activated \in {None, l.at["polling"]},
             t.provider_result = None, t.submission_started = None
      PROVE  Agree(Staged(t, "provider_result", ticks), k)
  <2>1. Staged(t, "provider_result", ticks) = [t EXCEPT !["provider_result"] = ticks]
    BY <1>9 DEF Staged
  <2>2. [t EXCEPT !["provider_result"] = ticks].activated = t.activated
        /\ [t EXCEPT !["provider_result"] = ticks].provider_result = ticks
        /\ [t EXCEPT !["provider_result"] = ticks].submission_started = t.submission_started
    BY DEF Line
  <2> QED BY <1>7, <1>8, <1>9, <2>1, <2>2 DEF Agree
<1>10. \A t \in Line : Agree(t, life[m]) => Agree(Staged(t, "provider_result", ticks), life'[m])
  <2>1. ASSUME NEW t \in Line, Agree(t, l)
        PROVE  Agree(Staged(t, "provider_result", ticks), k)
    BY <1>8, <1>9, <2>1 DEF Agree
  <2> QED BY <1>4, <1>5, <2>1
<1>11. Agree(Staged(Age!Blank(m), "provider_result", ticks), life'[m])
  BY <1>5, <1>9 DEF Age!Blank, Line, Times
<1>12. life'[m].phase = "finished"
  BY <1>5, <1>7
<1> QED BY <1>1, <1>2, <1>3, <1>10, <1>11, <1>12, RecordKeeps

LEMMA StartSubmissionKeeps ==
  ASSUME AgeInv, NEW m \in AgingMatches, Age!StartSubmission(m) PROVE AgeInv'
<1>1. /\ Age!RecordStage(m, "submission_started") /\ ticks' = ticks /\ maxTracked' = maxTracked
      /\ \/ life[m].phase = "finished" /\ Age!Enters(m, "submitting")
         \/ life[m].phase \in {"submitting", "settled", "deadLettered"} /\ life' = life
  BY DEF Age!StartSubmission, Age!Others
<1>2. "submission_started" \in Stages /\ ticks \in Nat /\ None \notin Nat
  BY AgeConstants DEF Stages, AgeInv
<1>3. PICK l \in Lives : l = life[m] /\ LifeRight(l, ticks)
  BY DEF AgeInv, LivesRight
<1>4. CASE l.phase = "finished" /\ Age!Enters(m, "submitting")
  <2>1. Follows(l.phase, "submitting") /\ "submitting" \in LifePhases
    BY <1>4 DEF Follows, LifePhases
  <2>2. /\ LivesRight' /\ life'[m] = Entered(life[m], "submitting", ticks)
        /\ \A o \in AgingMatches \ {m} : life'[o] = life[o]
    BY <1>1, <1>3, <1>4, <2>1, LifeGoesOn
  <2>3. PICK k : k = life'[m]
    OBVIOUS
  <2>4. /\ k.phase = "submitting" /\ k.at["polling"] = l.at["polling"]
        /\ k.at["finished"] = l.at["finished"] /\ k.at["submitting"] = ticks
    BY <1>2, <1>3, <2>1, <2>2, <2>3, EnteredRight
  <2>5. l.at["submitting"] = None
    BY <1>3, <1>4 DEF LifeRight
  <2>6. ASSUME NEW t \in Line, Agree(t, l)
        PROVE  Agree(Staged(t, "submission_started", ticks), k)
    <3>1. Staged(t, "submission_started", ticks) = [t EXCEPT !["submission_started"] = ticks]
      BY <2>5, <2>6 DEF Staged, Agree
    <3>2. [t EXCEPT !["submission_started"] = ticks].activated = t.activated
          /\ [t EXCEPT !["submission_started"] = ticks].provider_result = t.provider_result
          /\ [t EXCEPT !["submission_started"] = ticks].submission_started = ticks
      BY DEF Line
    <3> QED BY <2>4, <2>6, <3>1, <3>2 DEF Agree
  <2>7. \A t \in Line : Agree(t, life[m]) => Agree(Staged(t, "submission_started", ticks), life'[m])
    BY <1>3, <2>3, <2>6
  <2>8. life'[m].phase = "submitting" /\ life[m].phase = "finished"
    BY <1>3, <1>4, <2>3, <2>4
  <2> QED BY <1>1, <1>2, <2>2, <2>7, <2>8, RecordKeeps
<1>5. CASE l.phase \in {"submitting", "settled", "deadLettered"} /\ life' = life
  <2>1. ASSUME NEW t \in Line, Agree(t, l)
        PROVE  Agree(Staged(t, "submission_started", ticks), l)
    <3>1. l.phase = "submitting"
      BY <1>5, <2>1 DEF Agree
    <3>2. t.submission_started # None
      BY <1>3, <2>1, <3>1 DEF Agree, LifeRight
    <3>3. Staged(t, "submission_started", ticks) = t
      BY <3>2 DEF Staged
    <3> QED BY <2>1, <3>3
  <2>2. \A t \in Line : Agree(t, life[m]) => Agree(Staged(t, "submission_started", ticks), life'[m])
    BY <1>3, <1>5, <2>1
  <2>3. LivesRight'
    BY <1>1, <1>5 DEF AgeInv, LivesRight
  <2>4. life'[m] = life[m] /\ life[m].phase \in {"submitting", "settled", "deadLettered"}
    BY <1>3, <1>5
  <2>5. \A o \in AgingMatches \ {m} : life'[o] = life[o]
    BY <1>5
  <2>6. life[m].phase # "polling"
    BY <2>4
  <2>7. \/ life'[m] = life[m] /\ life[m].phase \in {"settled", "deadLettered"}
        \/ /\ life[m].phase \in {"polling", "finished", "submitting"}
           /\ life'[m].phase \in {"finished", "submitting"}
    BY <2>4
  <2> QED BY <1>1, <1>2, <2>2, <2>3, <2>5, <2>6, <2>7, RecordKeeps
<1> QED BY <1>1, <1>3, <1>4, <1>5

LEMMA ConfirmKeeps ==
  ASSUME AgeInv, NEW m \in AgingMatches, Age!Confirm(m) PROVE AgeInv'
<1>1. /\ life[m].phase \in {"submitting", "deadLettered", "settled"} /\ Age!Enters(m, "settled")
      /\ Age!RecordConfirmed(m) /\ ticks' = ticks /\ maxTracked' = maxTracked
  BY DEF Age!Confirm, Age!Others
<1>2. Follows(life[m].phase, "settled") /\ "settled" \in LifePhases
  BY <1>1 DEF Follows, LifePhases
<1>3. /\ LivesRight' /\ life'[m] = Entered(life[m], "settled", ticks)
      /\ \A o \in AgingMatches \ {m} : life'[o] = life[o]
      /\ life[m].phase = "settled" => life'[m] = life[m]
  BY <1>1, <1>2, LifeGoesOn
<1>4. life'[m].phase = "settled"
  BY <1>3 DEF Entered
<1>5. CASE Age!Contains(closed, m)
  <2>1. open' = open /\ closed' = closed /\ completed' = completed /\ forgotten' = forgotten
    BY <1>1, <1>5 DEF Age!RecordConfirmed, Age!monitor
  <2>2. m \notin forgotten => ~ Age!Tracked(open, m)
    BY <1>1, <1>5 DEF AgeInv, MatchesPlaced, Placed
  <2>3. m \notin forgotten => Placed(life'[m].phase, Age!Tracked(open, m), Age!Contains(closed, m))
    BY <1>4, <1>5, <2>2 DEF Placed
  <2> QED BY <1>1, <1>3, <2>1, <2>2, <2>3, MonitorStays
<1>6. CASE ~ Age!Contains(closed, m)
  <2>1. PICK room : room = IF Age!Tracked(open, m) THEN open ELSE Age!MadeRoom(open)
    OBVIOUS
  <2>2. /\ Age!Finish(m, room)
        /\ completed' = IF Age!Tracked(open, m) THEN Age!WithDurations(Age!Timeline(m)) ELSE completed
    BY <1>1, <1>6, <2>1 DEF Age!RecordConfirmed
  <2>3. LinesRight(open) /\ open \in Seq(Line) /\ maxTracked \in Nat \ {0}
    BY DEF AgeInv, LinesRight
  <2>4. LinesRight(room) /\ \A i \in 1 .. Len(room) : \E j \in 1 .. Len(open) : room[i] = open[j]
    <3>1. CASE Age!Tracked(open, m)
      BY <2>1, <2>3, <3>1
    <3>2. CASE ~ Age!Tracked(open, m)
      <4>1. room = Age!MadeRoom(open)
        BY <2>1, <3>2
      <4> QED BY <2>3, <4>1, RoomRight
    <3> QED BY <3>1, <3>2
  <2>5. forgotten \subseteq forgotten'
    BY <2>2 DEF Age!Finish
  <2>6. \A o \in AgingMatches : life[o].phase = "settled" => life'[o] = life[o]
    BY <1>3
  <2>7. DurationsHaveCause'
    <3>1. CASE Age!Tracked(open, m)
      <4>1. PICK t : t = Age!Timeline(m)
        OBVIOUS
      <4>2. PICK i \in DOMAIN open : open[i].match = m /\ t = open[i]
        BY <3>1, <4>1 DEF Age!Timeline, Age!Tracked
      <4>3. i \in 1 .. Len(open) /\ t \in Line
        BY <2>3, <4>2, LenProperties, ElementOfSeq
      <4>4. m \notin forgotten => Agree(t, life[m])
        BY <4>2, <4>3 DEF AgeInv, LinesAgree
      <4>5. completed' = Age!WithDurations(t)
        BY <2>2, <3>1, <4>1
      <4> QED BY <1>1, <1>3, <2>5, <2>6, <4>3, <4>4, <4>5, WithDurationsRight
    <3>2. CASE ~ Age!Tracked(open, m)
      <4>1. completed' = completed
        BY <2>2, <3>2
      <4> QED BY <2>5, <2>6, <4>1, DurationsStay
    <3> QED BY <3>1, <3>2
  <2>8. life'[m].phase \in {"settled", "timedOut", "deadLettered"}
    BY <1>4
  <2> QED BY <1>1, <1>3, <2>2, <2>4, <2>7, <2>8, ClosingKeeps
<1> QED BY <1>5, <1>6

LEMMA AbandonKeeps ==
  ASSUME AgeInv, NEW m \in AgingMatches, Age!Abandon(m) PROVE AgeInv'
<1>1. PICK phase \in {"timedOut", "deadLettered"} :
         Age!Enters(m, phase) /\ Follows(life[m].phase, phase)
         /\ (phase = "timedOut" <=> life[m].phase = "polling")
         /\ life[m].phase \in {"polling", "finished", "submitting"}
  BY DEF Age!Abandon, Follows
<1>2. ticks' = ticks /\ maxTracked' = maxTracked
  BY DEF Age!Abandon, Age!Others
<1>3. phase \in LifePhases
  BY DEF LifePhases
<1>4. /\ LivesRight' /\ life'[m] = Entered(life[m], phase, ticks)
      /\ \A o \in AgingMatches \ {m} : life'[o] = life[o]
  BY <1>1, <1>2, <1>3, LifeGoesOn
<1>5. life'[m].phase = phase
  BY <1>4 DEF Entered
<1>6. \A o \in AgingMatches : life[o].phase = "settled" => life'[o] = life[o]
  BY <1>1, <1>4
<1>7. LinesRight(open)
  BY DEF AgeInv
<1>8. CASE Age!Tracked(open, m)
  <2>1. Age!Finish(m, open) /\ completed' = completed
    BY <1>8 DEF Age!Abandon
  <2>2. forgotten \subseteq forgotten'
    BY <2>1 DEF Age!Finish
  <2>3. DurationsHaveCause'
    BY <1>6, <2>1, <2>2, DurationsStay
  <2>4. \A i \in 1 .. Len(open) : \E j \in 1 .. Len(open) : open[i] = open[j]
    OBVIOUS
  <2>5. life'[m].phase \in {"settled", "timedOut", "deadLettered"}
    BY <1>5
  <2> QED BY <1>2, <1>4, <1>7, <2>1, <2>3, <2>4, <2>5, ClosingKeeps
<1>9. CASE ~ Age!Tracked(open, m)
  <2>1. open' = open /\ closed' = closed /\ completed' = completed /\ forgotten' = forgotten
    BY <1>9 DEF Age!Abandon, Age!monitor
  <2>2. m \notin forgotten => phase = "timedOut"
    BY <1>1, <1>9 DEF AgeInv, MatchesPlaced, Placed
  <2>3. m \notin forgotten => Placed(life'[m].phase, Age!Tracked(open, m), Age!Contains(closed, m))
    BY <1>5, <1>9, <2>2 DEF Placed
  <2> QED BY <1>1, <1>2, <1>4, <1>9, <2>1, <2>3, MonitorStays
<1> QED BY <1>8, <1>9

LEMMA AgeTickKeeps ==
  ASSUME AgeInv, Age!Tick PROVE AgeInv'
<1>1. /\ open' = open /\ closed' = closed /\ completed' = completed /\ forgotten' = forgotten
      /\ ticks' = ticks + 1 /\ maxTracked' = maxTracked /\ life' = life
  BY DEF Age!Tick, Age!monitor
<1>2. ticks \in Nat /\ None \notin Nat
  BY AgeConstants DEF AgeInv
<1>3. LivesRight'
  <2>1. ASSUME NEW m \in AgingMatches PROVE LifeRight(life[m], ticks + 1)
    <3>1. PICK l \in Lives : l = life[m] /\ LifeRight(l, ticks)
      BY DEF AgeInv, LivesRight
    <3>2. PICK u \in Nat : u = ticks + 1
      BY <1>2
    <3>3. \A x : (x \in 0 .. ticks => x \in Nat /\ x \in 0 .. u)
      BY <1>2, <3>2
    <3>4. \A x \in Nat : \A y : y \in x .. ticks => y \in x .. u /\ y \in Nat
      BY <1>2, <3>2
    <3>5. LifeRight(l, u)
      <4>1. l.phase # "none" => l.at["polling"] \in 0 .. u
        BY <3>1, <3>3 DEF LifeRight
      <4>2. l.phase \notin {"none", "polling", "timedOut"} =>
              l.at["finished"] \in l.at["polling"] .. u /\ l.at["finished"] \in Nat
        BY <3>1, <3>3, <3>4 DEF LifeRight
      <4>3. l.at["submitting"] # None => l.at["submitting"] \in l.at["finished"] .. u
        <5>1. l.at["submitting"] # None => l.phase \notin {"none", "polling", "timedOut"}
          BY <3>1 DEF LifeRight
        <5> QED BY <3>1, <3>4, <4>2, <5>1 DEF LifeRight
      <4>4. l.phase = "settled" => l.at["settled"] \in 0 .. u
        BY <3>1, <3>3 DEF LifeRight
      <4> QED BY <3>1, <4>1, <4>2, <4>3, <4>4 DEF LifeRight
    <3> QED BY <3>1, <3>2, <3>5
  <2> QED BY <1>1, <2>1 DEF AgeInv, LivesRight
<1>4. MatchesPlaced' /\ LinesAgree'
  BY <1>1 DEF AgeInv, MatchesPlaced, LinesAgree, Age!Tracked, Age!Contains
<1>5. DurationsHaveCause'
  BY <1>1, DurationsStay
<1> QED BY <1>1, <1>2, <1>3, <1>4, <1>5 DEF AgeInv

LEMMA AgeStutter ==
  ASSUME AgeInv, UNCHANGED ageVars PROVE AgeInv'
<1>1. /\ open' = open /\ closed' = closed /\ completed' = completed /\ forgotten' = forgotten
      /\ ticks' = ticks /\ maxTracked' = maxTracked /\ life' = life
  BY DEF ageVars
<1>2. MatchesPlaced' /\ LinesAgree' /\ LivesRight'
  BY <1>1 DEF AgeInv, MatchesPlaced, LinesAgree, LivesRight, Age!Tracked, Age!Contains
<1>3. DurationsHaveCause'
  BY <1>1, DurationsStay
<1> QED BY <1>1, <1>2, <1>3 DEF AgeInv

\* The monitor's books are right, whatever the calls tell it and forget.
LEMMA AgeBooks == Spec => []AgeInv
<1>1. ASSUME AgeInv, [Age!Next]_ageVars PROVE AgeInv'
  <2>1. CASE Age!Publish
    BY <1>1, <2>1, PublishKeeps
  <2>2. CASE Age!Tick
    BY <1>1, <2>2, AgeTickKeeps
  <2>3. ASSUME NEW m \in AgingMatches,
               \/ Age!CreateJob(m) \/ Age!ProviderResult(m) \/ Age!StartSubmission(m)
               \/ Age!Confirm(m) \/ Age!Abandon(m)
        PROVE  AgeInv'
    BY <1>1, <2>3, CreateJobKeeps, ProviderResultKeeps, StartSubmissionKeeps, ConfirmKeeps,
       AbandonKeeps
  <2>4. CASE UNCHANGED ageVars
    BY <1>1, <2>4, AgeStutter
  <2> QED BY <1>1, <2>1, <2>2, <2>3, <2>4 DEF Age!Next
<1> QED BY <1>1, AgeSteps, AgeInit, PTL

\* The alerts of the settlement-age monitor are true, for any matches, thresholds and limits: a
\* match it has not forgotten and that waits too long in a stage is reported, only such a match
\* is, and a slow percentile is some match's settlement.
THEOREM AlertsHaveCause == Spec => AlertsAreTrue
<1> DEFINE Told ==
      Age!Publish => \A s \in Age!Segments :
        LET stuck == <<s, "stuck">> \in activeAlerts'
            slow == <<s, "slow_p95">> \in activeAlerts' IN
          /\ \A m \in AgingMatches \ forgotten' :
               /\ Age!WaitsTooLong(m, s)
               /\ s = "total" =>
                    \E i \in DOMAIN open : open[i].match = m /\ open[i].activated # None
               => stuck
          /\ stuck => \E m \in AgingMatches : Age!WaitsTooLong(m, s) \/ m \in forgotten'
          /\ slow => \E m \in AgingMatches : Age!WaitedTooLong(m, s) \/ m \in forgotten'
<1>1. ASSUME AgeInv, Age!Publish, NEW s \in Age!Segments
      PROVE  LET stuck == <<s, "stuck">> \in activeAlerts'
                 slow == <<s, "slow_p95">> \in activeAlerts' IN
               /\ \A m \in AgingMatches \ forgotten' :
                    /\ Age!WaitsTooLong(m, s)
                    /\ s = "total" =>
                         \E i \in DOMAIN open : open[i].match = m /\ open[i].activated # None
                    => stuck
               /\ stuck => \E m \in AgingMatches : Age!WaitsTooLong(m, s) \/ m \in forgotten'
               /\ slow => \E m \in AgingMatches : Age!WaitedTooLong(m, s) \/ m \in forgotten'
  <2>1. activeAlerts' = (Age!Stuck(open') \X {"stuck"}) \cup (Age!Slow \X {"slow_p95"})
    BY <1>1 DEF Age!Publish, Age!evaluate
  <2>2. /\ <<s, "stuck">> \in activeAlerts' <=> s \in Age!Stuck(open')
        /\ <<s, "slow_p95">> \in activeAlerts' <=> s \in Age!Slow
    BY <2>1
  <2>3. LinesAreRight(open', forgotten') /\ forgotten \subseteq forgotten'
    BY <1>1, PublishLines
  <2>4. PICK lines, forgot : lines = open' /\ forgot = forgotten'
    OBVIOUS
  <2>5. /\ \A m \in AgingMatches \ forgot :
              /\ Age!WaitsTooLong(m, s)
              /\ s = "total" => \E i \in DOMAIN open : open[i].match = m /\ open[i].activated # None
              => s \in Age!Stuck(lines)
        /\ s \in Age!Stuck(lines) => \E m \in AgingMatches : Age!WaitsTooLong(m, s) \/ m \in forgot
    <3>1. LinesAreRight(lines, forgot) /\ forgotten \subseteq forgot
      BY <2>3, <2>4
    <3> QED BY <1>1, <3>1, StuckIsTrue
  <2>6. s \in Age!Slow => \E m \in AgingMatches : Age!WaitedTooLong(m, s) \/ m \in forgotten'
    <3>1. s \in Age!Slow => \E m \in AgingMatches : Age!WaitedTooLong(m, s) \/ m \in forgotten
      BY <1>1, SlowIsTrue
    <3> QED BY <2>3, <3>1
  <2> QED BY <2>2, <2>4, <2>5, <2>6
<1>2. AgeInv /\ [Age!Next]_ageVars => [Told]_(Age!ageVars)
  <2>1. UNCHANGED ageVars => UNCHANGED Age!ageVars
    BY DEF ageVars, Age!ageVars, Age!monitor
  <2>2. AgeInv /\ Age!Publish => Told
    BY <1>1
  <2>3. ~ Age!Publish => Told
    OBVIOUS
  <2> HIDE DEF Told
  <2> QED BY <2>1, <2>2, <2>3
<1>3. Spec => [][Told]_(Age!ageVars)
  <2> HIDE DEF Told
  <2> QED BY <1>2, AgeSteps, AgeBooks, PTL
<1> QED BY <1>3 DEF AlertsAreTrue, Age!AlertsAreTrue
=============================================================================
