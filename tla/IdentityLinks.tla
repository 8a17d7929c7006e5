---------------------------- MODULE IdentityLinks ----------------------------
(***************************************************************************)
(* Linking a wallet to a player's name                                     *)
(* (apps/backend/src/services/player-identity.ts,                          *)
(* createIdentityLinkChallenge and confirmIdentityLink, behind             *)
(* routes/player-identity.ts): a challenge is issued to a wallet, the      *)
(* player shows it in the profile on the platform, and a confirmation      *)
(* awaits the platform before it links the two.                            *)
(*                                                                         *)
(* Signatures are left out: a confirmation is one whose signature is valid *)
(* for the challenge of its nonce.  Platforms are part of the name.        *)
(***************************************************************************)
EXTENDS Integers, Sequences, FiniteSets

CONSTANTS
  Wallets,
  Names,              \* <<platform, username>>
  Confirmations,      \* POST /confirm requests
  LINK_NONCE_TTL_MS,
  MAX_PENDING_LINKS,
  MaxNonces,          \* bound: challenges that are issued
  LinkTime,           \* bound: last clock value
  None

LinkAssumption ==
  /\ LINK_NONCE_TTL_MS \in Nat \ {0} /\ MAX_PENDING_LINKS \in Nat \ {0}
  /\ MaxNonces \in Nat /\ LinkTime \in Nat

VARIABLES
  instant,            \* Date.now()
  pendingLinks,       \* keys of the map, which keeps the order they were issued in
  profile,            \* external: the nonce that the profile of a name shows
  confirmation,       \* each confirmation, and what it awaits
  verifiedLinks,      \* the wallet a name is linked to
  issued,             \* history: every challenge, by nonce
  shown, spent, evictedLinks  \* history: nonces seen in the profile, linked, evicted

linkVars == <<instant, pendingLinks, profile, confirmation, verifiedLinks,
              issued, shown, spent, evictedLinks>>

NoConfirmation == [at |-> "idle", nonce |-> None, wallet |-> None, began |-> 0,
                   replayed |-> FALSE]

Init ==
  /\ instant = 0
  /\ pendingLinks = {}
  /\ profile = [n \in Names |-> None]
  /\ confirmation = [c \in Confirmations |-> NoConfirmation]
  /\ verifiedLinks = [n \in Names |-> None]
  /\ issued = << >> /\ shown = {} /\ spent = {} /\ evictedLinks = {}

Expired(nonce) == issued[nonce].expiresAt <= instant
Oldest(nonces) == CHOOSE nonce \in nonces : \A other \in nonces : nonce <= other

\* createIdentityLinkChallenge: expired challenges go, and the oldest one when
\* there are MAX_PENDING_LINKS.
CreateChallenge(w, n) ==
  /\ Len(issued) < MaxNonces
  /\ LET valid == {nonce \in pendingLinks : ~ Expired(nonce)}
         evicted == IF Cardinality(valid) >= MAX_PENDING_LINKS THEN {Oldest(valid)} ELSE {} IN
       /\ pendingLinks' = (valid \ evicted) \cup {Len(issued) + 1}
       /\ evictedLinks' = evictedLinks \cup evicted
  /\ issued' = Append(issued,
       [wallet |-> w, name |-> n, expiresAt |-> instant + LINK_NONCE_TTL_MS])
  /\ UNCHANGED <<instant, profile, confirmation, verifiedLinks, shown, spent>>

\* The owner of the name writes a nonce into the profile, or removes it.
EditProfile(n, nonce) ==
  /\ profile[n] # nonce
  /\ profile' = [profile EXCEPT ![n] = nonce]
  /\ UNCHANGED <<instant, pendingLinks, confirmation, verifiedLinks, issued, shown, spent,
                 evictedLinks>>

\* confirmIdentityLink up to its await.  An expired challenge is deleted.
Confirm(c, nonce, w) ==
  /\ confirmation[c].at = "idle"
  /\ LET challenge == issued[nonce]
         accepted == nonce \in pendingLinks /\ ~ Expired(nonce) /\ challenge.wallet = w IN
       /\ confirmation' = [confirmation EXCEPT ![c] =
            [at |-> IF accepted THEN "verifyProfile" ELSE "refused", nonce |-> nonce,
             wallet |-> w, began |-> instant, replayed |-> nonce \in spent]]
       /\ pendingLinks' = IF Expired(nonce) THEN pendingLinks \ {nonce} ELSE pendingLinks
  /\ UNCHANGED <<instant, profile, verifiedLinks, issued, shown, spent, evictedLinks>>

\* verifyProfile: the platform sends the profile as it is, the answer comes
\* later; or it fails.
PlatformReads(c) ==
  /\ confirmation[c].at = "verifyProfile"
  /\ LET nonce == confirmation[c].nonce
         shows == profile[issued[nonce].name] = nonce IN
       \/ /\ confirmation' = [confirmation EXCEPT ![c].at =
              IF shows THEN "profileVerified" ELSE "unproven"]
          /\ shown' = IF shows THEN shown \cup {nonce} ELSE shown
       \/ /\ confirmation' = [confirmation EXCEPT ![c].at = "unproven"]
          /\ UNCHANGED shown
  /\ UNCHANGED <<instant, pendingLinks, profile, verifiedLinks, issued, spent, evictedLinks>>

\* After the await: neither the challenge nor its expiry is looked at again.
Remaining_All(nonce) == pendingLinks
Remaining(nonce) == pendingLinks \ {nonce}
ProfileVerified(c) ==
  /\ confirmation[c].at = "profileVerified"
  /\ LET nonce == confirmation[c].nonce IN
       /\ pendingLinks' = Remaining(nonce)
       /\ verifiedLinks' = [verifiedLinks EXCEPT ![issued[nonce].name] = confirmation[c].wallet]
       /\ spent' = spent \cup {nonce}
  /\ confirmation' = [confirmation EXCEPT ![c].at = "linked"]
  /\ UNCHANGED <<instant, profile, issued, shown, evictedLinks>>

Tick ==
  /\ instant < LinkTime
  /\ instant' = instant + 1
  /\ UNCHANGED <<pendingLinks, profile, confirmation, verifiedLinks, issued, shown, spent,
                 evictedLinks>>

Next ==
  \/ Tick
  \/ \E w \in Wallets, n \in Names : CreateChallenge(w, n)
  \/ \E n \in Names, nonce \in DOMAIN issued \cup {None} : EditProfile(n, nonce)
  \/ \E c \in Confirmations :
       \/ \E nonce \in DOMAIN issued, w \in Wallets : Confirm(c, nonce, w)
       \/ PlatformReads(c) \/ ProfileVerified(c)

Spec == Init /\ [][Next]_linkVars

-----------------------------------------------------------------------------
\* A name is linked to a wallet only by a confirmation of a challenge that was
\* issued to that wallet for that name, had neither expired nor been used when
\* the confirmation came, and was seen in the name's profile; and one that
\* comes in time from its wallet is refused at once only if the challenge was
\* used or had to make room ("Invalid, expired, replayed, or wrong-wallet
\* identity proof").
LinksAreProven ==
  /\ \A n \in Names : verifiedLinks[n] # None =>
       \E c \in Confirmations :
         /\ confirmation[c].at = "linked" /\ confirmation[c].wallet = verifiedLinks[n]
         /\ issued[confirmation[c].nonce].name = n
  /\ \A c \in Confirmations :
       LET r == confirmation[c] IN
         /\ r.at = "linked" =>
              /\ ~ r.replayed /\ r.nonce \in shown
              /\ r.began < issued[r.nonce].expiresAt /\ r.wallet = issued[r.nonce].wallet
         /\ r.at = "refused" =>
              \/ r.nonce \in spent \cup evictedLinks
              \/ r.began >= issued[r.nonce].expiresAt \/ r.wallet # issued[r.nonce].wallet
=============================================================================
