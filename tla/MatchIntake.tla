---------------------------- MODULE MatchIntake ----------------------------
(***************************************************************************)
(* Matches enter the backend and their results are verified:               *)
(* createMatchForPlayer (apps/backend/src/services/match-service.ts),      *)
(* verifyGameResult (services/oracle-service.ts) and the identity checks   *)
(* of services/player-identity.ts, over either store of matches: the one   *)
(* in memory (store/match-store.ts) and the one in SQLite                  *)
(* (store/sqlite-match-store.ts), which the server uses.                   *)
(*                                                                         *)
(* Stakes, tokens and usernames' spelling are left out; what a platform    *)
(* answers is external, and may change from one fetch to the next.         *)
(***************************************************************************)
EXTENDS Integers, Sequences, FiniteSets

CONSTANTS
  Creations,      \* POST /matches requests
  Verifications,  \* POST /oracle/submit-result requests
  Wallets,
  Opponents,      \* <<player1, player2>>: the wallets of a request
  Games,          \* game ids; a platform is part of the request
  Players,        \* <<white, black>> of each game, as its platform first answers
  Pairs,          \* ... and what it may answer of any later
  Platforms,
  Creatable,      \* <<game, platform>>: what creations ask for
  LastId,         \* bound: the largest match id
  MaxRestarts,    \* bound: restarts of the process
  None

\* A stored match; its names and its hash go when a player is unlinked.
Records ==
  [players : Opponents, names : Pairs \cup {None}, game : Games, platform : Platforms,
   hash : (Pairs \X Opponents) \cup {None}]

IntakeAssumption ==
  /\ LastId \in Nat
  /\ None \notin Pairs /\ None \notin Records
  /\ Opponents \subseteq Wallets \X Wallets
  /\ Players \in [Games -> Pairs]
  /\ Creatable \subseteq Games \X Platforms
  /\ MaxRestarts \in Nat

VARIABLES
  backend,        \* the store in use
  match,          \* the records, by match id
  nextId,
  creation,       \* each creation and the await it is at
  verification,   \* each verification and the await it is at
  evidence,       \* settlement evidence, oldest first
  restarts,
  born,           \* history: the names each stored match was created with
  unlinked        \* history: ids whose names were deleted

Ids == 0 .. LastId

recordVars == <<match, nextId, born, unlinked>>
vars == <<backend, recordVars, creation, verification, evidence, restarts>>

NoCreation == [at |-> "idle", players |-> None, game |-> None, platform |-> None,
               names |-> None, id |-> None]
NoVerification ==
  [at |-> "idle", id |-> None, names |-> None, answer |-> None, decision |-> None]

Init ==
  /\ backend \in {"memory", "sqlite"}
  /\ match = [i \in Ids |-> None] /\ nextId = 0
  /\ creation = [c \in Creations |-> NoCreation]
  /\ verification = [v \in Verifications |-> NoVerification]
  /\ evidence = << >>
  /\ restarts = 0
  /\ born = [i \in Ids |-> None] /\ unlinked = {}

Stored == {i \in Ids : match[i] # None}

-----------------------------------------------------------------------------
(* createMatchForPlayer.                                                   *)

validateCreateMatchInput(players) == players[1] # players[2]

\* An invalid request is answered at once; for a valid one the game is fetched.
RequestMatch(c, players, g, platform) ==
  /\ creation[c].at = "idle" /\ validateCreateMatchInput(players)
  /\ creation' = [creation EXCEPT ![c] =
       [NoCreation EXCEPT !.at = "fetching", !.players = players, !.game = g,
                          !.platform = platform]]
  /\ UNCHANGED <<backend, recordVars, verification, evidence, restarts>>

\* getGameResultWithPlayerIdentities catches every error of the platform.
GameRefused(c) ==
  /\ creation[c].at = "fetching"
  /\ creation' = [creation EXCEPT ![c].at = "refused"]
  /\ UNCHANGED <<backend, recordVars, verification, evidence, restarts>>

\* The record: white's name goes to player 1 and black's to player 2, and
\* computeIdentityHash binds names and wallets as they are now.
RecordOf(r, names) ==
  [players |-> r.players, names |-> names, game |-> r.game, platform |-> r.platform,
   hash |-> <<names, r.players>>]

Insert(i, record) ==
  /\ match' = [match EXCEPT ![i] = record]
  /\ born' = [born EXCEPT ![i] = record.names]
  /\ UNCHANGED unlinked

GameTaken(g) == \E i \in Stored : match[i].game = g

\* The platform answers.  The store in memory checks the game and inserts at
\* once; the one in SQLite takes an id and leaves the rest to the database.
GameFound(c) ==
  /\ creation[c].at = "fetching"
  /\ nextId \in Ids
  /\ LET r == creation[c]
         names == Players[r.game] IN
       IF backend = "sqlite"
       THEN /\ creation' = [creation EXCEPT ![c].at = "inserting", ![c].names = names,
                                            ![c].id = nextId]
            /\ nextId' = nextId + 1
            /\ UNCHANGED <<match, born, unlinked>>
       ELSE IF GameTaken(r.game)
       THEN /\ creation' = [creation EXCEPT ![c].at = "duplicate"]
            /\ UNCHANGED recordVars
       ELSE /\ creation' = [creation EXCEPT ![c].at = "created", ![c].names = names,
                                            ![c].id = nextId]
            /\ Insert(nextId, RecordOf(r, names))
            /\ nextId' = nextId + 1
  /\ UNCHANGED <<backend, verification, evidence, restarts>>

\* INSERT, with matchId the primary key and gameId UNIQUE.  Its error does
\* not say "duplicate" and is answered with 500.
InsertRow(c) ==
  /\ creation[c].at = "inserting"
  /\ LET r == creation[c] IN
       IF match[r.id] # None \/ GameTaken(r.game)
       THEN /\ creation' = [creation EXCEPT ![c].at = "duplicate"]
            /\ UNCHANGED recordVars
       ELSE /\ creation' = [creation EXCEPT ![c].at = "created"]
            /\ Insert(r.id, RecordOf(r, r.names))
            /\ UNCHANGED nextId
  /\ UNCHANGED <<backend, verification, evidence, restarts>>

-----------------------------------------------------------------------------
(* DELETE /identities: only the store in memory has unlinkIdentities.      *)

Unlink(w) ==
  /\ backend = "memory"
  /\ LET gone == {i \in Stored : w \in {match[i].players[1], match[i].players[2]}} IN
       /\ match' = [i \in Ids |-> IF i \in gone
                                  THEN [match[i] EXCEPT !.names = None, !.hash = None]
                                  ELSE match[i]]
       /\ unlinked' = unlinked \cup gone
  /\ UNCHANGED <<backend, nextId, born, creation, verification, evidence, restarts>>

-----------------------------------------------------------------------------
(* verifyGameResult.                                                       *)

\* The match of the game is looked up; without one, without names, or from
\* another platform than the match's own nothing is fetched.
Verify(v, g, platform) ==
  /\ verification[v].at = "idle"
  /\ \E i \in Stored \cup {None} :
       /\ IF i = None THEN ~ GameTaken(g) ELSE match[i].game = g
       /\ verification' = [verification EXCEPT ![v] =
            IF i = None \/ match[i].names = None \/ match[i].platform # platform
            THEN [NoVerification EXCEPT !.at = "refused"]
            ELSE [NoVerification EXCEPT !.at = "fetching", !.id = i, !.names = match[i].names]]
  /\ UNCHANGED <<backend, recordVars, creation, evidence, restarts>>

FetchFails(v) ==
  /\ verification[v].at = "fetching"
  /\ verification' = [verification EXCEPT ![v].at = "refused"]
  /\ UNCHANGED <<backend, recordVars, creation, evidence, restarts>>

\* findByGameId returns the record itself from memory, and a copy from SQLite.
NamesNow_Copied(v) == verification[v].names
NamesNow(v) ==
  IF backend = "memory" THEN match[verification[v].id].names ELSE verification[v].names
HashNow(v) == match[verification[v].id].hash

\* verifyPlayerIdentities: both names, in either order of the colours; a name
\* that was deleted is empty and matches nothing.
SamePlayers(names, answer) ==
  names # None /\ answer \in {names, <<names[2], names[1]>>}
\* verifyIdentityHash: a match without a hash passes.
HashHolds(v) ==
  HashNow(v) # None => HashNow(v) = <<NamesNow(v), match[verification[v].id].players>>

Decision(v, answer) ==
  IF ~ SamePlayers(NamesNow(v), answer) THEN "player_identity_mismatch"
  ELSE IF ~ HashHolds(v) THEN "identity_hash_mismatch"
  ELSE "verified"

Entry(v, answer, decision) ==
  [id |-> verification[v].id, answer |-> answer, decision |-> decision]

\* The platform answers with the players.  The evidence is appended at once in
\* memory, and by a statement of its own in SQLite, before the request is
\* answered.
ResultFetched(v, answer) ==
  /\ verification[v].at = "fetching"
  /\ LET decision == Decision(v, answer) IN
       IF backend = "memory"
       THEN /\ evidence' = Append(evidence, Entry(v, answer, decision))
            /\ verification' = [verification EXCEPT ![v].at = decision, ![v].answer = answer]
       ELSE /\ verification' = [verification EXCEPT ![v].at = "saving", ![v].answer = answer,
                                                    ![v].decision = decision]
            /\ UNCHANGED evidence
  /\ UNCHANGED <<backend, recordVars, creation, restarts>>

SaveEvidence(v) ==
  /\ verification[v].at = "saving"
  /\ LET decision == verification[v].decision IN
       /\ evidence' = Append(evidence, Entry(v, verification[v].answer, decision))
       /\ verification' = [verification EXCEPT ![v].at = decision]
  /\ UNCHANGED <<backend, recordVars, creation, restarts>>

EvidenceFails(v) ==
  /\ verification[v].at = "saving"
  /\ verification' = [verification EXCEPT ![v].at = "refused"]
  /\ UNCHANGED evidence
  /\ UNCHANGED <<backend, recordVars, creation, restarts>>

\* The daily clean-up, and the one at start-up: evidence of 30 days is deleted.
Kept(n) == SubSeq(evidence, n + 1, Len(evidence))
ForgetEvidence(n) ==
  /\ backend = "sqlite"
  /\ evidence' = Kept(n)
  /\ UNCHANGED <<backend, recordVars, creation, verification, restarts>>

-----------------------------------------------------------------------------
(* The process dies and starts again.                                      *)

InFlight == {"fetching", "inserting", "saving"}
Dies(request, none) == IF request.at \in InFlight THEN [none EXCEPT !.at = "lost"] ELSE request

\* SELECT COALESCE(MAX(matchId), -1) + 1
FirstId_Count == Cardinality(Stored)
FirstId ==
  IF Stored = {} THEN 0 ELSE 1 + CHOOSE i \in Stored : \A j \in Stored : j <= i

\* The store in memory starts empty, and what it answered is forgotten.
Restart ==
  /\ restarts < MaxRestarts
  /\ restarts' = restarts + 1
  /\ verification' = [v \in Verifications |-> Dies(verification[v], NoVerification)]
  /\ IF backend = "sqlite"
     THEN /\ nextId' = FirstId
          /\ creation' = [c \in Creations |-> Dies(creation[c], NoCreation)]
          /\ \E n \in 0 .. Len(evidence) : evidence' = Kept(n)
          /\ UNCHANGED <<match, born, unlinked>>
     ELSE /\ nextId' = 0 /\ evidence' = << >>
          /\ match' = [i \in Ids |-> None] /\ born' = [i \in Ids |-> None] /\ unlinked' = {}
          /\ creation' = [c \in Creations |->
               IF creation[c].at = "idle" THEN NoCreation ELSE [NoCreation EXCEPT !.at = "lost"]]
  /\ UNCHANGED backend

Next ==
  \/ \E c \in Creations :
       \/ GameRefused(c) \/ GameFound(c) \/ InsertRow(c)
       \/ \E players \in Opponents, game \in Creatable :
            RequestMatch(c, players, game[1], game[2])
  \/ \E w \in Wallets : Unlink(w)
  \/ \E v \in Verifications :
       \/ FetchFails(v) \/ SaveEvidence(v) \/ EvidenceFails(v)
       \/ \E g \in Games, platform \in Platforms : Verify(v, g, platform)
       \/ \E answer \in Pairs : ResultFetched(v, answer)
  \/ \E n \in 1 .. Len(evidence) : ForgetEvidence(n)
  \/ Restart

Spec == Init /\ [][Next]_vars

-----------------------------------------------------------------------------
\* The store never has two matches over one game, also when two requests for
\* it are at their fetch at once; what a request was answered stays on record
\* as it was answered, over restarts of the process too; and a request is
\* refused as a duplicate only because its game is taken (createMatch: "Load
\* nextId from the max existing matchId").
RecordsHold ==
  /\ \A i, j \in Stored : match[i].game = match[j].game => i = j
  /\ \A c \in Creations :
       /\ creation[c].at = "created" =>
            /\ match[creation[c].id] # None
            /\ match[creation[c].id].players = creation[c].players
            /\ match[creation[c].id].game = creation[c].game
            /\ born[creation[c].id] = creation[c].names
       /\ creation[c].at = "duplicate" => GameTaken(creation[c].game)

\* Each result that is verified has the players the match was created with,
\* whatever the platform answered then, and is never one of a match whose
\* players' names were deleted before, even while the platform was asked
\* (verifyGameResult).
VerdictsHold ==
  [][Len(evidence') > Len(evidence) =>
       LET e == evidence'[Len(evidence')] IN
         e.decision = "verified" =>
           /\ SamePlayers(born[e.id], e.answer)
           /\ e.id \notin unlinked]_vars
=============================================================================
