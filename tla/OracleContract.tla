--------------------------- MODULE OracleContract ---------------------------
(***************************************************************************)
(* The oracle contract (contracts/oracle/src/lib.rs): one result per match *)
(* recorded for good, the two-step admin transfer, and the off-chain       *)
(* reconciler that pages through list_results as docs/api-reference.md     *)
(* shows.  withdraw moves tokens only and is left out, as are the ledger   *)
(* and the game id of an entry and the rejected game ids.                  *)
(***************************************************************************)
EXTENDS Integers, FiniteSets, FiniteSetsExt

CONSTANTS
  Addresses, ZeroAddress,
  Results,          \* Player1Wins, Player2Wins, Draw
  None,
  MaxMatchId,       \* bound: match ids
  MAX_LIST_LIMIT,
  PageLimit         \* limit the reconciler asks for and steps by

OracleAssumption ==
  /\ MaxMatchId \in Nat
  /\ MAX_LIST_LIMIT \in Nat \ {0}
  /\ PageLimit \in 1 .. MAX_LIST_LIMIT
  /\ ZeroAddress \in Addresses
  /\ None \notin Addresses \cup Results

VARIABLES
  admin,          \* InstanceState.admin, None before initialize
  pendingAdmin,   \* DataKey::PendingAdmin
  resultCount,    \* InstanceState.result_count
  result,         \* DataKey::Result: match id -> result
  reader          \* the reconciler, None between two runs

contract == <<admin, pendingAdmin, resultCount, result>>
vars == <<contract, reader>>

MatchIds == 0 .. MaxMatchId
Signers == Addresses \ {ZeroAddress}

Init ==
  /\ admin = None /\ pendingAdmin = None
  /\ resultCount = 0
  /\ result = [id \in MatchIds |-> None]
  /\ reader = None

Recorded == {id \in MatchIds : result[id] # None}

initialize(a) ==
  /\ admin = None
  /\ admin' = a /\ resultCount' = 0
  /\ UNCHANGED <<pendingAdmin, result, reader>>

\* The admin signs; a match has one result.
submit_result(caller, id, r) ==
  /\ caller = admin
  /\ result[id] = None
  /\ result' = [result EXCEPT ![id] = r]
  /\ resultCount' = resultCount + 1
  /\ UNCHANGED <<admin, pendingAdmin, reader>>

\* An offer replaces the one before it.
propose_admin(caller, new) ==
  /\ caller = admin
  /\ new \notin {ZeroAddress, admin}
  /\ pendingAdmin' = new
  /\ UNCHANGED <<admin, resultCount, result, reader>>

accept_admin(caller) ==
  /\ admin # None
  /\ pendingAdmin # None /\ caller = pendingAdmin
  /\ admin' = pendingAdmin /\ pendingAdmin' = None
  /\ UNCHANGED <<resultCount, result, reader>>

cancel_admin_transfer(caller) ==
  /\ caller = admin /\ pendingAdmin # None
  /\ pendingAdmin' = None
  /\ UNCHANGED <<admin, resultCount, result, reader>>

-----------------------------------------------------------------------------
(* Reading.                                                                *)

\* The ids list_results answers with; it scans no further than result_count.
list_results(start, limit) ==
  Recorded \cap (start .. Min({start + Min({limit, MAX_LIST_LIMIT}), resultCount}) - 1)

\* `owed` is what was recorded when the run began.
StartReading ==
  /\ reader = None
  /\ reader' = [start |-> 0, seen |-> {}, owed |-> Recorded, done |-> FALSE]
  /\ UNCHANGED contract

\* The loop ends at the first empty page and steps by the limit, not by what
\* it got.
ReadPage ==
  /\ reader # None /\ ~ reader.done
  /\ LET page == list_results(reader.start, PageLimit) IN
       reader' = IF page = {} THEN [reader EXCEPT !.done = TRUE]
                 ELSE [reader EXCEPT !.start = @ + PageLimit, !.seen = @ \cup page]
  /\ UNCHANGED contract

StopReading ==
  /\ reader # None /\ reader.done
  /\ reader' = None
  /\ UNCHANGED contract

Next ==
  \/ \E a \in Signers : initialize(a) \/ accept_admin(a) \/ cancel_admin_transfer(a)
  \/ \E a \in Signers, new \in Addresses : propose_admin(a, new)
  \/ \E a \in Signers, id \in MatchIds, r \in Results : submit_result(a, id, r)
  \/ StartReading \/ ReadPage \/ StopReading

Spec == Init /\ [][Next]_vars

-----------------------------------------------------------------------------
\* The pages of a finished reconciliation hold every result recorded before it
\* began, if results are recorded for a prefix of the match ids, whatever is
\* recorded between its pages.
Prefix(ids) == ids = 0 .. Cardinality(ids) - 1
ReconcilerMissesNothing ==
  reader # None /\ reader.done /\ Prefix(reader.owed) => reader.owed \subseteq reader.seen
=============================================================================
