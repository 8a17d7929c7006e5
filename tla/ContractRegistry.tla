-------------------------- MODULE ContractRegistry --------------------------
(***************************************************************************)
(* The contract registry (contracts/contract-registry/src/lib.rs).  It is  *)
(* initialised; only its one admin registers, so the admin is every        *)
(* record's registrant.  Symbols are numbers, in their order.              *)
(***************************************************************************)
EXTENDS Integers, FiniteSetsExt, SequencesExt

CONSTANTS
  Admin, Stranger,   \* callers
  Symbols,           \* contract ids
  ContractAddresses,
  None,
  MaxEvents,         \* given to initialize
  MAX_PAGE_SIZE

RegistryAssumption ==
  /\ Admin # Stranger
  /\ Symbols \subseteq Nat /\ None \notin ContractAddresses
  /\ MaxEvents \in Nat /\ MAX_PAGE_SIZE \in Nat \ {0}

VARIABLES
  paused,
  registration,       \* DataKey::Registration: symbol -> address, None
  registrationCount,
  names,              \* DataKey::Names
  events              \* length of DataKey::Events

vars == <<paused, registration, registrationCount, names, events>>

Registered == {s \in Symbols : registration[s] # None}

Init ==
  /\ paused = FALSE
  /\ registration = [s \in Symbols |-> None]
  /\ registrationCount = 0
  /\ names = << >>
  /\ events = 0

SetPaused(caller, b) ==
  /\ caller = Admin
  /\ paused' = b
  /\ UNCHANGED <<registration, registrationCount, names, events>>

\* The id goes before the first name that is not smaller.
Position(s) == 1 + Cardinality({i \in DOMAIN names : \A j \in 1 .. i : names[j] < s})
register_contract(caller, s, a) ==
  /\ ~ paused /\ caller = Admin
  /\ registration[s] = None
  /\ names' = InsertAt(names, Position(s), s)
  /\ registrationCount' = registrationCount + 1
  /\ registration' = [registration EXCEPT ![s] = a]
  /\ UNCHANGED <<paused, events>>

update_contract(caller, s, a) ==
  /\ ~ paused /\ caller = Admin
  /\ registration[s] # None
  /\ registration' = [registration EXCEPT ![s] = a]
  /\ UNCHANGED <<paused, registrationCount, names, events>>

\* The first index of the id is removed, and the count saturates at 0.
deregister_contract(caller, s) ==
  /\ ~ paused /\ caller = Admin
  /\ registration[s] # None
  /\ names' = RemoveFirst(names, s)
  /\ registrationCount' = Max({registrationCount - 1, 0})
  /\ registration' = [registration EXCEPT ![s] = None]
  /\ UNCHANGED <<paused, events>>

submit_event(caller) ==
  /\ ~ paused /\ caller = Admin
  /\ events < MaxEvents
  /\ events' = events + 1
  /\ UNCHANGED <<paused, registration, registrationCount, names>>

list_names(offset, limit) ==
  SubSeq(names, offset + 1, Min({Len(names), offset + Min({limit, MAX_PAGE_SIZE})}))

Next ==
  \E caller \in {Admin, Stranger} :
    \/ \E b \in BOOLEAN : SetPaused(caller, b)
    \/ \E s \in Symbols, a \in ContractAddresses :
         register_contract(caller, s, a) \/ update_contract(caller, s, a)
    \/ \E s \in Symbols : deregister_contract(caller, s)
    \/ submit_event(caller)

Spec == Init /\ [][Next]_vars

-----------------------------------------------------------------------------
\* Read at one ledger, the pages of list_names are the registered names, each
\* once, in ascending order, and registration_count is the bound its doc
\* comment says it is ("Use this to bound pagination loops").
NamesAreRegistrations ==
  /\ registrationCount = Cardinality(Registered)
  /\ \A limit \in 1 .. MAX_PAGE_SIZE + 1 :
       LET step == Min({limit, MAX_PAGE_SIZE})
           all == FlattenSeq([i \in 1 .. registrationCount |-> list_names((i - 1) * step, limit)])
       IN  /\ ToSet(all) = Registered
           /\ \A i, j \in DOMAIN all : i < j => all[i] < all[j]
=============================================================================
