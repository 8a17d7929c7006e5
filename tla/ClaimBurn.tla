------------------------------ MODULE ClaimBurn ------------------------------
(***************************************************************************)
(* The claim and burn form (apps/frontend/src/components/claim-burn.tsx):  *)
(* a fee is simulated, the priced transaction confirmed in an overlay and  *)
(* sent.  Neither call is cancelled when the account changes.              *)
(***************************************************************************)
EXTENDS Integers, FiniteSets

CONSTANTS
  None,
  Keys,        \* wallet accounts
  Figures,     \* valid amounts
  MaxSwitches  \* bound: changes of the account

VARIABLES
  mode, inputAmount, confirmAmount, status,
  estimatedFee,  \* the simulation that priced the overlay, or None
  publicKey, walletState,
  simulations,   \* in flight: [mode, amount, key, at]
  transactions,  \* in flight: [mode, amount, key, at, fee]
  switches       \* changes of the account so far

formVars == <<mode, inputAmount, confirmAmount, status, estimatedFee>>
walletVars == <<publicKey, walletState, switches>>
claimVars == <<formVars, walletVars, simulations, transactions>>

Modes == {"claim", "burn"}
\* A simulation: of which form, for which account, and after how many switches.
Priced == [mode : Modes, amount : Figures, key : Keys \cup {None}, at : Nat, call : Nat]

ClaimAssumption == None \notin Figures /\ None \notin Priced /\ MaxSwitches \in Nat

Init ==
  /\ mode = "claim" /\ inputAmount = None /\ confirmAmount = None
  /\ status = "idle" /\ estimatedFee = None
  /\ publicKey \in Keys \cup {None}
  /\ walletState = IF publicKey = None THEN "disconnected" ELSE "connected"
  /\ simulations = {} /\ transactions = {}
  /\ switches = 0

-----------------------------------------------------------------------------
\* The wallet state screens have no control that works.
Shown == walletState = "connected"
IsBusy_Pending == status = "pending"
IsBusy == status \in {"pending", "simulating"}

HandleToggle(m) ==
  /\ Shown /\ ~ IsBusy
  /\ mode' = m
  /\ status' = "idle" /\ estimatedFee' = None
  /\ UNCHANGED <<inputAmount, confirmAmount, walletVars, simulations, transactions>>

\* None is an empty or invalid amount.  Max types the balance and also resets.
HandleAmountChange(amount, max) ==
  /\ Shown /\ ~ IsBusy
  /\ max => amount # None
  /\ inputAmount' = amount
  /\ IF max \/ status \in {"error", "success"}
       THEN status' = "idle" /\ estimatedFee' = None
       ELSE UNCHANGED <<status, estimatedFee>>
  /\ UNCHANGED <<mode, confirmAmount, walletVars, simulations, transactions>>

\* The button is disabled for an invalid amount; while the overlay is open there
\* is no button, and Enter in the amount still submits.
HandleRequestSubmit ==
  /\ Shown /\ ~ IsBusy
  /\ status # "confirm" => inputAmount # None
  /\ IF inputAmount = None
       THEN status' = "error" /\ UNCHANGED <<estimatedFee, simulations>>
       ELSE /\ status' = "simulating" /\ estimatedFee' = None
            /\ simulations' = simulations \cup
                 {[mode |-> mode, amount |-> inputAmount, key |-> publicKey,
                   at |-> switches, call |-> Cardinality(simulations)]}
  /\ UNCHANGED <<mode, inputAmount, confirmAmount, walletVars, transactions>>

SimulationAnswers(s) ==
  /\ s \in simulations
  /\ simulations' = simulations \ {s}
  /\ confirmAmount' = s.amount /\ estimatedFee' = s /\ status' = "confirm"
  /\ UNCHANGED <<mode, inputAmount, walletVars, transactions>>

SimulationFails(s) ==
  /\ s \in simulations
  /\ simulations' = simulations \ {s}
  /\ status' = "error"
  /\ UNCHANGED <<mode, inputAmount, confirmAmount, estimatedFee, walletVars, transactions>>

-----------------------------------------------------------------------------
\* The overlay's confirm button.  Wallet and network sign for the account that
\* is active now.
HandleConfirm ==
  /\ Shown /\ status = "confirm"
  /\ status' = "pending"
  /\ transactions' = transactions \cup
       {[mode |-> mode, amount |-> confirmAmount, key |-> publicKey, at |-> switches,
         fee |-> estimatedFee, call |-> Cardinality(transactions)]}
  /\ UNCHANGED <<mode, inputAmount, confirmAmount, estimatedFee, walletVars, simulations>>

HandleCancel ==
  /\ Shown /\ status = "confirm"
  /\ status' = "idle" /\ confirmAmount' = None
  /\ UNCHANGED <<mode, inputAmount, estimatedFee, walletVars, simulations, transactions>>

\* A receipt without a hash, or not confirmed, is a failure.
Receipt(t, confirmed) ==
  /\ t \in transactions
  /\ transactions' = transactions \ {t}
  /\ IF confirmed THEN status' = "success" /\ inputAmount' = None
                  ELSE status' = "error" /\ UNCHANGED inputAmount
  /\ UNCHANGED <<mode, confirmAmount, estimatedFee, walletVars, simulations>>

AutoDismiss ==
  /\ status = "success"
  /\ status' = "idle"
  /\ UNCHANGED <<mode, inputAmount, confirmAmount, estimatedFee, walletVars,
                 simulations, transactions>>

-----------------------------------------------------------------------------
\* The effect on the account resets an action under way, but not after a
\* disconnection, which left no account to compare with.
WalletChanges(key, state) ==
  /\ switches < MaxSwitches
  /\ state \in {"connected", "wrongNetwork"} <=> key # None
  /\ <<key, state>> # <<publicKey, walletState>>
  /\ publicKey' = key /\ walletState' = state
  /\ switches' = IF key = publicKey THEN switches ELSE switches + 1
  /\ IF publicKey # None /\ key # publicKey /\ status \in {"confirm", "simulating", "pending"}
       THEN status' = "error" /\ confirmAmount' = None /\ estimatedFee' = None
       ELSE UNCHANGED <<status, confirmAmount, estimatedFee>>
  /\ UNCHANGED <<mode, inputAmount, simulations, transactions>>

Next ==
  \/ \E m \in Modes : HandleToggle(m)
  \/ \E a \in Figures \cup {None}, max \in BOOLEAN : HandleAmountChange(a, max)
  \/ HandleRequestSubmit \/ HandleConfirm \/ HandleCancel \/ AutoDismiss
  \/ \E s \in simulations : SimulationAnswers(s) \/ SimulationFails(s)
  \/ \E t \in transactions, c \in BOOLEAN : Receipt(t, c)
  \/ \E k \in Keys \cup {None}, w \in {"connected", "wrongNetwork", "disconnected"} :
       WalletChanges(k, w)

Spec == Init /\ [][Next]_claimVars

-----------------------------------------------------------------------------
\* What is sent is what was priced and shown: the amount is always that of the
\* simulation behind the overlay, and as long as the account has not changed so
\* are the mode and the account, with one transaction in flight.  The effect on
\* publicKey ("Please re-confirm transaction with the new account") lets one
\* more through with each change: a simulation of the old account still answers.
SentAsPriced ==
  /\ Cardinality(transactions) <= 1 + switches
  /\ \A t \in transactions :
       /\ t.fee # None /\ t.fee.amount = t.amount
       /\ t.at = 0 => t.fee.mode = t.mode /\ t.fee.key = t.key
=============================================================================
