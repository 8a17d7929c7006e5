---------------------------- MODULE WalletSession ----------------------------
(***************************************************************************)
(* The wallet of the web application (apps/frontend/src/hooks/             *)
(* useStellarWallet.ts and providers/WalletProvider.tsx): every change of  *)
(* the wallet and every click on connect starts a run that asks the        *)
(* extension three questions, one after the other; runs overlap.           *)
(*                                                                         *)
(* The extension is installed and answers in the order it was asked.       *)
(***************************************************************************)
EXTENDS Integers, Sequences

CONSTANTS
  None,
  Accounts, Networks,
  Expected,    \* EXPECTED_NETWORK, a member of Networks
  Unknown,     \* a network the application does not know, a member of Networks
  MaxRuns, MaxChanges, MaxClicks  \* bounds

VARIABLES
  wallet,      \* the extension: [account, network], account None when locked
  events,      \* changes whose event is still on its way
  status, address, network, balance,
  runs,        \* questions in flight, as asked: [kind, asks, key, got, failed]
  fetches,     \* balance fetches in flight that nothing aborted: [of, on]
  changes, clicks

pageVars == <<status, address, network, balance>>
boundVars == <<changes, clicks>>
walletVars == <<wallet, events, pageVars, runs, fetches, boundVars>>

Init ==
  /\ wallet \in [account : Accounts \cup {None}, network : Networks]
  /\ events = 0
  /\ status = "disconnected" /\ address = None /\ network = Unknown /\ balance = None
  /\ runs = << >> /\ fetches = {}
  /\ changes = 0 /\ clicks = 0

-----------------------------------------------------------------------------
\* A question; the first one carries no account yet.
Ask(kind, asks, key) == [kind |-> kind, asks |-> asks, key |-> key,
                         got |-> None, failed |-> FALSE]

WalletChanges ==
  /\ changes < MaxChanges
  /\ wallet' \in [account : Accounts \cup {None}, network : Networks] \ {wallet}
  /\ changes' = changes + 1 /\ events' = events + 1
  /\ UNCHANGED <<pageVars, runs, fetches, clicks>>

\* handleWalletChange, to its first await
HandleWalletChange ==
  /\ events > 0 /\ Len(runs) < MaxRuns
  /\ events' = events - 1
  /\ runs' = Append(runs, Ask("change", "isConnected", None))
  /\ UNCHANGED <<wallet, pageVars, fetches, boundVars>>

\* connect, to its first await
Connect ==
  /\ clicks < MaxClicks /\ Len(runs) < MaxRuns
  /\ clicks' = clicks + 1
  /\ status' = "connecting"
  /\ runs' = Append(runs, Ask("connect", "isConnected", None))
  /\ UNCHANGED <<wallet, events, address, network, balance, fetches, changes>>

\* The extension reads its state for the first question it has not read yet.
\* An account cannot be had from a locked wallet.
ExtensionReads ==
  \E i \in DOMAIN runs :
    /\ runs[i].got = None
    /\ \A j \in 1 .. (i - 1) : runs[j].got # None
    /\ \E fails \in BOOLEAN :
         /\ wallet.account = None /\ runs[i].asks = "getPublicKey" => fails
         /\ runs' = [runs EXCEPT ![i].got = wallet, ![i].failed = fails]
    /\ UNCHANGED <<wallet, events, pageVars, fetches, boundVars>>

-----------------------------------------------------------------------------
\* An aborted fetch ends in its catch, which clears the balance.
Aborted_None(fs) == fs
Aborted(fs) == {}
StartBalanceFetch(of, on) ==
  /\ fetches' = Aborted(fetches) \cup {[of |-> of, on |-> on]}
  /\ balance' = IF fetches = Aborted(fetches) THEN balance ELSE None

Head1 == runs[1]
Replied == runs # << >> /\ Head1.got # None
Locked == Head1.asks = "isConnected" /\ Head1.got.account = None
Answered(asks) == Replied /\ ~ Head1.failed /\ ~ Locked /\ Head1.asks = asks
Reset(s) == status' = s /\ address' = None /\ network' = Unknown /\ balance' = None

\* connect leaves the account alone where an event clears everything.
Refused ==
  /\ Replied /\ (Head1.failed \/ Locked)
  /\ runs' = Tail(runs)
  /\ IF Head1.kind = "change"
       THEN Reset("disconnected")
       ELSE /\ status' = IF Head1.failed THEN "error" ELSE "disconnected"
            /\ UNCHANGED <<address, network, balance>>
  /\ UNCHANGED <<wallet, events, fetches, boundVars>>

IsConnected ==
  /\ Answered("isConnected")
  /\ runs' = Append(Tail(runs), Ask(Head1.kind, "getPublicKey", None))
  /\ UNCHANGED <<wallet, events, pageVars, fetches, boundVars>>

GotPublicKey ==
  /\ Answered("getPublicKey")
  /\ address' = Head1.got.account
  /\ runs' = Append(Tail(runs), Ask(Head1.kind, "getNetwork", Head1.got.account))
  /\ UNCHANGED <<wallet, events, status, network, balance, fetches, boundVars>>

GotNetwork ==
  /\ Answered("getNetwork")
  /\ network' = Head1.got.network
  /\ status' = IF network' \in {Unknown, Expected} THEN "connected" ELSE "wrongNetwork"
  /\ StartBalanceFetch(Head1.key, network')
  /\ runs' = Tail(runs)
  /\ UNCHANGED <<wallet, events, address, boundVars>>

-----------------------------------------------------------------------------
RefreshBalance ==
  /\ clicks < MaxClicks /\ address # None
  /\ clicks' = clicks + 1
  /\ StartBalanceFetch(address, network)
  /\ UNCHANGED <<wallet, events, status, address, network, runs, changes>>

BalanceAnswers(f, fails) ==
  /\ f \in fetches
  /\ fetches' = fetches \ {f}
  /\ balance' = IF fails THEN None ELSE f
  /\ UNCHANGED <<wallet, events, status, address, network, runs, boundVars>>

\* Neither the runs nor a fetch in flight are stopped.
Disconnect ==
  /\ clicks < MaxClicks
  /\ clicks' = clicks + 1
  /\ Reset("disconnected")
  /\ UNCHANGED <<wallet, events, runs, fetches, changes>>

Next ==
  \/ WalletChanges \/ HandleWalletChange \/ Connect \/ ExtensionReads
  \/ Refused \/ IsConnected \/ GotPublicKey \/ GotNetwork
  \/ RefreshBalance \/ Disconnect
  \/ \E f \in fetches, fails \in BOOLEAN : BalanceAnswers(f, fails)

Spec == Init /\ [][Next]_walletVars

-----------------------------------------------------------------------------
\* What components see (WalletProvider).
WalletState == IF status = "connected" /\ network # Expected THEN "wrongNetwork" ELSE status

\* Once no event, question or fetch is on its way, a page that shows a wallet
\* shows the one the extension has, on its network, and a balance only of that
\* account on that network -- however runs, clicks and failures overlapped
\* (handleWalletChange, connect, disconnect, refreshBalance).
AtRest == events = 0 /\ runs = << >> /\ fetches = {}
ShowsTheWallet ==
  AtRest /\ WalletState \in {"connected", "wrongNetwork"} /\ address # None =>
    /\ address = wallet.account /\ network = wallet.network
    /\ balance \in {None, [of |-> address, on |-> network]}
=============================================================================
