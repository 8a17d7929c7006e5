# smile4money in TLA+

smile4money takes stakes on chess games: two players put the same amount into
an escrow contract on Stellar (Soroban), a backend watches the game on Lichess
or Chess.com and, as the oracle, reports who won, and the contract pays the pot.
A web application lets players create, fund and follow their matches.  This
directory models the parts that hold money, decide where it goes or show it,
checks them with TLC, and proves nearly every safety property checked with TLAPS.

Contents: [inventory](#inventory), [plan](#plan), [modules](#modules),
[runs](#runs-what-each-shows), [bounds](#bounds), [fairness](#fairness),
[proofs](#proofs), [where code and text differ](#where-the-code-and-its-text-differ),
[not modelled](#not-modelled).

## Inventory

Money and verdicts live on the chain; everything the backend keeps is a queue, a
cache or a journal of work still to be sent there.

```
 players --stake--> escrow contract <--submit_result-- outbox / submitters
                        ^   ^                              ^        |fails
   admin: override, ----+   +-- anyone: finalize,          |        v
   pause, drain                 claim_timeout              |   dead-letter queue
                                                           |     ^   | retry worker
 Lichess / Chess.com <--poll-- polling worker --verdict----+-----+   | (circuit breaker)
                                                                     v
                                   queue database <--- maintenance gate / live restore
```

| Component (source) | State it keeps | Operations | What makes it right | What is hard |
| --- | --- | --- | --- | --- |
| Escrow contract (`contracts/escrow`) | roles, pause flag, match records, game-id index, token balances | initialize, create_match, deposit, submit_result, override_result, finalize_result, claim_timeout, cancel_match, pause, drain, admin and oracle rotation | a match pays once, by its last verdict; the account covers every funded match | calls of five parties in any order, ledger deadlines, a shared account |
| Oracle contract (`contracts/oracle`) | admin and proposed admin, one immutable result per match, count | initialize, submit_result, propose/accept/cancel admin, list_results | one result per match for good; readers see them all | ids may be sparse, transfer in two steps |
| Tournament bracket (`contracts/tournament-bracket`) | tournaments, bracket nodes, one token balance | create, deposit, submit_match_result, cancel, claim_timeout | a fee leaves once; the champion won every round | results in any order, results during registration, shared balance |
| Leaderboard (`contracts/leaderboard`) | rosters, player stats, trusted sources | record_result, source and admin management, get_leaderboard | totals are what the sources reported; ranking order | repeated reports |
| Contract registry (`contracts/contract-registry`) | name -> contract and version | register, update, deregister, list | names sorted and unique, count agrees | - |
| Polling worker (`services/polling.ts`, `game-poller.ts`) | jobs and three indexes, timers, polls in flight | create, cycle, per-job timer, stop | every job ends once, in a verdict or in the queue | timers and a cycle poll the same job across awaits |
| Settlement outbox (`oracle-submit.ts`, `settlement-store.ts`) | one durable record per match | enqueue, save outcome, prepare, send, confirm, quarantine | at most one live transaction per match, across crashes | lost sends, forgotten hashes, two clocks, restarts |
| Direct submission and dead-letter queue (`oracle-submit.ts`, `queue.ts`, queue stores) | durable entries with attempts, retry cycles, eviction | submit with retries, write, retry, evict | no unsettled submission disappears; attempts are counted | overlapping cycles over stale copies, store failures |
| Circuit breaker (`circuit-breaker.ts`, its store) | state, counts, cooldown; saved snapshot | allowRequest, record, reset, restore | opens and closes for cause, keeps its cooldown over a restart | saves land in any order |
| Maintenance gate and live restore (`maintenance-gate.ts`, `live-restore.ts`) | hold flag, calls in flight, database file | store calls, hold, restore, rollback | nothing queued is lost, nothing settled is replayed | waits in both directions, failing files, crashes |
| Matches API, verification, identities (`match-service.ts`, match stores, `oracle-service.ts`, `player-identity.ts`) | match rows, id counter, game lock, evidence, usernames of wallets | create, verify a result, delete names | one match per game; results judged by the names of its creation | checks before an await, two stores, answers that change |
| Identity links (`player-identity.ts`, its route) | pending challenges, verified links | challenge, confirm | a link was proven by its wallet, in time, once | the platform is awaited between check and link |
| Backups (`sqlite-backup.ts`, `cli/db-backup.ts`) | main file, write-ahead log, backup directory | backup, verify, prune, restore | what was reported safe is whole; a restore yields the backup exactly | any command dies at any step |
| Game results (fetchers, `validate-game-service.ts`, `game-poller.ts`) | none | fetch with retries, normalise, accept, poll | a game accepted is one that can be settled; colours are fair | two platforms' vocabularies, rate limits |
| Outcome disagreement (`outcome-disagreement-*.ts`) | window of observations, checks scheduled and in flight, signals raised | schedule, retry, record, report, stop | a review signal has enough fresh disagreement behind it; a match counts once | checks finish in any order, also after stop |
| Settlement-age monitor (`settlement-age-monitor.ts`) | stages of open matches, ids of closed ones, last report | record a stage, evict, close, publish | a match that waits too long is reported | stages repeated, late, or of forgotten matches |
| Rate limits (`middleware/rate-limit.ts`, SQLite store) | a token bucket per client | take a token, refill, clean up | never more than burst and refill allow | instances racing over one row, each with its own clock reading |
| Transaction sponsor (`transaction-sponsor.ts`) | sponsorships with their day, source, sequence, fee | reserve, sign and submit | the daily budget and the limit per source hold | two connections checking before either wrote |
| Evidence ledger and reviews (`evidence-store.ts`, `routes/oracle-review.ts`) | append-only decisions per game, a lock per game | append, history, retry, sign off | one retry per decision under review | operators and verifications at the same time |
| Shutdown (`shutdown.ts`, `server.ts`) | shutting-down flag, requests and worker cycles in flight, open stores | signal, drain, close, exit, watchdog | stores close after the work that was drained | two signals, a hung step, work nobody drains |
| Elo pricing (`elo.ts`, `elo-multiplier.ts`) | none | select a rating, price a match | within its range, monotonic | floating point truncated at every step |
| Create-match form (`CreateMatch.tsx`) | form, validation in flight, review, signatures | type, submit, validate, review, confirm, cancel, reset | what is signed is what was reviewed | retyping while a validation is awaited |
| Responsible play (`responsible-play.ts`, its panel) | per wallet: exclusion, limit, pending limit | exclude, change the limit | stricter at once, looser only after the delay | pending changes taken over by later ones |
| Deposit page (`DepositStake.tsx`) | match details, allowance, status, calls in flight | fetch, check, approve, deposit | one deposit in flight | late answers rewrite the status that guards the button |
| Claim form (`claim-burn.tsx`) | mode, amount, fee, overlay, calls | simulate, confirm, send | sent is what was priced | the account changes meanwhile |
| Match page (`MatchStatus.tsx`) | match shown, interval, fetches | poll, stop when over | it shows that the match is over | late and failed answers |
| Wallet session (`useStellarWallet.ts`, `WalletProvider.tsx`) | account, network, status, balance, runs | connect, disconnect, refresh, wallet events | it shows the wallet as it is | every event starts a run of three awaits |
| Remaining views, scripts, health, logging, tracing, configuration | browser or process state | views, I/O | - | - |

The hazards of each are listed in `PROJECT.json`, at the line where they bite.

## Plan

Most important first: where money is, then what decides, then what delivers.

1. `Escrow` with the abstract `Settlement`, its runs and its proofs. *Done.*
2. `Polling`: from a finished game to a verdict. *Done.*
3. `Outbox`: from a verdict to one transaction. *Done.*
4. `BreakerState`, `CircuitBreaker`, `DeadLetterQueue`: what happens when that
   fails. `DeadLetterQueue` runs the breaker's operators, `CircuitBreaker` its
   persistence. *Done.*
5. `LiveRestore`: the queue's database replaced under its workers. *Done.*
6. `TournamentBracket`: the second contract that holds money. *Done.*
7. `OracleContract`, `Leaderboard`, `ContractRegistry`, paging over the escrow's
   matches (`MatchPages`), explored side by side by `MCContracts`. *Done.*
8. `TransactionSponsor`, `RateLimit`, `OutcomeMonitor`, `SettlementAge`,
   `ReviewLedger`, `Shutdown`, `MatchIntake`, `IdentityLinks`, `Backups`: the
   services around them, side by side with `CircuitBreaker` in `MCServices`. *Done.*
9. `GameResults` and `EloPricing`: what is made of the platforms' answers and of
   ratings, as operators checked against references and proved about. *Done.*
10. The web application: `ResponsiblePlay`, `CreateMatchForm`, `DepositStake`,
    `ClaimBurn`, `MatchStatus`, `WalletSession`, together in `MCFrontend`. *Done.*
11. Not done: a composition of polling, submission and escrow, what one finished game
    can do to one pot end to end. Each part is checked against what it assumes
    of the next one instead (`Outbox` and `DeadLetterQueue` have an external
    escrow that refuses a second result, which `Escrow` shows it does).

Theorems, in order: the escrow's types, payments, game-id index, permanence of
verdicts and refinement; the outbox; the restore; the poller; responsible play, game
results and prices; `Solvency` of the escrow and the bracket's fees, with the facts
about sums they need; the bracket's champion; the readers of pages; the dead-letter
queue; every service of the backend; every form and session of the application;
the leaderboard's ranking; the exits of the escrow. *Done*: every safety property the passing
runs check has its theorem, `PlayersCanExit` in the form the prover can read.

## Modules

Each contract call is one transaction: it commits all its writes or none, so
each call is one action whose conjuncts are its checks, and a call that fails
changes nothing. In the backend one action is one run of JavaScript between two
awaits, and control state says at which await an actor stands.

| Module | Models | State | Actions |
| --- | --- | --- | --- |
| `Escrow` | `escrow/src/lib.rs`, `types.rs` | storage keys by name, token balances, ledger; history: what each match paid, whether a drain moved money | every entry point, authorisations in its guard; `CloseLedger` |
| `Settlement` | what the escrow promises: pots that close once, by refund or by one payment | purses, stakes, closed pots | `Put`, `GiveBack`, `PayOut` |
| `MCEscrow` | sets for TLC | | |
| `Polling` | `polling.ts` | jobs, the store and its indexes, timers, a poll per poller and its await | cycle and timer polls split at the ledger, the platform and the callback; stop |
| `Outbox` | `advanceSettlement`, `settlement-store.ts` | record per match, the call in progress, transactions, mempool, chain, two clocks | one per await, `Throw` at any, external chain and worker |
| `BreakerState` | `CircuitBreaker` class | a record | pure operators |
| `CircuitBreaker` | the class over time, `sqlite-circuit-breaker-store.ts` | breaker, clock, saves in flight, saved row | requests, results, reset, saves landing or failing, restart |
| `DeadLetterQueue` | `submitWithIdempotence`, `submitWithRetry`, `queue.ts`, queue stores | chain, queue rows, submitters, retry cycles, eviction, breaker | one per await of each, the sweep of expired rows in `getAll`, crash |
| `MCSettlement` | `Outbox` and `DeadLetterQueue` for TLC, one of them per behaviour | all their variables, `part` | |
| `LiveRestore` | `maintenance-gate.ts`, `live-restore.ts` | file, open flag, gate, a call per entry, the restore | store calls, hold, each step of the restore, failures, crash |
| `TournamentBracket` | `tournament-bracket/src/lib.rs` | tournaments, nodes, balance, ledger; history: fees in and out | every entry point, `submit_match_result` split by whether it is the final |
| `OracleContract` | `oracle/src/lib.rs` | admin, proposed admin, results, count; a reconciler between two pages | every call that changes state; a page read |
| `Leaderboard` | `leaderboard/src/lib.rs`, `types.rs` | player stats, roster, sources, pause, count | `record_result`, the admin's calls; the ranking as an operator |
| `ContractRegistry` | `contract-registry/src/lib.rs` | registrations, their count, sorted names, event count | every call that changes state; pages as an operator |
| `MatchPages` | `list_matches`, `list_matches_after` of `escrow/src/lib.rs` | match count, two readers between pages | creation, page reads |
| `MCContracts` | the five above for TLC, one of them per behaviour | all their variables, `part` | |
| `TransactionSponsor` | `transaction-sponsor.ts` | the table and its write lock, requests at an SQL statement, the day; history: fees per day | one per statement, rollback, crash, midnight |
| `RateLimit` | `middleware/rate-limit.ts`, `sqlite-rate-limit-store.ts` | one client's bucket, racing requests with the clock they read, the clock; history: grants | both stores, clean-up, a failing store |
| `OutcomeMonitor` | `outcome-disagreement-monitor.ts`, `-service.ts` | window, checks and where they wait, stop, both signals | schedule, the reads of the chain and the platform, record, retry, report, stop |
| `SettlementAge` | `settlement-age-monitor.ts` | open timelines in order, closed ids, completed durations, active alerts | each stage, submission and its confirmation, abandon, sync, publish |
| `ReviewLedger` | `evidence-store.ts`, `routes/oracle-review.ts` | rows, the lock's queue, operators and a verification | queue, take the turn, read, append, fail, restart |
| `Shutdown` | `shutdown.ts`, its use in `server.ts` | handler, requests, polls, undrained cycles, stores, exit code | signal, work ending or starting, each step, failures, watchdog |
| `MatchIntake` | `match-service.ts`, `match-store.ts`, `sqlite-match-store.ts`, `oracle-service.ts`, `player-identity.ts` | rows, id counter, requests and the await each is at, evidence | creation, verification and name deletion, await by await; restart |
| `IdentityLinks` | `player-identity.ts`, its route | pending challenges, links, profiles, confirmations | challenge, profile edits, confirmation before and after its await, time |
| `Backups` | `sqlite-backup.ts`, `cli/db-backup.ts` | main file and log as numbers of commits, directory by day, each command's step | commit, checkpoint, backup, verify, prune, restore; death at each step |
| `GameResults` | fetchers, `result.ts`, `game-eligibility.ts`, `validate-game-service.ts`, `game-poller.ts` | - | operators |
| `EloPricing` | `elo.ts`, `elo-multiplier.ts` | - | operators giving sets of possible results |
| `MCServices` | `CircuitBreaker` and the nine services above for TLC, one of them per behaviour; `EloPricing` against a reference | all their variables, `part` | |
| `Filters` | JavaScript's `filter`, with the places kept in place of a test | - | operators |
| `ResponsiblePlay` | `responsible-play.ts`, its panel | settings per wallet, the clock; history: what was asked for when | exclude, lower, raise and remove the limit, refresh |
| `CreateMatchForm` | `CreateMatch.tsx`, the amount parsers, `routes/validate-game.ts` | fields, errors, validations in flight, review, signatures | type, submit, answers, confirm, cancel, reset, account change |
| `DepositStake` | `DepositStake.tsx` | details, allowance, status, clock; every call in flight | fetch, check, approve, deposit and their answers; another match or account |
| `ClaimBurn` | `claim-burn.tsx` | mode, amounts, status, fee, simulations and transactions in flight | type, simulate, confirm, send, answers, account change |
| `MatchStatus` | `MatchStatus.tsx`, `pages/Wager.tsx` | match and status shown, interval, requests | render, poll, read, answer, unmount |
| `WalletSession` | `useStellarWallet.ts`, `WalletProvider.tsx` | the extension, what is shown, runs and balance fetches | wallet events, clicks, each answer or failure |
| `MCFrontend` | the six above for TLC, one of them per behaviour; `GameResults` feeds the form | all their variables, `part` | |
| `SumProofs` | sums over finite sets, iterated steps, filters: the facts the other proofs share | | |
| `EscrowProofs`, `PollingProofs`, `SettlementProofs`, `LiveRestoreProofs`, `ContractsProofs`, `ServicesProofs`, `FrontendProofs` | theorems, see [proofs](#proofs) | | |

Definitions named `X_Something` stand just before `X` and are faulty variants of it,
used only to see that a property notices the fault.

Choices worth knowing:

- *Escrow.* `create_match` takes its token from an allowlist that only
  `initialize` writes, so one token is modelled. Ledger arithmetic panics past
  `u32::MAX` (overflow checks are on in the release profile); `MaxU32` brings
  that edge within reach. The reserve check is part of every payment. The checks of
  the four calls that end or correct a match are predicates (`MayCancel`, `MayClaim`,
  `MayFinalize`, `MayOverride`), so that what is said of who may leave can be proved.
- *Polling.* Jobs are objects that closures keep after their removal from the
  store, as in JavaScript; the store and its indexes hold ids. `ChessPlatformPoller`
  never throws, so a poll always answers. `createPollJob` is modelled with its
  duplicate checks. `game-poller.ts` adds fields (`action`, `decisionId`) the
  worker's types do not have and the worker ignores; `server.ts:106` builds it
  without stores, so the polling path verifies no identities and `GameResults!Poll`
  has none.
- *Outbox.* The worker that loops over records is not in the source; it is
  modelled from how `advanceSettlement` is meant to be called: one record at a
  time, as read from the store.
- *Dead-letter queue.* The handler is external: it may apply a submission and
  then fail, and resolves only once the result is on the chain.  The cycles are a
  constant set, because `setInterval` with an async callback lets them overlap.
- *Live restore.* Entries are ids: the attempt counts and errors a restore takes
  from the backup's version of an entry are left out.
- *Tournament bracket.* An entrant is its place in the list given at creation.
  Amounts are multiples of the smallest fee.
- *Leaderboard, registry.* Players and symbols are numbers in the order the code
  compares them in.
- *Readers* of `MatchPages` and `OracleContract` are the loops of the doc comments
  and of `docs/api-reference.md`: the contracts promise pages, and what a page is
  worth shows in a loop that runs while others write.
- *Match intake.* `server.ts` uses `SqliteMatchStore`; the in-memory one is explored
  too. What a platform answers may change from one fetch to the next.
- *Backups.* A database is the number of commits it holds. SQLite itself is
  external, and a restore runs while the service does not, as its procedure asks.
- *Game results, prices.* Payloads are reduced to what is decided on. Where floating
  point may fall just below a whole number, an operator gives both outcomes.
- *Frontend.* The wallet extension answers in the order it was asked; HTTP and RPC
  answers come in any order or fail. An amount is its digits before and after the
  point, since the two parsers differ on which must be there. `ReviewIsBuilt`
  says whether the `hooks/useTransactions` module exports what the form imports
  from it to build the review; at this commit it does not, and the form's tests
  (`CreateMatch.test.tsx:191`) expect that it does.
- *Age monitor.* The poller's list (`JobOrders`: any order by time of creation) and the
  calls that report stages are external: no file of the source creates the monitor.
  A percentile is the least value that enough others do not exceed, which is what
  the nearest rank of the sorted list is.
- *Dead-letter queue, further.* A cycle walks a copy of the queue taken when it
  began; the copy is a function from ids to entries, and its next entry the `Oldest`.
- *Identity links.* A nonce is the number of its challenge, so that the oldest pending
  challenge is the least of a set.
- *Monitors.* `filter` is written `Filtered(s, kept)`: the library's `SelectSeq` is
  recursive, and nothing could be proved about it. `Board` leaves the players without
  a match out the same way, and its insertion sort is a recursive function.
- *Reviews.* The verification that appends verdicts is external, as it is not in
  the source; it takes no lock, because only the retry route takes one.
- *Shutdown.* Two kinds of background work: what the dependencies drain (requests,
  polls) and what they do not (a retry cycle, an eviction pass).

## Runs: what each shows

Passing runs. A part that has no state in common with the others is explored in a
behaviour of its own (`part` is chosen by `Init` and never changes), so that one run
is as large as the sum of its parts, not their product.

- `escrow_safety`: two matches at once, all parties, pause, drain.
  `PaidByVerdict`: what a match paid over its life is exactly what its last
  verdict or its cancellation says. `Solvency`: the account covers every open
  stake until a drain. `GameIdIndex`: a game belongs to one match for good.
  `PlayersCanExit`: in every unfinished funded match some call open to the
  players gets the money out, now or at a later ledger, and a verdict can be either
  corrected or paid, never both or neither. `SettlesLikePots`: the
  contract implements `Settlement`.
- `escrow_liveness`: one match, with deadlines of length zero and past
  `u32::MAX`. `FundedMatchesSettle`; `VerdictsAreFinal`: after its window a
  verdict is never replaced, and what is settled never changes.
- `polling`: `JobsAccountedFor` (the by-match and by-game indexes name exactly the
  stored jobs, and a job leaves with an outcome), `StopIsFinal` (once `stop()` has
  returned nothing polls), `FinishedGamesLeave` (a finished game's job leaves).
- `settlement`. Outbox: `StoreMatchesChain` (nothing is on the network that was not
  saved first, nothing is confirmed that the chain does not hold),
  `OneTransactionPerMatch` (no two transactions of one match are ever on the
  network). Queue: `NothingDropped` (a submission that failed is queued, on the
  chain, or aged out, and its calls are counted), `OnlySettledLeaves`. Both:
  `ResultsGetSettled` (what is awaited is confirmed, quarantined, settled or aged
  out in the end).
- `restore`: `Quiesced` (no store call runs while the file is closed or swapped),
  `QueueSurvives` (nothing queued is lost, nothing settled comes back), `WaitersRun`
  (callers at the gate get through, also when the restore fails).
- `contracts`: `ReadersMissNothing` (a loop over pages misses nothing that was
  there when it began, of results, matches and names), `BoardIsRight` (wins are
  losses, played matches are twice the results, and pages are the ranking),
  `FeesAccountedFor` (no tournament is paid with another's fees, and a finished one
  kept nothing and gave nothing twice), `ChampionEarnedIt` (the players of a node are
  the winners below it, up to the champion), `FeesNeverStuck`.
- `services`: `CircuitMovesForCause` (the circuit opens and closes only after enough
  failures, or good tests, in a row, and no request passes an open one before its
  backed-off cooldown, nor after a restart if the last snapshot landed last),
  `SpendWithinPolicy` (no day spends more than the budget, no source more than its
  limit, no sequence twice, through failures and crashes), `LimitHolds` (grants never
  exceed the burst and what was refilled since), `SignalsAreWarranted` (a review
  signal has enough distinct, fresh and truly wrong matches behind it), `AlertsAreTrue`
  (a stage is reported when a match waits too long in it, however often it was
  retried, and only then), `OneRetryPerReview` (two operators never both retry one
  decision), `StoresCloseLast` (drained work is over when a store closes, and the
  process exits 0 only if all is closed), `RecordsHold` (one match per game, answered
  with what stays on record, through races and restarts), `VerdictsHold` (a verified
  result has the players its match was created with, and none of deleted names),
  `LinksAreProven` (a link has its own, unexpired, unused challenge, seen in the
  profile), `BackupsHold` (the database holds what was committed or restored, and a
  backup reported as taken stays whole for its retention). `PricesAreRight`, an ASSUME
  of `MCServices`, compares prices with the exact ones over a grid of ratings.
- `frontend`: `SignedAsReviewed` (the one open signature is for the amount, token and
  game the review showed, and the game was vouched for), `OneDepositInFlight` (but one
  more with each change of match, network or account), `SentAsPriced` (amount and, while
  the account stays, everything else), `CommitmentsHold` (what is in force loosens only
  as it was asked for, a full delay before), `ShowsTheEnd` (a page that stays on a match
  shows in the end that it is over, unless an overtaken answer misled it),
  `ShowsTheWallet` (at rest, the account, network and balance shown are the wallet's).
  `FirstAnswerCounts` and `ResultsAreComplete`, ASSUMEs of `MCFrontend`, check the
  fetchers' retries and what the poller hears over every reduced payload.

The `violation` runs `escrow_drain`, `polling_twice`, `bracket_seeds` and
`frontend_exclusion` are counterexamples to statements of the repository's comments and
tests, see [below](#where-the-code-and-its-text-differ).

Deadlock is not checked: every run stops legitimately, at the last ledger or tick of its
bounds or when every job, record, request or tournament is finished. What must not
wait for ever is stated as liveness instead.

## Bounds

Every bound is a CONSTANT named for it, used in a guard.

- Escrow: `escrow_safety` has 2 matches over 2 games and 3 ledgers with a window
  and a timeout of 1: both matches can be in any pair of states and a deadline
  can pass for one and not the other. Players, officials and games are symmetric
  there, and not in `escrow_liveness`: 1 match, 2 stakes, ledgers to `MaxU32` = 5,
  windows and timeouts of 0, 1 and 5.
- Polling: two jobs of one match, for one game or two, one timer poll beside the
  cycle (the overlap needs two pollers), 2 attempts.
- Outbox: 2 matches, 2 verdicts, 2 transactions, 2 rejections or crashes, so one
  match can resend while the other uses the account. The liveness property
  follows one match; the other gets in its way.
- Dead-letter queue: 2 submissions, 1 retry each, 2 failures, 1 crash, a circuit
  that opens at the first failure; one entry may reach the TTL, the other not; one
  retry cycle at a time. The liveness property follows one of the two like
  submissions; the other gets in its way.
- Live restore: 3 entries (one only live, one only in the backup, one in both), 1
  backup of any age, 2 restores, 1 crash; every file step may fail.
- Bracket: 2 tournaments of 2 or 4 entrants and fees 1 or 2 over one balance; the
  seeding run has 8 entrants, the smallest field where the layout goes wrong.
- Contracts: 3 players with counters to 2, so they reach their edge; pages of at
  most 2 over 5 matches, 4 match ids and 4 names, so that every list has a full,
  a short and an empty page.
- Services. Breaker: thresholds of 2, cooldown 1 doubling to its cap 3, clock to 5,
  two saves in flight, the fewest that can be reordered. Sponsor: 3 requests over
  a budget of 2 and a limit of 1 over 2 days, so that a third request meets a full
  day. Rate limit: a bucket of 2 refilled every 2 ticks, 2 racing requests, clock
  to 5. Outcomes: 3 matches in a window of 2, 2 attempts, age 1. Ages: 2 matches,
  tracking limits of 1 and 2, 1 closed id remembered, so that eviction and
  forgetting both happen. Reviews: 2 operators and a verification over 5 rows.
  Shutdown: 2 requests, 2 polls, 2 workers nobody drains, 2 stores. Intake: 3
  creations of 2 games, so two race for one game; 1 verification of up to 3 different
  answers, 1 restart. Links: 2
  confirmations of 2 challenges for one name, room for 1 pending. Backups: 2 commits,
  3 days, a retention of 1.
- Frontend: 1 address, periods of 1 and 3 around a delay of 2, limits of 1 and 2; an
  amount with a decimal and one over the limit (a violation run types `.5`), 1 validation
  beside the one awaited. The deposit page has 2 matches with stakes 1 and 2 and moves
  once between them or between accounts, with and without an allowance checker, and
  with either the clock still (`deposit`) or the settings still (`countdown`). The claim
  form switches once between 2 accounts; a session sees 2 changes and 1 click over at
  most 2 overlapping runs, the fewest that can overtake each other.

## Fairness

- Escrow: ledgers close, and somebody with a right to it finalises or claims the
  timeout; both are open to anyone or to the players, who are paid by them.
  Nothing is assumed of the oracle or the admin. A funded match settles short of
  a drain, which the property names.
- Polling: timers fire and promises settle (weak); a platform asked again and
  again about a finished game reports it at some time (strong).
- Outbox: the worker and the chain go on (weak); the followed record's advance is
  taken again and again (strong: an external worker loops over the records); only
  finitely many awaits reject.
- Dead-letter queue: intervals fire, cooldowns end, cycles go on, and a submission a
  handler goes on waiting for reaches the contract, all weak; finitely many awaits
  reject. Without the last, an entry at the head whose error names the RPC re-opens
  the circuit each time and the rest starve: the code promises nothing else.
- Live restore: awaits settle (weak); a caller woken at an open gate gets there
  before the next restore at some time (strong: its continuation is queued by the
  release itself).
- Bracket: ledgers close and somebody claims the timeout, which is open to anyone;
  the reserve has been funded.
- Match page: the interval fires while it is armed and its reader goes on (weak); a
  fetch asked again and again is answered at some time (strong).

Other services, contracts and forms: no liveness is claimed; nobody is obliged to call
them.

## Proofs

All theorems hold for every value of the constants their assumptions allow: any number of
matches, players, jobs, requests and calls in flight, and any order of their steps. TLC
evaluates those assumptions in the runs. For a state machine the argument is always the
same: an inductive invariant, a lemma that `Init` establishes it, a lemma per action that
it is preserved, and the property as one of its conjuncts, as a consequence of it, or,
for an action property, as a consequence of it and one step. A component that runs as a
part of `MCSettlement`, `MCContracts`, `MCServices` or `MCFrontend` is proved about
there, as the instance the runs explore: a lemma says that what that module does is a
step of the component or leaves its variables alone.

The last column says what the invariant adds to the property, that is why the property
alone is not preserved.

| Theorem (property) | What the argument rests on |
| --- | --- |
| **`EscrowProofs`** | |
| `TypeCorrect`, `PaymentsFollowVerdicts` (`PaidByVerdict`), `SettledForGood` (`VerdictsAreFinal`) | `MatchesShape` ties a record's fields to its state: a pending result has its verdict and both deposits, so what `finalize_result` pays is known before the call |
| `OneGameOneMatch` (`GameIdIndex`) | ids are below `matchCount`, so a new match overwrites none |
| `AccountHoldsStakes` (`Solvency`) | the balance is a sum over all matches; one call changes one summand, and a payment is at most its own summand |
| `ExitsStayOpen` (`PlayersMayExit`: `PlayersCanExit` with the checks of each call in place of `ENABLED`) | a solvent account with its reserve covers any one match, as a part of a sum is at most the whole; a pending verdict has two alternatives; matches exist only once the contract is initialized |
| `ContractIsPots` (`SettlesLikePots`) | a pot's contents are the deposits of its record; each call closes one pot, fills one or stutters |
| **`PollingProofs`** | |
| `NoJobIsLost` (`JobsAccountedFor`), `StoppedForGood` (`StopIsFinal`) | closures and cycles name jobs that have left the store: a key belongs to its own job, so removing one never touches another's entries; `StopHolds` says what stopping has left |
| `LichessIsFair`, `ChessDotComIsFair`, `FourRefusals`, `AcceptedIsPolled`, `RulesNeverRefuse` | facts about the operators of `GameResults`: exchanging colours exchanges winners, a rate limit is reported after exactly four refusals, what is accepted for a wager is what the poller will not fail on |
| **`SettlementProofs`** | |
| `RecordsMatchChain` (`StoreMatchesChain`), `NoReplacement` (`OneTransactionPerMatch`) | a call holds a copy of the row: `CallAgrees` says at which await they may differ (only before the prepared transaction is saved, which is then unsent) |
| `AnswersAreKept`, `OnlySettledEntriesLeave` (`OnlySettledLeaves`) | every cycle's copy is of entries that were queued, for the same match, and what it is about to remove is settled; for any number of cycles at once |
| `NothingIsDropped` (`NothingDropped`) | the same with the attempts of an entry, for one cycle at a time (`OneCycle`); with two the stale copies make it false |
| **`LiveRestoreProofs`** | |
| `RestoreIsAlone` (`Quiesced`), `RestoreKeepsTheWork` (`QueueSurvives`) | `Recoverable` says, for each await of the restore, where the work still to be done is: in the file, in the copy set aside, in the list of live entries, or still to be repaired |
| **`ContractsProofs`** | |
| `FeesAreAccountedFor` (`FeesAccountedFor`), `ChampionsEarnIt` (`ChampionEarnedIt`) | a bracket is a tree: a node's players are the winners below it, a ready node has everything before it decided, and so a ready final means that every entrant has paid; balances are sums over the tournaments that run |
| `PagingsMissNothing` (`ReadersMissNothing`), from `ReconciliationsMissNothing`, `MatchPagesMissNothing` and that names are paged | what a reader is owed and lies before its next page it has seen; what a reader of matches has seen is a run of ids; the stored names are ascending and are those registered |
| `BoardStaysRight` (`BoardIsRight`), from `ResultsBalance` and `PagesRankThePlayers` | a result adds to the columns of two players; the totals are sums over players, saturating at their width. The roster names whoever has played once; inserting a row into sorted rows keeps them sorted, for any number of rows, and the pages put together are the board |
| **`ServicesProofs`** | |
| `CircuitMoves` (`CircuitMovesForCause`) | counts never exceed the history of results; the newest snapshot is the last in flight or has landed, and a landed one agrees with the breaker |
| `SpendStaysWithin` (`SpendWithinPolicy`) | the ledger's rows are the sponsorships of the history; only one connection is between its `BEGIN IMMEDIATE` and its commit, so what it counted is still so |
| `LimitIsKept` (`LimitHolds`) | for each stretch of time, grants plus the tokens left are bounded by a full bucket and the refill, in terms of the row's last refill, for clock readings as old as the requests |
| `SignalsHaveCause` (`SignalsAreWarranted`) | every entry of the window tells of a different match, and its latest check; so as many entries are as many matches |
| `AlertsHaveCause` (`AlertsAreTrue`) | for a match not forgotten: in which of the monitor's books each phase is kept, and that its timeline has the times of its life; each duration has a settled match that accounts for it |
| `OneRetryAnswersOneReview` (`OneRetryPerReview`) | whoever is past its read holds the game's lock, and what it read is still the last operator's row |
| `StoresCloseAfterWork` (`StoresCloseLast`) | a handler that closes stores has no request or poll left and no new one starts |
| `RecordsStay` (`RecordsHold`), `VerdictsAreRight` (`VerdictsHold`) | an id is used once, rows answered for are stored, and a verification's copy of the names is the row's or was deleted |
| `LinksNeedProof` (`LinksAreProven`) | a confirmation past its check was of an unexpired challenge of its wallet; the profile was seen showing it before it linked |
| `NothingSafeIsLost` (`BackupsHold`) | at each step a command can die, the file and its log together hold what was committed, or the name that replaces it does |
| `MultiplierInRange`, `StrongerIsNotCheaper`, `UnratedIsBasePrice`, `StakeInRange` | facts about `EloPricing`, over every outcome of the truncations |
| **`FrontendProofs`** | |
| `PlayInvariant`, `Commitments` (`CommitmentsHold`) | a looser rule that will come into force is the one asked for, at the time asked for |
| `MatchesAreAsReviewed` (`SignedAsReviewed`) | the review carries the validation it was built from, and a signature the review |
| `DepositsAreFew` (`OneDepositInFlight`) | a potential: calls in flight, and whether the button can be clicked, against the moves so far and the check still expected |
| `ClaimsAreAsPriced` (`SentAsPriced`) | a fee shown is that of the amount shown, while the account stays |
| `TheWalletIsShown` (`ShowsTheWallet`) | what is shown is right, or an event is still to be heard, or a run that will correct it is under way: for each await of a run what it has asked and what it was told |

*Sums, counts, filters and iterated steps.* The library's induction theorems take an
operator as a parameter, which the installed provers cannot instantiate. `SumProofs`
proves what is needed from a smallest counterexample instead: among the subsets of a
finite set for which a fact about sums fails, one has the fewest elements (`LeastNat`),
and taking one element out of it contradicts the choice. So are proved that a sum over a
set is unique, that changing one summand changes it by as much, that a part is at most
the whole, that a sequence of steps has its result, and that `Filtered` keeps exactly the
places it is given, in order.

*What proving has corrected.* `WaitsSince` was first written as a `CASE` whose guards
overlap, which in TLA+ leaves the value open and which TLC reads top down: the proof
of `AlertsAreTrue` failed there, and it is now an `IF` in the order of the code. The
percentile and `filter` were written with recursive library operators and are now
written by what they do; the dead-letter queue's copies, the identity links' nonces and
the review ledger were given simpler data; the leaderboard's filter and sort were
written as functions. `PlayersCanExit` was false for deadlines past `u32::MAX`, which no
instance it is checked on has: the proof of `VerdictIsOpen` needs `deadline <= MaxU32`,
and the property now says so. None of this changed what TLC explores except
the poller's list, which now comes in any order by time of creation.

Only model-checked:

- liveness (`FundedMatchesSettle`, `FinishedGamesLeave`, `ResultsGetSettled`,
  `WaitersRun`, `FeesNeverStuck`, `ShowsTheEnd`): out of the prover's reach;
- that the checks of a call are all that can stop it: `PlayersCanExit` is about
  `ENABLED`, which the prover cannot reason about either. `PlayersMayExit` is the same
  formula over those checks, after which each call only assigns, and is proved;
- `PricesAreRight`, `FirstAnswerCounts` and `ResultsAreComplete`, which compare
  operators with references over bounded inputs;
- the counterexamples, of course.

## Where the code and its text differ

With a run:

| Run | Property | Text | Code |
| --- | --- | --- | --- |
| `escrow_drain` | `DrainAwaitsSettlement` | `contracts/escrow/src/lib.rs:1178`: the admin must wait for every active match to be `Completed` or `Cancelled` | the drain refuses only for `Active`; a funded `PendingResult` match does not stop it |
| `polling_twice` | `CompletedOnce` | `provider-outage.test.ts:188`: one completed game, one callback | a job timer and a cycle both await the same game; neither looks at the store again |
| `frontend_exclusion` | `ExclusionStopsTheFlow` | `CreateMatch.tsx:251`, `docs/responsible-play.md:13`: self-exclusion stops the flow before anything is validated or sent | the check is skipped for amounts its own parser refuses (`.5`, `1.`) and the form's parser takes |
| `bracket_seeds` | `SeedsMeetInFinal` | `tournament-bracket/src/lib.rs:199`, ADR-003: the top two seeds only meet in the final | true for 4 entrants; with 8 the pairs of seeds 1 and 2 feed the same semifinal |

Met while modelling, without a run of their own:

- *Escrow.* `initialize` bounds neither the dispute window nor the timeout
  (`contracts/escrow/src/lib.rs:344`): where a deadline passes `u32::MAX`, the sum panics
  in `override_result`, `finalize_result` and `claim_timeout` alike, and a pending verdict
  can then be neither corrected nor paid. `PlayersCanExit` speaks of deadlines that fit.
  `pending_winner` stays set after finalisation. A verdict is accepted
  past the timeout as long as nobody claimed it. Both players may cancel an
  `Active` match at any time. `list_matches_after(u64::MAX, ...)`, the documented
  start of the cursor loop, answers an empty page, and no cursor yields match 0.
  The short-page test of the offset loop ends it early for limits over 100.
- *Oracle contract.* `list_results` scans ids below the number of results, so with
  sparse ids later results are never listed, and the documented loop stops at
  the first empty page: `ReadersMissNothing` is stated for a prefix of ids.
- *Leaderboard.* The token of a player's record is that of the last win, while
  earnings add up over all tokens. `types.rs:94` returns an `Option` that
  `lib.rs:353` compares with a number; it is modelled as the sum.
- *Bracket.* Results are taken during registration, and such a tournament can
  still be cancelled. `prize_schedule` is stored and never read by the payout.
  `claim_prize` of ADR-003 is not in the code: the final pays the champion.
- *Polling.* A poll in flight at `stop()` can arm a timer after it. A game the
  platform does not know is polled until the ledger timeout.
- *Breaker.* Saves are not awaited: when an older snapshot lands last, a restart
  forgets an open circuit. `CircuitMovesForCause` speaks of a restart whose last snapshot landed last.
- *Dead-letter queue.* Overlapping cycles work on copies: attempts are
  overwritten and the second cycle runs on while the first has opened the circuit.
  `docs/oracle.md:250` has a retry ask the chain first; `retryDlqSubmission`,
  which `server.ts:11` imports for it, is not in the source. `docs/oracle.md:271`
  archives evicted entries; the queue store deletes them.
- *Live restore.* After the swap the live entries exist in memory only: a crash,
  or a rollback that fails too, loses them, and `QueueSurvives` holds up to it. A
  failing copy before the swap opens the gate on a closed store. A restored
  entry takes its attempt count from the backup.
- *Dead-letter queue, further.* `queue.ts:202` lists the entries outside the `try`: a
  rejection there is unhandled. `submitWithRetry` logs the delay of the next attempt
  and sleeps that of this one. With two overlapping cycles the second half of `NothingDropped` fails, as
  each writes back its own copy's count; the run has one cycle at a time.
- *Polling, further.* `polling.ts:619`: the job is removed before the callback, whose
  rejection is only logged, so that result reaches neither the outbox nor the queue.
- *Outbox.* No worker in the source drives it.
- *Outcome disagreement.* The comment on `stop` has checks in flight discarded; they
  are recorded and may still raise the signal. `getStatus` "has no side effects" and
  prunes the window.
- *Settlement age.* At its limit the monitor evicts the oldest timeline, the one most
  likely stuck; past the closed ids it remembers, a late stage opens a settled match
  again. `AlertsAreTrue` speaks of the matches not forgotten.
- *Shutdown.* Stores are to close after anything that may still write, yet a retry
  cycle or an eviction in flight is not waited for, and `server.ts` passes neither
  `stopOutboxDispatcher` nor `closeMatchStore`.
- *Sponsor.* A reservation counts for the day its request read the clock, so a
  request across midnight spends from yesterday.
- *Rate limits.* An error of the store lets the request pass; `X-RateLimit-Limit` is
  the text `100` for every limit; nothing imports `rate-limiter.ts`.
- *Reviews.* Only the retry route takes the game lock, whose comment names
  verification too.
- *Oracle service and match store.* `validateSubmitResultInput` refuses match 0, the
  first id, and never compares `input.matchId` with the match. `SqliteMatchStore` lacks
  the `unlinkIdentities` a route calls, and words its duplicate error so that the route
  answers 500 instead of 409. `routes/oracle.ts` passes a third argument and reads a
  `decisionId` that `verifyGameResult` does not have. Usernames are stored white to
  player 1, black to player 2, whatever wallets they belong to. A game id is unique over
  both platforms.
- *Identity links.* Two confirmations of one challenge both succeed; the expiry is not
  looked at again after the await; an older confirmation that answers late replaces a
  newer link. `LinksAreProven` says what holds all the same.
- *Backups.* Pruning keeps the newest file even if it is half written, and then deletes
  the last whole backup once it is past its retention (`docs/oracle-db-recovery.md:23`).
  A restore that dies between removing the log and the rename leaves a database without
  its log; `expected` is None until it is run again.
- *Game results.* The fetchers attach no metadata and report only `in_progress` or
  `finished`, so the eligibility rules never refuse (`RulesNeverRefuse`; docs/supported-games.md
  has completion checked for every game). Aborted games, wins by `cheat` and flag falls
  without a winner are ambiguous: the poll fails and is repeated until the timeout.
- *Prices.* No route uses them. Truncated floating point loses up to two hundredths of
  a multiplier (1.15 becomes 1.13) and one stroop of a stake.
- *Server.* `createOutcomeDisagreementServiceFromEnv` is used at `server.ts:89`
  and not imported.
- *Create-match form.* It imports a review builder its hook module does not export (see
  `ReviewIsBuilt`). An amount with 7 decimals sets a warning nothing clears, which keeps
  the button disabled. A correction of the Chess.com name keeps the old validation; the
  review's network passphrase is ignored; the account may change after the limit check.
- *Deposit page.* A late answer for an older match shows its stake. A finished approval
  sets the status to idle over a pending deposit. A deposit fetches nothing anew.
- *Claim form.* A simulation of the old account reopens the overlay after a switch.
- *Match page.* An answer overtaken by a newer one, or one of the previous match, may stop
  the polling for good.
- *Wallet session.* Disconnecting cancels neither runs nor balance fetches; a failed
  connect keeps the old address. When polling for a transaction gives up it is
  reported as failed though it may still be applied.

## Not modelled

- The wiring of `server.ts` beyond the shutdown: construction of the services.
- `rate-limiter.ts`, imported nowhere, and `bottleneck-limiters.ts`, the
  configuration of a library.
- Shared contract code: constants and one pure test.
- Signing and RPC: calls of libraries. What they answer enters the models as a set.
- Evidence and dispute bundles: what other parts recorded, collected into a file.
- Migrations, capacity reports and the replay command: run once, or read only. A backup
  made elsewhere enters `LiveRestore` as an external action.
- The MongoDB queue store: the same interface, not wired by the server.
- Status and health views, configuration, errors, logging, tracing: nothing a
  property depends on.
- The frontend's remaining views: lists and history that read and show; `useWallet.ts`,
  which no component uses.
- Build, release and deployment scripts.
- Throughout: storage TTLs and archival, events, gas, token internals, HTTP.
