# Verification of the Jeet Analyzer hosted beta

TLA+ models of Jeet Analyzer, the TLC configurations that check them, and
theorems about them that TLAPS checks. Paths are relative to the repository.

Run `tlc -config <X>.cfg MC<module>.tla` for a run and `tlapm <X>Proofs.tla` for the
proofs. `PROJECT.json` maps every definition to the lines it models, and lists the
runs, the mutants that show each property can fail, the hazards and the theorems.

## The system

Jeet Analyzer collects Solana history about a wallet or a token through a paid
provider, within strict budgets, and reports on it. A FastAPI application lets
invited or anonymous visitors start such investigations. Members pay with SOL; a
Telegram bot offers the same; a small paper game runs beside it.

| Component | State it keeps | Operations | Talks to | Hard because |
|---|---|---|---|---|
| Investigation admission and job manager (`beta_store.py`, `beta_service.py`, `app.py`) | table `beta_investigations`, thread pool, process | submit, run, complete, fail, recover, shutdown | engine adapter, payments, Telegram, web client | handler and worker threads around one table; kills, restarts, storage errors; UTC days |
| Hosted beta configuration (`beta_config.py`) | limits read at start | parse, build a request | job manager | limits may change over a restart |
| Engine adapter (`service.py`) | a process-wide lock, receipts on disk | run an engine | job manager, engine | one engine at a time |
| SOL payments (`sol_payments.py`) | `sol_invoices`, `sol_memberships`, recovery codes | create invoice, verify, membership | chain provider, web, Telegram, job manager | two transactions around slow calls; late, shared and repeated payments |
| Prediction game and bonding feed (`game_store.py`, `pump_feed.py`) | queue in memory; `game_*` tables | create, complete, sell; visit, predict | chain websocket, web client | events lost or repeated; feed thread against handlers |
| Telegram transport (`telegram/`) | inbox, watches, pairings, payment messages; three tasks | poll or webhook, worker, edits of watched messages | job manager, payments, Telegram | at-least-once updates, awaits between read and write, stale watches, a task that dies |
| Login throttling, middleware (`security.py`, `secure_app.py`, `search_public.py`) | failures by client | check, record, forget | app | check and record are two steps; bounded table |
| Beta sessions (`beta_auth.py`) | none (signed cookies) | issue, verify | app | - |
| Usage counters, operator views (`usage.py`, `operator_dashboard.py`) | counters | record, summarise | app | - |
| Local registry (`store.py`, `models.py`) | records in memory | create, update | local UI | - |
| Provider budget and cache (`investigation.py`) | counters by dimension, window of payloads, page manifests | before_request, observe, get, set | history, RPC client, cluster | several ceilings at once; payloads evicted under their manifests |
| Provider history (`history.py`, `providers/`) | cursor, pages; lots and events | fetch with retries, normalize, verify_exit, rank sellers | budget, provider | broken pages, repeated tokens, completeness claims; order within a second |
| RPC client, watcher, CLI (`analyzer.py`, `cli.py`) | account records; balances, rotating log | read accounts, run a command, subscribe | provider | reads that fail, reconnects, stale snapshots |
| Cluster audit (`cluster.py`) | queue, depths, classifications | visit, classify, conclude | history, graph | limits, failures and a budget cut the graph; some failures are noted, some are not |
| Graph and accumulator (`graph.py`, `graph_accumulator.py`) | facts in a spool on disk, two indexes in memory | ingest, extract | cluster | indexes and spool must agree |
| Wallet lifecycle (`lifecycle.py`) | none | run a timeline, find the exit | report | claims from incomplete data |
| Control likelihood, targeting, progress, reports (`control.py`, ...) | none | score, describe, validate | report | thresholds |
| Classifier, case export (`tx_classifier.py`, `case_export.py`) | none | transform documents | report | - |
| Web client (`frontend/`) | page state | poll, resubmit | app | stale polls |
| Scripts, deployment (`scripts/`, `docker-compose.beta.yml`) | - | - | - | restart policy |

What makes each of them correct:

- **admission**: credits committed on a day never exceed the cap; what a run used is
  covered by its charge; a row is settled once; nothing is left behind but by a fault;
  quotas and pools survive changes of membership;
- **payments**: a payment is credited once and buys exactly its days; nobody is asked
  to pay twice;
- **game**: every call on a round is settled, balances follow the rules, no round is
  forgotten;
- **Telegram**: an update is handled once or reported; an account that was unlinked is
  shown nothing more than what was under way; controls and jobs are kept track of;
- **budget, history**: no request beyond a ceiling, completeness claimed of whole
  histories only, each row given to the consumer once;
- **exit reports**: a seller reported out is out, unit for unit, and the reports agree;
- **graph, cluster**: what an audit concludes holds of the whole chain, not only of
  what its limits and failures let it see; it does as far as the failures are noted.

## Modules

| Module | Models |
|---|---|
| `CreditUnits` | sums of credits as cardinalities, so that they can be reasoned about |
| `Queues` | what a pass over a list keeps, as a function that proofs can follow |
| `CreditLedger` | the abstract promise: a hold per investigation, settled once, within the cap of its day |
| `BetaJobs` | admission, pool, execution, settlement, shutdown, kill, restart, days |
| `SolPayments` | invoices, checks in two transactions, grants, the chain, restarts |
| `PumpGame` | the feed's queue, rounds, players, calls, settlement, restarts |
| `Investigation` | the ledger of one investigation: budgets, window of payloads, manifests (operators on a record) |
| `HistoryPages` | reads of an investigation, request by request, over that ledger |
| `ExitVerdict` | a chain of moves, its listing by the provider, and `verify-exit` over the listing |
| `WalletLifecycle`, `SellerRanking` | the wallet report and the scan over the same listing |
| `ExitReports` | what the three reports owe to the chain and to one another |
| `TransactionAutopsy` | what one transaction proves, and the class of an address |
| `GraphEvidence` | facts, indexes, edges, unresolved rows, depths, common control |
| `ClusterAudit` | the audit from its seed to its statuses, composed of the two above |
| `ClusterReports` | what an audit may conclude, against the whole chain |
| `TelegramInbox` | updates, the worker, the editor, watches, payment messages, crashes |
| `DataFacts` | lemmas about sums, numbers and lists that the proofs share |
| `*Proofs` | theorems and their proofs |
| `MC*` | symmetry sets, pages, holdings and worlds for TLC |

### `BetaJobs` and the code

A row of the table is a record with the columns that decide anything: state, code,
target, tier, UTC day of `created_at`, credits reserved and used, and the credit
ceiling in the stored request. `request[h]` is what handler thread `h` holds between
the reads before `create_or_get`, the transaction, and `executor.submit`. `thread[i]`
is where the pool is with job `i` in `_execute`.

- `BeginSubmit`, `Admit`/`Dismiss`, `Enqueue` are `submit` cut at its points of
  interleaving: terms and day read, admission transaction, executor.
- `MarkRunning`, `AcquireEngine`, `Spend`, `EngineEnds`, `Complete`,
  `HandleException` are `_execute`; their `...Fails` twins are storage errors at the
  same point, bounded by `MaxFaults`.
- `Shutdown`, `Exit`, `Crash`, `Restart` are the process. `Restart` includes
  `recover_interrupted`.
- `Allotment`, `Refused`, `Duplicate`, `Interrupted` and their like are the
  conditions and computations of the SQL, one operator each.

Feedback, the administrator's summary, progress documents and the engine's own work
are left out: none of them feeds back into this state. The fingerprint is the code,
the target and the tier; changes of the configured limits over a restart are not
explored. All memberships have the same terms. Quotas that count submissions apply to
the day the handler read, not the day it commits on, as in the code.

### `SolPayments` and the code

`create_invoice` is `BeginCreate` (time and switch are read) and `Create`/`Decline`
(the transaction). `verify` is `BeginVerify`, the first transaction
(`StartCheck`/`AnswerEarly`), the provider calls (`FindTransfer`/`FindNothing`), and the
second transaction (`Grant`/`AnswerLate`). `granted` is the rows `finalized_and_granted` of
`sol_payment_audit`, in their order; `LastsAsPaid` is stated over them. A plan is named by its length, which
identifies its terms. `ValidTransfer` abstracts the parsing of a receipt to what it
establishes: finality, the invoice's reference in a transfer to the recipient of the full
amount, and a block time within the invoice's life. `Transfer` may carry several
references. `Restart` picks any configuration, another network included.
The server's clock and block times are one clock: an assumption about the environment.
Time is in units chosen so that lifetimes, throttle and plans keep their order.

### `PumpGame` and the code

`known`, `active`, `pending` are the feed's fields, lost at `Restart`. `Create`,
`Complete`, `CompleteUnsaved` and `Sell` are its three log handlers with the callbacks
they make under the feed's lock; any event may be lost or repeated. `Visit`,
`BeginPredict`, `LockIn`/`Refuse`, `Reply` are the endpoints, cut between the
transactions of `GameStore`. `Visited` is `player()`: creation and daily top-up.
A sell has a delay since the completion, a call a bucket. Who founded a coin is a fact
of the chain, chosen at the start. Creation events of one coin always agree.

### `Investigation`, `HistoryPages` and the code

`ledger` is the `InvestigationContext` of a command, a record that `Refusal`, `Charge`,
`ObserveTransaction`, `ManifestGet` and the others transform as the methods do;
`call` is the call in progress, at the stage it has reached. `BeginHistory`,
`BeginTransfers`, `BeginTransaction` and `BeginAccounts` are the calls of `history.py`
and of `ReadOnlyRpcClient`. `Send`, `Retry`, `GiveUp` are the retry loop, which
`_call`, `_stream_history_page` and `ReadOnlyRpcClient.call` each have: every attempt is
charged before it is sent. `StreamRow` gives the consumer one row of a page
(`consume_history_transaction`); a page may break off between two rows. `EndPage` follows
the pagination token, which the provider may repeat. Backoff times, HTTP and JSON are left
out; the outcomes of a request are an answer, an error worth a retry, or an error that is not.

### `ExitVerdict`, `WalletLifecycle`, `SellerRanking` and the code

The chain is the environment: `Dispose`, `Acquire` and `Pass` move units between the seller,
two wallets, a pool and strangers, and put the transaction at any place among those of its
second, because the provider sorts by signature there. Beside the list, `held` keeps where the
seller's units really went. Everything else is a function of the list: `Normalize` the events
of `normalize_transaction`, `Trace` the loop of `verify_exit` (`LeaveRoot`, `UseLots`,
`LinkedIncrease` are its cases), `Status` its verdict from the balances that could be read;
`Timeline` and `Lifecycle` the wallet report, with the events it reads (`WalletReport`) or
those of `verify-exit`; `LinkLots`, `Standing` and `Scan` the ranking of sellers. A wallet
that mixes the seller's units with its own is taken to part with the seller's first. Amounts in a
quote asset, prices and times of day are left out.

### `TransactionAutopsy`, `GraphEvidence`, `ClusterAudit` and the code

`ClusterAudit` is `run_cluster_audit`, cut where it sends requests: the seed's history
(`ReadSeedHistory`, or `LoseSeedHistory`, `failure_result`), classification, one visit per wallet
(`VisitActivity`, or `VisitTransfers` in an audit that is not deep), balances, the mint's
history, and `Conclude`. A history may end early with some of its rows (`Reads`). Requests fail
in two ways (`Fail`). One that is given up after its retries goes through `_terminal`, which keeps
the reason: `rpcFailed`, counted in `failures`. One that is answered with nothing of use (`Void`: a null
result, a list that is null or too short, a token account that cannot be parsed) does not; the
exception is swallowed, and nothing but `voids`, which the code does not have, tells
that it happened. Either leaves the addresses asked for `UNRESOLVED`, those of a failed batch or
those a short list left out (`Answered`), or a balance to the historical provider. An answer that can be
read is taken at its word. `RememberAll` is `remember_neighbor` for all edges of a wallet.
`graph` is the accumulator: the spool, the candidate index and the signer index; edges are
extracted again from the spool whenever addresses are classified, as in the code. Rows of
trades, delegates and preparations are distinguished as far as the extraction does. An owner
has one token account for a mint, the chain does not move during an audit, and SOL exits,
supply shares and descriptions are left out.

### `TelegramInbox` and the code

Each action is the code between two awaits: `Handle`, `Investigate`, `AskPayments`,
`Recheck`, `Reply`, `Record`, `Finish` are `TelegramAdapter.handle` inside `work`;
`StartRound`, `Hide`, `CheckWatch`, `EndEdit` are `maintenance`; `AskUpdates`,
`AnswerUpdates`, `ReceiveNext` are `poll`, whose batch runs without an await (`Free`);
`Post` is the webhook. `AskPayments`, `Unlink`, `ConfirmPair` run in threads beside the
event loop. An exception of the transport leaves open whether the message arrived.
Whether the minute of earlier updates is over, whether a hidden message is due again and
whether a job takes too long are left open. A job is open or complete; payment invoices are
those of `SolPayments` and only seen as controls in the chat. Choices between addresses, /status,
/help, invalid callbacks and the purge after seven days are left out. An update received while
the stop file exists, in a webhook or in the answer to the 20 seconds of a poll, is answered
`paused`, acknowledged and not kept: `EachUpdateOnce` counts it among the refused, as it does
those over the rate.

## What the runs check

| Run | Configuration | Result |
|---|---|---|
| `admission` | `BetaJobsAdmission.cfg`: 3 jobs, 2 handlers, 2 targets, one code, one day | the day's cap, the free quota, the member pool (earlier free runs counted), one active job per fingerprint, pool and rows agree |
| `faults` | `BetaJobsFaults.cfg`: `FairSpec`, 2 jobs, one code, one target, two days, 1 storage error | spending is covered, a settled row is final, only a storage error strands a job and without one every job is settled in the end, the kill switch leaves nothing active, the table implements `CreditLedger` |
| `calendar` | `BetaJobsCalendar.cfg` | **violated**: credits used on one calendar day may exceed the cap |
| `payments` | `SolPaymentsChecks.cfg`: 2 handlers, 2 invoices, 2 transactions, 2 networks | credited once, lasts as paid (renewed, lapsed, switched), one open invoice, grants settle an invoice |
| `game` | `PumpGameFeed.cfg`: 2 coins, 2 founders, 2 calls of one player at once | no call on a settled round stays open, overdraft is bounded, only a restart strands rounds |
| `history` | `HistoryPages.cfg`: 2 addresses, 4 transactions, 2 accounts, 3 calls, tight budgets | complete means every row, no row twice, no budget passed, manifests replay, one state per account |
| `exit` | `ExitVerdict.cfg`: a seller, 2 wallets, a pool, 3 moves of 1 or 2 units, 2 a second | starting inventory exact, units conserved, out is out, failures never help, reports agree, nothing linked twice |
| `cluster` | `ClusterAudit.cfg`: up to 3 of 23 transactions, 4 configurations, 1 failure or useless answer | out and resolved hold of the whole chain as far as wallets were recognised, no edge or control invented, indexes exact |
| `delegate` | `ClusterDelegate.cfg`: four transactions, one of them a move by a delegate read late | **violated**: the expansion leaves an evidence-backed wallet unread |
| `unanswered` | `ClusterUnanswered.cfg`: two transactions, 1 failure or useless answer | **violated**: a classification answered with nothing lets the target be reported out |
| `telegram` | `TelegramInbox.cfg`: 2 updates, polling or webhook, inbox of 1, 2 faults or changes | each update once, unlinking stops results, done leaves nothing untracked, queue and watches drain |
| `stake` | `PumpGameStake.cfg` | **violated**: a wrong call costs its stake twice |

### The four findings

- `calendar`: `docs/BETA_OPERATIONS.md:77` says that summing active reservations and
  charges "prevents an active run from crossing the daily cap". The query counts rows by
  the day they were created, so a run that crosses midnight uses credits of a day that
  does not count them.
- `delegate`: `docs/BETA_OPERATIONS.md:79` says graph expansion "ends when no
  evidence-backed wallet candidate remains". `remember_neighbor` is called for the edges of
  the wallet being visited only (`cluster.py:852`). When a later visit reads a transaction in
  which that wallet, a delegate, moves the tokens of a wallet already visited to one not seen
  before, the edge and the wallet enter the graph, and the wallet is neither visited nor
  reported as skipped; if it hands everything on, the report says that the holding is resolved.
- `unanswered`: `cluster.py:204` says that each failed chunk "remains fail-closed as
  unresolved", `docs/PROVIDER_BEHAVIOR.md:5` that malformed results fail closed. A chunk that is
  answered with a null result, or a list that is null or too short, leaves its addresses unresolved and
  raises no flag: `_classify_addresses` swallows the exception, `last_failure_reason` is set by
  `_terminal` only, and edges to unresolved wallets are dropped. The wallet the target was handed to
  stays out of the graph and is not visited; if it handed the target on, nobody looks at the wallet that
  has it now, and the report says `VERIFIED_OUT`. After
  a request that is given up the same audit says `INSUFFICIENT_DATA`. `OutIsCovered` and
  `ResolvedIsClosed` are therefore stated for the wallets as the audit was told of them (`AsTold`).
- `stake`: the rules on the game's page (`WillTheyJeet.tsx:147`) say the 25-point stake is
  committed, returned for a correct bucket and lost for a wrong one. `predict` takes it
  when the call is locked, and `settle_jeet` takes it again for a wrong one.

### Bounds, and why they are enough

- Three jobs are one more than the two slots and than the free quota, and their
  reservations exceed the cap: every refusal of `create_or_get` happens. Two handlers
  race. Where crashes and faults are explored, two jobs (the pool's size) suffice, since
  workers meet only in the engine lock and the table.
- `MaxDay = 1` gives one midnight in `faults`; a handler or run can straddle it. `admission` has
  one day: for a handler that acts on the day it read before midnight, `DailyCap` rests on
  `DailyCapHolds`. With one target, the two jobs of `faults` are active at once in the two tiers,
  whose reservations, 1 and 3, fill the cap.
- `MaxFaults = 1` puts one storage error anywhere. An error in `complete` followed by one in its
  handler takes two; the theorems cover any number.
- Times 1..3 with a lifetime and a plan of 1 let an invoice expire, be found paid late,
  and meet a second one, and let the second purchase find the membership running, lapsed, or
  on the other network. The two invoices are enough for a replay and for a shared
  payment. With one plan on sale the terms are the same throughout; the proof covers all plans. The limit of five invoices a day is not reached: an open invoice and the
  membership it buys keep an account of one network to fewer.
- In the game, a balance of one stake makes every race over it visible; delays 299 and
  300 are both sides of a threshold; three queued completions hold a duplicate.

- `HistoryPages`: two pages an address, one repeating a row of the other, and a window of two
  payloads for four transactions make replays after an eviction, overlaps and budgets that end
  a page all happen; six requests allow three calls with a retry each; `MaxVersion = 1` lets an
  account change between two batches (`ChunkSize = 1`).
- `ExitVerdict`: the seller opens with two units; the wallets it may pay open with none, are alike
  (the run is symmetric in them) and own what they buy or are given. One or two units move at a
  time, so that a lot is used in part, and more is moved than the lots hold. Three moves and `TraceDepths` of 1 and 2 hold a transfer, a transfer onward and a
  sale, on both sides of the trace boundary; two moves in a second are listed in both orders.
- `ClusterAudit`: the 23 templates are one for each kind of row the extraction tells apart; any
  three that a chain can pay and that hang together with the seed (`ClusterDelegate`: one chain of four, `ClusterUnanswered`: one of two), an address whose record is
  unknown, limits of 3 wallets at depth 1 and 4 at depth 3, `SampleLimit = 2` and
  `MaxFailures = 1`, noted or not.
- `TelegramInbox`: with an inbox of one and one update a minute, two updates meet every answer;
  `MaxChanges = 2` gives a crash and a second fault, or an unlink between them.

The bounds on data are in the guards `faults < MaxFaults`, `today < MaxDay`,
`clock < MaxTime`, `day < MaxDay`, `Len(pending) < MaxPending`, `calls < MaxCalls`,
`chain[x] < MaxVersion`, `Len(moves) < MaxMoves`, `Crowd(t) < MaxPerSecond`, `failures + voids <= MaxFailures`
and `changes < MaxChanges`; identifiers are finite sets.
Deadlock is not checked where a bounded calendar, used-up identifiers, or a process
nobody is obliged to stop really end a behaviour; it is checked in the game. Symmetry is used only
where a run has no liveness property.

### Fairness

`FairSpec` assumes that handler and worker threads are scheduled, that an engine run
ends (its request, page and credit budgets are finite and every request times out), that
shutdown completes once its threads have ended, and that the container is started again
(`restart: unless-stopped`, `docker-compose.beta.yml:6`). Nothing obliges anyone to
submit, a day to pass, or the process to be killed; a process killed for ever between
steps is not excluded, and jobs settle even then since a restart settles them.
The bot assumes weak fairness of the next update of a batch, which the event loop runs without
an await, and strong fairness of the worker and the editor: both are tasks of an event loop,
whose awaits each end (requests of the transport time out), but a batch disables them for a
moment. Nothing is assumed of the poller's requests, of threads of the website, of the operator
or of a restart; a task that has died stays dead in the property.
Reads of the provider and audits have no liveness property: their loops are bounded by budgets
which `WithinBudgets` states.
The game and payments have no liveness property: nothing in the code obliges a founder
to sell or a customer to check a payment.

## What is proved

Every theorem holds for every value of the constants that satisfies the module's named
assumption (for `BetaJobs`: finitely many identifiers, a free ceiling between 1 and the
cap, at least one slot, natural limits). TLC evaluates the assumption in every run.

`BetaJobsProofs`:

- **The inductive invariant** is `Agreement == TypeOK /\ Threads /\ Handlers /\
  DownIsQuiet`. No property of the table is inductive alone, because `_stage`, `complete`
  and `fail` write a row by its id without looking at its state: what makes them safe is
  where the threads are. `Threads` says a worker inside `_execute` holds a running row
  and a future a queued one; `Handlers` that a handler between the transaction and the
  executor owns its queued row alone; `DownIsQuiet` that a stopped process has neither.
- From it `StepKinds`: a step admits one absent row under the checks of
  `create_or_get`, or moves rows forward (`Forward`: started, or settled within the
  reservation). Everything else follows from that lemma: `DailyCapHolds` and
  `PoolCountsEarlierRunsHolds` by arithmetic on sums (`AdmitAdds`, `ForwardCharges`),
  `TerminalIsFinalHolds`, `OneActiveHolds`, `FreeRunQuotaHolds`, `PausedMeansIdleHolds`,
  `StrandedOnlyByFaultHolds` and `PoolMatchesLedgerHolds`.
- `SpendCoveredHolds` needs `Ceilings` as well: the stored ceiling is the reservation,
  and only a run that was marked running has spent anything.
- `Refinement`: every step is a hold, a settlement or a stutter of `CreditLedger`.

`LedgerWithinCap` shows that the abstract ledger alone, for entries of any kind, keeps the cap.
`DataFacts` has the facts the proofs share: how sums react to a change of the rows, from the
library's facts on cardinality; that a set of numbers has a least element, an inductive set
of them has all, and a recursion over them a solution, which are proved for sets because the
library's induction theorems take an operator; and with these what `Sieve` keeps of a list
(`SieveFacts`). `SelectSeq` of the standard library takes an operator, which no installed
prover can instantiate, hence `Sieve` where a pass over a list is reasoned about.

`SolPaymentsProofs` (assuming finitely many invoices and plans of one to 366 lifetimes;
the configuration admits plans of 1 to 366 days and an invoice lives a day):

- `Sound == TypeOK /\ Evidence /\ Recorded /\ Backed` is inductive. `CreditedOnce` alone
  is not: a handler reads the invoice, asks the provider, and writes later. `Evidence`
  says what a request at each stage may rely on, and it survives the other handlers
  because a finalized transaction and an issued invoice's terms never change
  (`Stable`, `StaysValid`). `StepKinds` shows that only a grant pays an invoice or
  touches a membership.
- `CreditedOnceHolds` and `GrantSettlesInvoiceHolds` follow.
- `LastsAsPaidHolds` from the inductive `Lasting`, for any number of purchases: the audit names
  the paid invoices and no other (`Audited`), and the rows of an account give its membership
  (`Lasts`). A grant adds a row (`GrantBuys`). On the network of the membership it adds its plan
  to what each earlier row is worth (a sum, `TotalExtend`), and the membership is extended by the
  same, or, if it had lapsed, starts at the new row, which is then the one that is exact; on
  another network, or for a first purchase, the new row is the only one that counts (`GrantLasts`).

- `OneOpenInvoiceHolds` from `Punctual` and `Separate`: a handler acts on a clock read earlier,
  never on one to come, so an invoice that has expired for it has expired; of two pending
  invoices of an account and a network one always has (`StepSeparate`).

`PumpGameProofs` (assuming finitely many handler threads). The first two theorems are about the
tables and assume nothing of the feed's queue:

- `SettledRoundHasNoOpenCallHolds`: `LockIn` looks at the round in its own transaction.
- `OverdraftBoundedHolds` from the inductive `Covered`: a balance is at least minus one
  stake for each thread that is not holding a sufficient balance it has checked.
- `OnlyRestartStrandsHolds` is about the queue (`FeedOK`): a sell removes the settled coin
  and no other from what waits (`SellKeepsOthers`), a completion joins it (`QueueKeeps`).

`HistoryPagesProofs`, for any pages, accounts, budgets, window and retries (assuming that an
address has one page at least, that no identifier is the mark of a missing one, and positive
budgets). The inductive invariant is `Inv == TypeOK /\ Sound(ledger) /\ Calling /\ Replays /\
Progress /\ Charged /\ Told /\ DeliveredOnce /\ CompleteHistory`:

- a call is complete when its last page was turned, so `Progress` says that all pages before
  the current one, and the rows passed of it, were given. Pages are named by tokens: `Calling`
  says the tokens seen are those of the pages read, hence a token not seen before is the one
  of the next page.
- a page replayed from its manifest gives the manifest's rows and not the provider's:
  `Sound` says a manifest lists the rows of its page (those with a signature), and `Replays`
  that all its payloads stay in the window until the replay ends. That needs the order of
  the window: a hit moves the page's payloads to the recent end, the replay adds none, and
  `ReplayedWindow` shows by induction over the rows that moving them loses none.
- `Charged` ties what was given to the signatures counted, so that `DeliveredOnceHolds` and the
  budgets go together; `Told` says an account has the one record the ledger keeps of it.
- `WithinBudgetsHolds`, `ReplayKeepsPayloadsHolds` and `OneAnswerPerAccountHolds` follow from
  these parts, `CompleteHistoryHolds` and `DeliveredOnceHolds` are among them.

`TelegramInboxProofs`, for any number of updates and any limits. The inductive invariant is
`IInv == TypeOK /\ Engaged /\ Confirmed /\ Leaving /\ Tracking`:

- `EachUpdateOnceHolds` from `Confirmed`: the poller confirms by asking with an offset, so
  everything below the offset, and below the first update of the batch at hand, must be kept;
  the batch is a run of consecutive updates. An update begun is never queued again, because
  a start turns what was in process into `delivery_unknown` and not into `queued`.
- `UnlinkStopsHolds` from `Leaving`, which counts what is under way together with what has
  leaked: the worker holds one result at most, and the editor one edit.
- `DoneIsTrackedHolds` from `Tracking`, which says at each stage of handling an update how much
  of it is on record yet.

`ClusterAuditProofs`, for any chain, accounts and configurations (assuming that transaction `i`
has signature `i` and names addresses of the chain). The inductive invariant is
`Inv == World /\ Indexed /\ Streamed /\ Truthful /\ Founded`:

- `Indexed`: the candidates are those of the spooled facts, and the index of signers has one or
  two of the signatures of each signer, all of them if it has one (`FirstTwo`). `IngestKeeps`
  shows it of one transaction, `IngestAllKeeps` of a history read in order.
  `IndexesExactHolds` follows with `CandidatesExact`, an equality of two ways to find the
  counterparties of a wallet, and `TwoAreEnough`.
- `Truthful`: no address is taken for a wallet that is none, though classification fails and
  its answers are kept. `EdgesGrow` shows that a fact proves no edge from some of the classes that
  it does not prove from all of them. This is not obvious: a preparation is left out *because*
  a transfer was found, but whatever hides the transfer hides the preparation as well.
- `Founded` and, with `ControlGrows`, `NothingInventedHolds`: more edges never make control less
  likely.

The same module, for what a conclusion rests on. `Coverage` shows `Covering`, a conjunction that
is inductive beside `Inv`; neither conclusion is inductive alone, because each is drawn at the end
from flags raised, and requests answered, all along:

- `Counted` says that a request that is known to have failed is kept in one of the flags until the
  end, so a conclusion, which asks that no flag is raised, comes from an audit where none did. `Stored`
  and `Weighed` say what such an audit has: the rows and the balances of the chain, not a part of
  them; `Honest`, that it has the classes of the chain, if besides no request was answered with nothing
  (`voids = 0`). Without that the classes are those the audit was told (`AsTold`).
- `Learned`: the traversal remembers (in its queue, skipped or visited) all that the history of
  a visited wallet tells of, if no limit was reported. This is the heart, shared by the kinds of visit
  (`VisitCovers`): a history that is complete has every transaction in the spool
  (`ReadingStores`), the edges it proves are found (`ActivityTells`, `TransfersTell`), and an edge to a candidate is remembered
  unless a limit is reported (`RememberAllDoes`). Classes come to be known after the
  visit; `Settled` says that those of the wallets a visited history may tell of were asked for by then, and
  a class is kept once it is known, so later ones make that history tell no more (`Steady`, by
  `ToldLess`). At the end nothing is queued or skipped, hence `Explored`.
- `Rooted`: any set of wallets with the seed that no edge of the report leads out of has all the
  traversal met. It links the traversal to the graph of the report, whose nodes are found breadth
  first (`DepthsClosed`: what that search finds is closed as far as the depth allows), so that the
  visited wallets are nodes of the report and their balances count.
- `ResolvedIsClosedHolds` is then `Concluded` with `ToldAsTold`; `OutIsCoveredHolds` needs besides that a wallet the
  target was handed to is told of by the history of the one that handed it (`HandedIsTold`),
  whence by induction over the distance all of them are visited (`ReachedStays`).

`ExitReportsProofs`, for any finite set of wallets, holdings, amounts and lists (assuming that the
market is not a wallet). The inductive invariant is `TypeOK /\ Balanced`: a wallet holds what it
opened with and what the transactions of the list brought it, wherever in its second the
provider lists a transaction (`InsertedSums`):

- sums are those of `SumFunctionOnSet`, whose definition picks an element of the set: `SumIs` shows
  by induction on finite sets that the order of picking does not matter, and the lemmas after it
  that a sum may be split, taken apart by a function of its members, and renamed.
- `EventsTell` says where in the list of events those of a transaction are (`Flattened` is about
  `FlattenSeq`), so that a sum over events is one over transactions (`SumByMoves`), to which each
  adds what its one or two events add (`Share`).
- `SettlesPurchases`: a transfer is a settlement exactly when it delivers a purchase. Hence what
  verify-exit (`NetShare`) and a row of the wallet report (`RowIsBrought`) make of a transaction is
  what it brought the seller, once, and `StartExactHolds` follows; so it does for the scan's
  reading of a wallet that bought nothing (`RankedIsOpening`).
- `FailuresWeakenHolds` is a matter of cases: the balances that were read are looked at first, the
  missing ones next.
- `ConservationHolds` follows the lots. `Trace` is a fold over the events (`TraceFolds`), and `Weight`,
  what the lots have left with what was sold and burned, grows in each step by what the seller gave in
  it (`StepFacts`), unless a branch is left open or lots return to the seller. An open branch stays open
  (`Follows`). A return is a transfer to the seller by a wallet with lots, hence after a transfer of
  the seller; since the list is `Sorted` by second, verify-exit sees it as a reacquisition and does
  not say `VERIFIED_OUT` (`FoldFacts`, `EventsInTime`). At the end the traced wallets hold nothing, the
  lots of no wallet exceed its balance, and a wallet that is not traced has none (`Rooted`): what is
  left is zero and what the seller gave was sold and burned (`AllSpent`).
- `ReportsAgreeHolds`: `Closed` is what `VERIFIED_OUT` says of the transactions (`VerdictCloses`): the
  seller gave, only by sales, burns and followed transfers, and nothing came in since. The rows of the
  wallet report, in either reading of the events, run back from the balance (`RowIs`, `RunningBack`), so
  the last reduction brings them from above zero to zero and nothing returns after it (`ExitsOut`). The
  scan's links are a fold as well (`LinkFolds`); each comes from a transfer (`LinksComeFrom`), those
  of the seller lead to traced wallets, and these hold nothing (`NothingLinked`).
- `OutIsTrueHolds` needs two more inductive invariants, both of lists that are in order, which grow
  only at their end (`NextAppends`). `Solvent`: every wallet could pay for what it gave when it gave
  it. `Recorded`: there is a story of where the seller's inventory was after each transaction, for the
  variable `held` remembers only the last. Event by event (`EventWalk`) the lots of a wallet are what the
  story says it holds, as long as no branch is open (`MoveAccords`, `StoryAccords`), and `AllSpent` says
  that at the end they have nothing left. The exit of the wallet report is a row that ran to zero or
  below, and `Solvent` rules out below (`ExitWasReal`).
- `LinkedOnceHolds`: `Tallies`, three bounds on what is left of the lots linked to a wallet, is kept by
  each event (`MoveTallies`; the bound by the balance uses `Solvent`), and what the sellers are given of
  a wallet adds up to what its lots have left (`LinkedIsLeft`).

Only model-checked:

- `EveryJobSettles` and `NothingLingers`: liveness under fairness is beyond the prover.

The violated properties are counterexamples, not theorems.

## Not modelled

- Rendering, wording, HTTP headers, cookies, command-line parsing: pure presentation.
- Encoding (Base58, borsh logs, receipts): abstracted to the event they yield.
- Usage counters, operator views, case export: read-only or without effect elsewhere.
- The limiter of logins (`security.py`): attempts in flight together may pass its check
  together, by as many as there are handlers; nothing else depends on it.
- The live watcher (`analyzer.py`) and its rotating log: a command of its own.
- Prices and quotes, SOL exits, supply shares, token metadata: amounts shown beside a verdict that
  none of the modelled statuses reads.

## Plan

1. *Done*: `CreditUnits`, `CreditLedger`, `BetaJobs`, `SolPayments`, `PumpGame`, with proofs.
2. *Done*: `Investigation`, `HistoryPages`; `ExitVerdict`, `WalletLifecycle`, `SellerRanking`;
   `TransactionAutopsy`, `GraphEvidence`, `ClusterAudit`; `TelegramInbox`, model-checked.
3. *Done*: proofs of the runs `history` and `telegram`, of `OneOpenInvoice`, of the feed's
   queue, and of `IndexesExact` and `NothingInvented` of the audit.
4. *Done*: `OutIsCovered` and `ResolvedIsClosed` for any chain.
5. *Done*: `StartExact` and `FailuresWeaken` for any chain and any order within a second.
6. *Done*: `Conservation`, from what a step of the fold over the events keeps of the lots.
7. *Done*: `ReportsAgree`, from the rows of the wallet report running down to the balance.
8. *Done*: `OutIsTrue` and `LinkedOnce`, from a story of where the inventory was after each transaction.
