# poly-oracle-agent: verification project

TLA+ models of the asyncio trading agent in `src/` and of the tools that run
beside it, model-checked with TLC, and proofs about them checked by TLAPS. The
repository's Python code is the reference; paths below are relative to the
repository's root, `agents/` and `observability/` to its `src/`.

## 1. The system

One process, one event loop. `Orchestrator.start()` (`src/orchestrator.py`)
creates tasks that run until they are cancelled and that meet only at `await`s,
through queues, tables and a few shared objects. The digest, the audit and the
backtesting tools are processes of their own, which meet the agent through its
tables, its endpoints and files.

    CLOBWebSocketClient -> market_queue -> DataAggregator -> BoundedPromptQueue
      -> ClaudeClient (budget guard, cooldown, LLM, Gatekeeper) -> execution_queue
      -> _execution_consumer_loop: gates -> ExecutionRouter -> PositionTracker
           -> OrderBroadcaster -> CLOB / Polygon RPC
    _exit_scan_loop: ExitStrategyEngine -> ExitOrderRouter -> PnLCalculator
           -> OrderBroadcaster
    _portfolio_aggregation_loop: PortfolioAggregator -> AlertEngine -> CircuitBreaker
    _discovery_loop, _market_tracking_loop: markets -> WS subscriptions, aggregator
    _operational_alert_loop: health, breaker -> OperationalAlertBridge -> Telegram
    everything -> OperationalEventBus -> operational_events table -> daily digest
    health_server <- periodic runtime audit -> report files -> aggregate_audits

| Component | State | Operations | What is hard | What makes it correct |
|---|---|---|---|---|
| Order broadcast (`agents/execution/broadcaster.py`, `nonce_manager.py`) | `_nonce`, its lock, `execution_txs` rows | `broadcast`, `get_next_nonce`, `sync` | two calling tasks; lost answers; crash between row and answer; failing RPC under the lock | one order at most per decision, none before its row; distinct nonces; every call returns |
| Trade lifecycle (`orchestrator.py`, exit engine, tracker, PnL, breaker) | `execution_queue`, frames of the loops, `positions`, breaker latch | three loops | loops over shared rows, checks before awaits, partial failures | breaker stops entries, exits go on, settlements are written once |
| Entry gates and routing (`execution_router.py`, providers, validators) | frame of `route()` | four gates, `route` | services that fail open or closed, in the right order; a breaker that trips in between | nothing unsized, unrecorded or past an open breaker is sent |
| Portfolio figures (`portfolio_aggregator.py`, `alert_engine.py`) | running sums | `compute_snapshot`, `evaluate` | prices of different moments, missing books | a loss that stays trips the breaker |
| Prompt queue (`agents/context/bounded_queue.py`) | deque, event, unfinished count, quarantines | `put`, `get`, `task_done`, `quarantine_market_until` | overflow policies, lost wakeups, quarantine in mid-evaluation | accounting, quarantine, consumer served |
| Aggregator (`agents/context/aggregator.py`) | market states, last emissions | message and timer loops, activation | an emission is recorded before the queue may refuse it | no market is silenced by its own record |
| Evaluation (`agents/evaluation/claude_client.py`, `grok_client.py`, `schemas/llm.py`) | frame of `_process_evaluation` | sentiment, primary call, reflection, Gatekeeper | answers, retries and timeouts at every call; verdicts and flags | only reflected decisions are routed; every evaluation ends |
| Budget guard and cooldown (`llm_cost_guard.py`) | counters per window, reservations, per-market counters | `check_budget`, `peek_budget`, `record_usage`, `record_outcome` | windows that end between reservation and usage, or between peek and check | limits hold in every window; repeated failures cool down |
| WebSocket client (`agents/ingestion/ws_client.py`) | connection, subscription sets | connect, heartbeat, `subscribe_batch` | reconnects during a batch; a heartbeat that gives up | what is active is what the exchange was asked for |
| Discovery and quarantine (`agents/ingestion/`) | preflight results, failure counts | preflight, activation | slow, failing and quarantined markets | rounds end; a quarantine lasts |
| Event bus (`observability/operational_event_bus.py`) | queue, INFO count, batch in flight | `publish`, flush loop, `stop` | overflow rewrites the queue; failing, partial and cancelled batches | each event ends once, critical ones kept or signalled |
| Alerts (`operational_alerts.py`) | condition ages, last breaker state | one evaluator per condition | sends that take time or fail; flapping | only sustained conditions, and those again and again |
| Event ledger and daily digest (`orchestrator.py`, `daily_ops_digest.py`) | monitor's previous values; rows | monitor pass, paged reads | events on change only, lost batches, crashes; reads of a growing table | the digest covers its window and says what is so |
| Runtime audit (`runtime_audit.py`, `scripts/ops/`) | findings, five files | three probes, six writes | an agent that changes between probes; kills and full disks | verdicts have a reason; reports are whole |
| Backtesting (`backtesting/`, `backtest_runner.py`, `scripts/`) | dataset files, manifest, equity | builder, two replay tools | killed and repeated builds, torn files | a report stands for all of the data |
| Signing, exchange client, schemas, metrics, dashboards | none shared | pure functions and views | little | not modelled |

The hazards behind the properties are listed, each at its line, in
`PROJECT.json`; those without a property say why.

## 2. Modules

| Module | Models | Run |
|---|---|---|
| `OrderLedger` | abstract: what `execution_txs` and `broadcast()` promise | (through those that use it) |
| `OrderBroadcaster` | `broadcast()` await by await, `NonceManager`, exchange and RPC; implements `OrderLedger` | `broadcaster`, `colliding_orders` |
| `TradeLifecycle` | consumer, exit scan, breaker; composes `OrderLedger`; the abstract entry | `trade_lifecycle` |
| `EntryRouting` | the entry in detail: gates, `route()`, position, aggregation; implements `TradeLifecycle` | `entry_routing` |
| `PromptQueue` | `BoundedPromptQueue` and its consumer | `prompt_queue` |
| `ContextPipeline` | `DataAggregator` and activation; extends `PromptQueue` | `prompt_queue` |
| `MarketClock` | markets and time shared by the next two | `evaluation` |
| `BudgetGuard`, `CognitiveBreaker` | `LLMBudgetGuard`, `MarketCognitiveCircuitBreaker` | `evaluation` |
| `Gatekeeper` | pure decisions between an answer and a trade | `evaluation` |
| `Evaluation` | `ClaudeClient`; composes the three above | `evaluation` |
| `MarketQuarantine` | `MarketQuarantineManager` | `market_data` |
| `MarketData` | discovery, activation, WebSocket client; composes it | `market_data` |
| `EventDelivery` | abstract: what the bus promises to those that publish | (through `EventBus`) |
| `EventBus` | `OperationalEventBus` and its shutdown; implements `EventDelivery` | `event_bus` |
| `AlertBridge` | alert loop and `OperationalAlertBridge` | `alerts` |
| `OperationsLedger` | lifecycle, monitor loop, bus and table | `daily_digest` |
| `DailyDigest` | the digest's reads and derivations; extends it | `daily_digest` |
| `RuntimeAudit` | the periodic audit and the aggregation of its reports | `runtime_audit` |
| `HistoricalDataset`, `Backtest` | the dataset builder; the tools that replay it | `backtest` |
| `MC*` | instances for TLC | |
| `*Proofs` | theorems about the module of that name; `EvaluationProofs` with the three it composes; `ServicesProofs`: `EventBus`, `MarketData`; `OperationsProofs`: `Backtest`, `AlertBridge`; `ReportsProofs`: `RuntimeAudit`, `DailyDigest` | |

Operators whose comment begins with "Mutant:" are plausible bugs of the
definition that follows them. They are not part of a specification; they show
that each property notices such a bug.

Four abstractions carry the composition. `OrderBroadcaster` is shown to
implement `OrderLedger` (a run, and the theorem `Refinement`), so
`TradeLifecycle` and `EntryRouting` take `RecordPending`, `AcceptOrder` and
`Conclude` for the whole of `broadcast()`; that `TradeLifecycle` uses them as the
ledger allows is the theorem `FollowsLedger`. `EventBus` implements
`EventDelivery` (`ImplementsDelivery`, `Delivers`). `EntryRouting` is shown to implement
`TradeLifecycle` (`ImplementsTrade`), so what is proved of the consumer there
holds for the gates, the router and the computed drawdown; a theorem says so,
too (`Implements`). `PromptQueue` leaves
its producer open, and `ContextPipeline` supplies it.

### OrderBroadcaster

`call[t]` is the frame of `broadcast()` in task `t`: the await at which it
stands, the decision id, the nonce drawn, the order id answered. Every action is
the code from one await to the next:

| Action | Code |
|---|---|
| `CallBroadcast`, `EstimateGas` | entry; `GasEstimator.estimate()`, which answers an RPC failure with a fallback |
| `GetNextNonce` | post-increment under the lock, without an await |
| `InsertPending` | one transaction; `decision_id` is unique; any exception leaves before the POST |
| `PostOrder` | 2xx (with or without `orderID`), 4xx (resync), 5xx, or any other exception; after a 5xx or a lost answer the exchange may have the order |
| `SyncAcquire`, `SyncRelease` | `sync()`: the lock is held across the RPC; success overwrites `_nonce`, failure raises `NonceManagerError` |
| `MarkFailed`, `MarkSent`, `MarkTimeout`, `MarkReceipt` | `_update_execution_status()`; `tx_hash` is unique, `""` included; a failing write ends the call |
| `PollReceipt` | receipts exist only for orders that were given an id |
| `Restart` | the process ends anywhere and starts again; tables and exchange stay |

`chain` is `eth_getTransactionCount(address, "pending")`; by how much an accepted
order raises it is the constant `ChainCounts` ({0, 1} in the passing run, because
the RPC may lag). The nonce is not part of the POST's payload in this code; it
is recorded with the row, and it is the row's nonce the properties are about.
`epoch` is a history variable: how often the counter was read from the chain.

### TradeLifecycle

`buy` and `exit` are the frames of the two loops that place orders, `positions`
and `status`/`orders` the tables. A pass of the exit scan evaluates its
positions in any order. For every gate, router and provider the model takes each
outcome the code distinguishes. `config` holds the two switches that change the
control flow, and is read when the process starts:
`circuit_breaker_override_closed` and the exposure gate. With that gate enabled,
`validate_entry()` coerces `AppConfig.max_exposure_pct`, a float, and raises;
so `ExposureGateRaises` always refuses (business_logic_wi30.md says an empty
portfolio passes). Live mode only: with `dry_run` nothing is written and nothing
is broadcast. The breaker is modelled as enabled; disabled, it never opens,
which is a behaviour with no critical alert.

`EvaluateAlerts` is a whole pass of the portfolio loop from the alerts on. The
code asks the breaker with the alerts there are, or with an empty list when there
are none (`orchestrator.py:1466`). Either way the override, if set, closes the
latch and is spent; otherwise only a critical drawdown changes it. So a pass
without alerts is the action with `critical = FALSE`.

`ExecutionRouter.route()` asks for the order book with the condition id in the
place of a token id. Whether the exchange answers is a choice of the model
either way.

### PromptQueue

Nothing is awaited inside the queue's lock, so `put`, `get` and
`quarantine_market_until` are atomic. What interleaves is the wait for the
event, and the evaluation, in which the quarantine is set by the very consumer
that holds a context of that market. A context is a market and what it quotes.
`coalescing` is
`prompt_queue_coalesce_by_market`, which is on by default; it is read once, so it is
chosen in `QueueInit` and never changes. The class docstring says
that without coalescing the *new* payload is dropped; the code drops the oldest
(`DropStale`), as WI-53 allows. That may be the only context of its market: `EvaluatedAgain`
therefore does not promise an evaluation to a market whose contexts are pushed
out again and again (`PushedOut`), only to every other one.

### EventBus

`publish()` has no await and is one action with four outcomes: room, an INFO
event gives way, the oldest non-critical event gives way, refusal. `batch` is
what `_flush_batch()` has taken and awaits the database for; meanwhile
publishers go on, and `stop()` may cancel it. `fate` is a history variable: how
each event ended. ERROR is treated as CRITICAL by the code, so the model has
three severities. Durable-event throttling happens before `publish()` and is not
modelled: a throttled event never reaches the bus. A final flush that runs out of
time cancels a batch in the same way as `stop()`.

`EventDelivery` knows neither queue nor batch nor flush loop: a line of pending
events, which new ones join at the back, which leave at the front, and out of
which only one that is not critical may be taken to make room. `EventBus` maps
the batch in flight followed by the queue to that line (`Pending`); collecting a
batch is then a step nobody sees.

### EntryRouting

`buy` is the frame of `_execution_consumer_loop` from `TakeDecision` to
`ConcludeBuy`; each gate is its await with its answer to a failing service:
`ExposureGate` raises (above), `WalletGate` fails open, `GasGate` falls back to
configured prices, `FetchBook` and `BalanceFails` end in a FAILED position, or in
an exception when the order cannot be built. `OrderSize` is the quarter-Kelly
arithmetic on a book whose midpoint is the price. `scan` is
`_portfolio_aggregation_loop`: the open positions are read once and priced one
by one, while the market moves and orders go on; the alerts are sent before the
breaker hears of them. `ImplementsTrade` maps the gates to the one stage
`exposure` of `TradeLifecycle`, and the router's awaits to `route`.

The exit scan is in `TradeLifecycle` only (`EntryRouting` leaves it asleep). A
stale position is appended to the results before its close is attempted
(`CloseStaleFails`), a live one after it (`ClosePosition`, `HoldPosition`).

### ContextPipeline

`Message` is `_process_message()` with its two triggers, `Timer` a look of
`_timer_loop()` at one market, `Emit` the dedupe and cadence checks, the record of
the emission and `put()` in one step, for neither lock is held across an await.
`Activate` clears all of it, changed markets or not. A snapshot is a quote of a
market; ages are counted up to the longest interval.

### Evaluation

`frame` is that of `_process_evaluation()`: the await at which it stands, the
market, the attempt, whether the peek let a sentiment call happen, the snapshot,
the candidate and the verdict. The methods of the guard and of the cognitive
breaker run under locks without an await, so `CheckPrimary`, `CheckReflection` and
`RecordUsage` are one step each; the clock ticks between any two. `spent` is a
history variable: what calls really used in the guard's current day.
`Gatekeeper` holds the validators of `schemas/llm.py` and the reflection's
verdicts on whole percents. `Route` counts the outcome and puts the decision on
the execution queue whether or not the row was written, as
`_persist_decision()` does. The guard is modelled enabled.

### MarketData

A frame per loop takes the awaits of `_activate_markets()` and
`subscribe_batch()`; `server` is what the exchange sends on the present
connection, `subscribed` and `assets` the client's two records of it. A send
writes its message and suspends only on a full buffer. After a missed PONG
`_heartbeat()` returns and changes nothing, so it has no action; that an outage ends
all the same is the library's own keepalive (`Keepalive`). The results of the
preflights are recorded in one step after the `gather()`, since nothing there
suspends, and the first markets of what is eligible are activated up to the first send
(`Conclude`). A timeout is not recorded.

Both loops are started by default (`orchestrator.py:484`), and both are in the run and
in the theorems. A batch carries the differences it computed, and the other loop's
batch may run while a send of it is suspended; then the exchange and the records
end up with what was written last, which need not be what is active. For example,
one loop activates `{m1}` and the other `{m2}`: the exchange sends both and the
records say `{m2}`, for good if nothing breaks. Or one loop finds nothing and is
unsubscribing `m1` when the other activates `m1`, which the records still have: it
sends nothing, and `m1` is active and not sent. `contested` is a history variable: the
markets on which a batch under way and the activation of the other loop differ
(`Disputed`), collected while a connection lasts; a new connection asks for
`assets` and keeps only what is still unsettled then (`Unsettled`). `ActiveServed` is
about all other markets: an overlap harms none but those it is about, and no
disconnect or reconnect at any await harms any. Likewise a preflight that one
loop began before the other quarantined its market lifts the quarantine when it
succeeds; `QuarantineLasts` holds from the moment no such preflight is under way
(`Quiet`). Section 5 lists both.

### AlertBridge

`now` is taken once per pass, and sends take time, so ages are kept instead of
instants and `frame.age` is the age of that `now`. `since` is `first_seen_at_utc`,
`sent` `last_dispatched_at_utc`, `clear` a history variable: when the condition was
last seen absent.

### OperationsLedger and DailyDigest

`monitor` holds the locals of `_event_ledger_monitor_loop`, which tells changes
only; the bus is reduced to what matters here (what is queued may be lost with a
crash, a failing database or a timeout at shutdown). The provider's failures
(`ProviderFails`, one event or two for an evaluation) are there because they are
unresolved errors for good and compete with the breaker for the places of a list that is
cut to the oldest `_UNRESOLVED_LIMIT`. `ERROR_RECOVERED`, which the code
emits only when a pass of the monitor raises, and the pipeline's warnings are left
out. `reader` is `_read_events()`,
two queries per page; the other operators are the derivations over the rows, which
the properties take of the whole table.

### RuntimeAudit

`audit[a]` is the frame of one audit from the first probe to its last rename,
`files` the report directory. `held` is a history variable: which conditions held
at some moment of the audit. A write may fail with nothing or a torn file left;
`Killed` may strike anywhere. The run has one audit at a time, as the systemd
timer does.

### HistoricalDataset and Backtest

A day file is written in two steps, since `write_text()` truncates first; a kill
may come between. Discovery asks for a limited number of markets of a range of dates
and may find any of them (`build.found`). A reader lists the day files and then reads
them one by one (`ListFiles`, `ReadFile`), and a build may write, truncate or die between any two.
`owed` is a history variable: the markets of which the load must give every
observation, because their outcome was on disk, or a build had finished with them,
when it listed the files. The validation's evaluator is the
fallback, which holds: its `ClaudeClient()` raises a `TypeError` that is caught.

## 3. Runs, bounds, fairness

| Run | Checks | Bounds | Why enough |
|---|---|---|---|
| `broadcaster` | `NoncesDistinctPerEpoch`, `ImplementsLedger`, `BroadcastReturns` | 2 tasks (the code has two callers), one key each, 3 calls, 1 restart | a retried key, a key of the other task and a restart between them all occur |
| `colliding_orders` | `NoCollidingOrders`, violated | 3 keys, 3 calls, no restart | |
| `trade_lifecycle` | `OneAttempt`, `SettledOnce`, `ClosedForGood`, `DecisionsEnd`, `ExitPassEnds` | 1 decision, 2 prices, all outcomes, 1 restart | a second price is what a double settlement needs |
| `entry_routing` | `AtMostOneLateBuy`, `ImplementsTrade`, `DrawdownTrips` | 2 decisions, 2 books or none, an empty and a full wallet, 1 restart | a second decision behind the late one; a position opened while another is priced |
| `prompt_queue` | `Accounting`, `QuarantineHolds`, `ConsumerServed`, `EvaluatedAgain` | 2 markets, one with a cadence; 2 places, with coalescing and without; 2 quotes a material move apart; ages to 2 | the queue overflows with and without a context of the same market, and without coalescing the only context of a market is pushed out by the other's; every gate suppresses and lets through |
| `event_bus` | `EachEventOnce`, `CriticalKept`, `ImplementsDelivery`, `EventsLeave` | 2 places, batches of 2, 4 events, all policies | an overflow behind a batch in flight needs 4 |
| `evaluation` | `SpendBounded`, `RepeatedFailuresCool`, `OnlyReflectedRoutes`, `SentimentNotWasted`, `BlockedOncePerWindow`, `NoFirstCallInCooldown`, `EvaluationEnds` | 2 markets, 2 evaluations with 1 retry, 3 ticks, an hour of 2, a day of 3 | every limit blocks; both windows end in an evaluation and between two; two failures are the threshold |
| `market_data` | `ActiveServed`, `QuarantineLasts`, `ServedAgain`, `RoundsEnd` | both loops, 2 markets of which one may fail, 1 slot each, threshold 2, 2 connections | batches of the two loops overlap and contest one market or both; a connection is lost within a batch and replaced; a preflight of one loop is under way while the other quarantines |
| `alerts` | `SustainedOnly`, `OutageAlerted` | thresholds of 1 and 2 minutes, cooldown 2, sends of up to 1 | ages beyond threshold and cooldown make no difference |
| `daily_digest` | `LifecycleTold`, `DigestCovers`, `StateTold` | 3 changes, restarts or failing evaluations, pages of 2, 2 pages, a list of 2 | a change, its undoing and a crash; a page boundary that moves; one evaluation fills the list before the breaker trips |
| `runtime_audit` | `VerdictTrue`, `SafetyRecorded`, `LatestSound` | 2 audits in sequence, 2 changes | a killed audit before a complete one, changes between all probes |
| `backtest` | `ReplayedAll`, `DrawdownIsMax` | 2 tokens, 3 times on 2 days, 2 builds, 1 replay | a second build over a killed one, beside the reader; an observation twice, unusable or without outcome |

`market_data` and `alerts` are checked for deadlock. The others say
`CHECK_DEADLOCK FALSE`: when the bounded number of calls, changes, builds or
events is used up, and after a shutdown, the system may stop.

The type invariant of each module (`TypeOK`, `AlertTypeOK`, `FeedTypeOK`,
`DigestTypeOK`) is one that its run satisfies; none is listed by a run, their place
went to what could be wrong. The same holds of `RowsTellOrders`, `LockOwned`,
`OnlyOpenedSold`, `NeverResumed` and `FailClosed`: TLC found them true of these
instances, they are theorems (section 4), and what a run checks beside them would
notice the same bugs: `RowsTellOrders` follows from `ImplementsLedger` and
`FailClosed` from `ImplementsDelivery` (`PromiseSignals`), a lock that is lost stops `BroadcastReturns`,
a resumed entry is a second attempt. Modules that a proof
module takes together have names of their own for `Init`, `Next` and `Spec`.

What `colliding_orders` shows: task A has drawn a nonce and is at its insert; B's
POST is answered with a 4xx, and `sync()` rewinds the counter to the chain's
count; the next call draws A's nonce again, and both orders are accepted. The
docstring of `nonce_manager.py` promises that this cannot happen.

Fairness. All of it is weak fairness of tasks of one event loop, whose awaits are
bounded by timeouts, except where noted.

* `OrderBroadcaster`: the steps inside `broadcast()`, per task; HTTP calls and
  polling are bounded, `asyncio.Lock` is first come, first served.
* `TradeLifecycle`: the consumer, and the exit scan after a pass has begun. No
  decision is obliged to be approved, no pass to begin.
* `EntryRouting`: the consumer and the aggregation, which runs for ever; strong
  fairness of `SendAlerts`, for a database that refused every snapshot would hide
  any loss.
* `ContextPipeline`: `Get`, the end of an evaluation, the timer loop at each
  market, time. Snapshots, activations and quarantines are owed to nobody.
* `Evaluation`: the steps of an evaluation. The clock owes nothing, contexts
  need not come.
* `MarketData`: each loop after its round began (preflights have timeouts, nobody
  owes an answer; a batch is sent or its connection fails), the stream, the
  library's keepalive.
* `EventBus`: the flush loop's steps and the end of the final flush.
* `AlertBridge`: the loop, time, the return of each send; strong fairness of each
  successful send: Telegram does not refuse one kind of alert for ever.
* `DailyDigest`: the monitor's pass and the bus. No start, shutdown or digest is owed.
* `RuntimeAudit`, `Backtest`: none; their properties are about safety.

## 4. Proofs

All safety properties of the passing runs, invariants and action properties, are
theorems, and so are all refinements: for all values of the constants under the
`ASSUME`s of the modules (sets of any size, any limits, windows and bounds), and
under a hypothesis of their own in one place: `AtOnce = 1` for the report files
of the audit, which is how `poly-oracle-runtime-audit.timer` starts it. `tlapm M.tla`
checks the proofs of a module `M`.

* `TypeCorrect`, `FeedTypeCorrect`, `DigestTypeCorrect`, `AlertTypeCorrect`: the
  type invariants of all modules that state one (`Backtest` does not; `DatasetInv`
  has its types). In `OrderBroadcaster` and `TradeLifecycle` they are inductive as
  they stand, because of "a frame that is not idle has a key" and "an exit in hand
  is at the head of the results".
* `TypeCorrect` of `Evaluation` says more than types: no HOLD is on the execution
  queue, no loop retries beyond its limit, a blocked window has an end. None of it
  is inductive. `TypeInv` adds how far each await's loop may have come
  (`AttemptsInv`), that what stands before its persistence passed the Gatekeeper
  (`WrittenInv`, `ValidatedDecides`) and that a candidate's numbers stay on their
  scales (`ValuesInv`), which for `ParseOrderBook` needs that the best bid and the
  best ask of a book exist (`HighestLevel`, `LowestLevel`).
* `AlertTypeCorrect`: ages stay within their bounds because `first_seen_at_utc` is
  never older than the condition's last absence, which is `Sustained` (below).
* `LedgerInvariant`, `Refinement`: every step of `OrderBroadcaster` is a step of
  `OrderLedger` or a stutter. `TypeOK` is not enough: that `PostOrder` accepts the
  *only* order of a key needs that no other frame holds the same key past its
  insert. `LedgerInv` says so: frames past the insert own different rows, those
  rows are PENDING, and the stage tells whether the exchange has the order. The
  unique `decision_id` establishes it, `Restart` keeps it by emptying the frames.
* `RowsTrue`: `RowsTell` is proved inductive once, of `OrderLedger` (`LedgerTells`),
  and carried over by `Refinement`.
* `LockNeverLost`: `LockOwned`, the safety half of `BroadcastReturns`: who waits for
  the nonce lock waits for a task at its RPC call, which has a timeout.
* `NoncesDistinct`: the property speaks of rows only, but a nonce lives in a
  frame before it lives in a row; `NonceInv` extends it to the frames at their
  insert and says that every ticket is behind the counter of its epoch.
* `LateBuys`: `LateInv`. While the latch is open the consumer holds at most one
  decision that has passed `check_entry_allowed()`, and none after it was sent;
  and the override has been spent, so only a restart closes the latch. It is
  proved of `TradeLifecycle` and, with every gate and the router between the
  check and the order, of `EntryRouting`.
* `Implements`: every step of `EntryRouting` is a step of `TradeLifecycle` or a
  stutter: the gates map to `exposure`, the awaits of the router to `route`, the
  whole scan to a step or none. It needs the types and `GateHolds`: with the
  exposure gate configured no frame is ever behind it.
* `BuysOnce` and `EntriesForgotten` of `EntryRouting` are the theorems of
  `TradeLifecycle` under the refinement mapping: its proofs are instantiated with it
  (`TradeProofs`), and `Implements` says that their hypothesis holds. That
  hypothesis is `Steps`, the specification without its fairness, which no safety
  theorem of `TradeLifecycle` uses.
* `SizesBounded`: `Sizes`. No position exceeds `max_order_usdc`, and each has a
  price by which the aggregation can divide, in the frame, the table and the scan.
* `Settlements`: `SettledOnce` follows from `TypeOK` action by action.
* `Closed`: `OnceInv`. A decision is in one place of the pipeline and has no
  position before it is recorded, so no second recording reopens a position.
* `FollowsLedger`: the three loops and the restart move `status` and `orders` by
  steps of `OrderLedger` only. So what rows tell is true of both orders of every
  decision (`TradesTell`).
* `BuysOnce`: `OneAttempt`, with `OnceInv` beside it: a decision that waits, is queued
  or is in the frame has left no row and no order, since it was nowhere else before.
  `EntriesForgotten` is the other end: a decision the consumer is done with has no
  way back, so its row and its order stay. It is an action property that follows
  from the types.
* `SoldWasOpen`: `OnlyOpenedSold` together with `OnceInv`: the scan reads OPEN rows
  only, and no later recording turns such a row into a FAILED one.
* `SpendingBounded`: `SpendInv`. What was spent is covered by what is counted, up
  to a reservation of the day before; while a call is pending the count is within
  the quota, and without that part no settlement could be bounded by one excess.
* `PeekReliable`: `CheckedRoom` and `PeekedRoom` reduce what `check_budget()` and
  `peek_budget()` compute to one predicate, `Room`, that passing time only makes
  weaker (`RoomStays`). That last step fails for a total below zero (a reservation
  given back in the next day), unless a reservation fits into the quota at all:
  `ReserveFits`, the strengthening in `PeekHolds`.
* `ReflectedRoutes`: `ReflectedOrHold`. Before the Gatekeeper stands a verdict that
  may route, or a candidate that does not decide.
* `OncePerWindow`: `BlocksHeld`, the quarantine of a market outlasts every window
  in which it was blocked. `FailuresCool` is inductive given the types;
  `FirstCallsWarm` needs `FirstIsWarm`, which every await up to the call keeps.
* `Accounted`, `Quarantined`, `NoWakeupLost`: `QueueInv`, the conjunction of the
  properties; they hold only together, since it is the account that tells what a
  drained quarantine takes away. What the drain returns is a fact about the
  recursive function `Without` for a queue of any length (`SetInduction`, below).
  `WakeupPending` is the safety half of `ConsumerServed`: the event is set exactly
  while contexts are queued, and nobody sleeps on one.
* `OnceEach`: `OnceInv`. Order is kept as three facts about batch and queue, not
  about their concatenation; `Placed` says that alive and ended events partition
  those published. A publish is then an arrival (`Arrives`) and, when something
  gives way, an end (`Ends`); a batch that ends is two ends.
* `Kept`: `FirstQueued`, the event that gives way exists and is of the kind looked
  for, whatever `_diagnostic_count` says; `NoneEvicted` is then inductive.
* `Signalled`: `FailClosed` is inductive given the types.
* `Delivers`: every step of `EventBus` is one of `EventDelivery`, or one that nobody
  sees, under the types and `OnceInv`: an overflow takes its victim out of the queue,
  which is behind the batch in the line (`PublishDelivers`), and a batch that ends is
  a front of it (`BatchLeaves`). `PromiseSignals` says what the promise is worth: it
  implies `FailClosed`, and that no critical event is evicted, whatever implements it.
* `Followed`: `FeedInv`, for any number of loops. `ActiveServed` speaks of the moments
  between batches; `Settled(m)` says what holds of an uncontested market within them:
  `assets` and what every batch under way wants agree with `active`, and what the
  exchange sends and `subscribed` do so, or a batch on the present connection
  (`Sending`) will still unsubscribe or subscribe it. It needs `Linked`, an open stream is that of the
  last connection, and `Consistent`, a batch gives up nothing it wants. Contested
  markets are left out by the definition of `ActiveServed`, not by a hypothesis
  about behaviours, and `Connect` carries over only those still unsettled.
* `QuarantineKept` needs no more than the types: `BeginPreflight` asks the
  quarantine, a result that lifts it is of a preflight that was under way, and there
  is none while the market is `Quiet`.
* `AlertsSustained`: `Sustained`. `first_seen_at_utc` is never before the moment
  the condition was last seen absent, nor is the `now` of a pass, and what is
  being sent was due by that `now`.
* `Replayed`: `DatasetInv`. A day file is whole, torn or absent (`WholeDays`), and
  of a market whose outcome is on disk every file has been begun (`Promised`,
  `Begun`), wherever a build is killed. `ReadInv` is about the reader: of a market it
  is owed, each observation is in what it has read or in a file it has still to read.
* `DrawdownExact`: `Summary`. The three numbers of `run()` stand for the whole
  history: the peak is the largest equity so far, the drawdown the largest fall from
  an earlier to a later point. The equity after `n` trades is a recursive function.
* `VerdictsTrue`: `Reasoned(a)`, for audits that overlap in any way: what a frame
  has found, or not found, up to its stage, is matched by what held meanwhile.
* `LatestReports`, `GatesRecorded`: `FilesInv`. What each stage has written is there
  under its stamp, `latest.tmp` is the audit's own from write to rename, and
  `latest.json` is its own from then on if nothing failed.
* `LifecycleSaid`: `Lifecycle`, about ledger and bus read as one sequence: of START
  and SHUTDOWN the last word is START while the process runs, SHUTDOWN from
  `CancelTasks` on. A batch moves events within the sequence, and only a lost one
  shortens it.
* `DigestReadsAll`: `ReaderInv`. Counted from the end of a ledger that grows there,
  the offset falls behind and never runs ahead: whatever was there when the
  reader began has been read or lies before the offset (`Passed`). The two bounds
  of `DigestCovers` follow by counting intervals.

The provers cannot use the library's induction theorems, which take an operator.
`SetInduction` says the same of a set: a set of naturals with zero and with the
successor of each member is `Nat`; it follows from the least element that
well-foundedness gives every set. With it, the facts about the recursive functions
`Without` and `Equity` are proved for every length.

The safety properties of `EvaluationProofs` need less than `TypeOK`, so they rest on
wider types (`Typed`: the numbers of a candidate are any integers, the attempt any
natural number), and `TypeCorrect` on them.

The inductive invariants were checked by TLC before they were proved, or follow
from what it had checked.

Only model-checked: the liveness properties (`BroadcastReturns`, `DecisionsEnd`,
`ExitPassEnds`, `DrawdownTrips`, `ConsumerServed`, `EvaluatedAgain`, `EventsLeave`,
`EvaluationEnds`, `ServedAgain`, `RoundsEnd`, `OutageAlerted`, `StateTold`), which
rest on fairness and `ENABLED` and are out of the provers' reach; and the run that
shows a violation.

## 5. Known divergences

What documents say of the program and the models, which do what the code does,
do not have. `colliding_orders` shows one in a run. The others follow from single
lines, or say that a property cannot hold; they have no run. Where a formula is
given in braces, TLC refutes it within seconds when it is added to the module.

Orders, positions, risk:

* A stale market's exit is appended before the close (`exit_strategy_engine.py:213`);
  when that fails, an `OPEN` position is settled and sold
  (`business_logic_wi21.md:206`: "`OPEN` positions have no settlement data.").
  {`TradeLifecycle`: `\A d \in Decisions : positions[d].pnl # "NULL" => positions[d].status = "CLOSED"`}
* The position is `OPEN` before its order is sent, and stays so when the order
  fails (`orchestrator.py:951`; `business_logic_wi17.md:67`).
  {`TradeLifecycle`: `\A d \in Decisions : positions[d].status = "OPEN" /\ buy.d # d => status[Buy(d)] # "FAILED"`}
  Nothing reconciles a PENDING row with the exchange.
* The exposure gate, when enabled, refuses everything by an exception:
  `_coerce_decimal()` refuses floats (`exposure_validator.py:73`) and
  `max_exposure_pct` is one.
* An order's size is quarter-Kelly capped by `max_order_usdc`
  (`execution_router.py:214`); the 3% of `docs/risk_management.md:22` caps only the
  size that the decision carries. Several unfilled orders are sized from one
  balance.
* `_build_order_data()` converts the condition id with `int()`, which raises for
  hexadecimal ids, and `route()` asks for the book of a condition id.
* Alerts are sent before the breaker hears of them (`orchestrator.py:1404`);
  realised losses never trip it; a book that is missing counts at entry price, and
  the drawdown adds prices of different moments.

Evaluation and its queue:

* The newest context may be evaluated before an older one of its market
  (`bounded_queue.py:123`; WI-53:56: "discards older stale contexts").
* `_activate_markets()` clears the dedupe state also of markets that stay
  (`docs/runbooks/market-eligibility-and-backpressure.md:48`), and a message may
  emit a context of a market deactivated meanwhile (WI-53, rule 18).
* A retry and a reflection are paid for in the cooldown that the same evaluation
  caused (WI-52:76); `NoFirstCallInCooldown` is what remains. A chain timeout
  records no outcome, and the SDK's own retries reserve nothing.
* `_persist_decision()` swallows database errors and the decision is queued all
  the same (`business_logic_wi09.md:32`).
* A market's quarantine outlives the daily rollover that clears its counter.

Market data:

* After a PONG timeout `_heartbeat()` returns without closing the connection, as
  its docstring says it does (`ws_client.py:487`); the library's keepalive ends it.
* A preflight that times out is not counted as a failure
  (`market_discovery.py:312`), so such a market is never quarantined (runbook
  market-eligibility:40: "≥ 3 consecutive preflight failures").
* Batches of the two loops may overlap while a send is suspended: each computes its
  differences before its sends and overwrites the records after them (`ws_client.py:403`,
  `:430`), so an active market may go unserved and one that is not active may
  be sent as long as the connection lasts (`orchestrator.py:1540`: "both discovery loops
  converge on the same activation [...] no duplicate subscriptions or stale state").
  {`MarketData`: `(stream = "open" /\ link = "up" /\ \A l \in Loops : ~Batching(l)) => active \subseteq server`}
* A preflight that one loop began before the other quarantined its market lifts the
  quarantine when it succeeds (`market_discovery.py:354`, `market_quarantine.py:90`; the
  runbook has a market eligible again "after expiry").
  {`MarketData`: `[][\A m \in Markets : IsQuarantined(m) => IsQuarantined(m)' \/ entry'[m] = "over"]_feedVars`}
* The reported `DEGRADED` state is overwritten by `RECONNECTING` at once.

Operations:

* `drop_diagnostic` may refuse an event while an INFO event is queued: the incoming
  one is not counted (`operational_event_bus.py:196`;
  `docs/runbooks/operational-event-ledger.md:119`).
  {`EventBus`: `[][fate'["rejected"] # fate["rejected"] => InfoIn(queue) = {}]_vars`; needs 5 events}
* `stop()` cancels the batch in flight instead of draining it
  (`operational_event_bus.py:132`; its docstring at `:125`).
  {`EventBus`: `phase = "drained" => fate["lost"] = {}`}
* A breaker transition whose alert is suppressed or fails is never alerted
  (`operational_alerts.py:357`; WI-50:50: "exactly one closed alert").
* Readiness of the loop ignores a degraded ledger and the grace window; without
  the health server it stays degraded.
* The digest lists the ten oldest unresolved errors (`daily_ops_digest.py:850`),
  and nothing but `ERROR_RECOVERED` resolves a provider's failure: ten of them keep a
  breaker that trips later out of the list, though not out of the operator's checks.
  {`DailyDigest`: `process = "running" /\ breaker = "OPEN" /\ ~lost /\ bus = << >> => Contains(Unresolved(ledger, Errors), "CIRCUIT_BREAKER_OPEN")`}
* A restart while not ready tells the ledger nothing, so the digest goes on saying
  READY; a breaker reset by a restart stays open in the digest; uptime counts the
  time after a crash.
* Two audits at once share `latest.tmp` and names of one second's resolution
  (WI-61:145). A DEGRADED `/readyz` is a 200 and leaves the verdict HEALTHY
  (WI-61:113). The default `base_url` is not the port of the metrics.

Backtesting:

* Building twice over one directory appends (`historical_dataset.py:505`), so rows
  double (WI-43:48). A torn file counts as empty in the next build, a killed build
  leaves a stale manifest, and one unreadable manifest is a single bad row.
* The real-data run always falls back to an evaluator that holds and can never
  pass; a dry-run trade counts as an outcome (WI-55:58, rule 22); one invalid
  answer of a provider aborts the comparison; a trade counts even if the router
  refused it.

## 6. Not modelled

* Signing, HTTP and JSON: cryptography and I/O, whose results are choices where
  they are used. Prompt texts, and the sentiment's content: wording.
* Schemas, configuration, database models: data definitions.
* Narratives, dashboards, incident replay and the soak evidence collector: pure
  views that turn stored rows into text; the metrics' exposition likewise.
* `dry_run`: it changes no state of positions, orders or breaker.
* Decimal precision and rounding, except where a window, a limit or a size meets a
  boundary; PnL arithmetic; matching and settlement by the exchange beyond its
  answers.
* The reported connection state, the ranking of markets.
* Wall clocks that go back; several processes over one database, but for the
  digest and the audit.

## 7. Plan

1. The safety halves of the liveness properties that have none yet. `WakeupPending`
   is that of `ConsumerServed`, `LockOwned` that of `BroadcastReturns`; the flush
   loop and a round of discovery are left.
2. An abstract specification of the subscription, implemented by `MarketData`, that
   says what an overtaken batch can leave behind.
3. A reconciliation of PENDING rows, when the code gets one: `RowsTell` is what it
   may rely on.
