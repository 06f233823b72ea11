# Bitana: a verification project

Bitana is an asyncio trading bot for Binance USDT futures (`main.py`,
`python main.py --mode paper|live`), with two forward tests, a family of replay
tools and a research toolbox beside it.  This directory holds TLA+ models of
what in it keeps state, the TLC configurations that check them, and theorems
about them checked by TLAPS.  `PROJECT.json` maps every definition to the lines
it models and lists runs, mutants, findings, hazards and theorems.

To check a run: `tlc -config Components.cfg MCComponents` (section 3 names the
module of each run).  To check proofs: `tlapm RiskProofs.tla`.

Paths in this file are relative to `src/`.

## 1. Inventory

| Component | State | Operations | Talks to |
|---|---|---|---|
| Trading loop (`main.py`) | none of its own; awaits between decisions | candle handler, `/flatten`, equity update, setup, shutdown | everything below |
| Position manager (`execution/position_manager.py`) | positions by trade uuid | add, recover, manage on candle close, close | order manager, database |
| Order manager (`execution/order_manager.py`) | none | entry, exit, wait for a partial fill | executor, database |
| Live executor (`execution/live_executor.py`) | none | place, cancel, close, positions, balance | REST client |
| Paper executor (`execution/paper_executor.py`) | balance, positions, price | the same, simulated | - |
| Reconciliation (`execution/reconciliation.py`) | none; a snapshot held across an await | one pass every 30 s | executor, position manager, database |
| Position lifecycle (`core/models.py`) | state of a position | `transition_to` | - |
| Risk manager (`risk/risk_manager.py`) | peak, equity, drawdown, active risk, streak, countdown | update equity, record result, size | database (row) |
| Brakes (`risk/brakes.py`) | losses of day and week, dates, cooldown, latches | check, record loss, equity check, pause, resume | database (row) |
| Portfolio manager (`risk/portfolio_manager.py`) | none | limits, priority, multiplier | - |
| Database (`storage/database.py`) | tables, write queue | one writer, FIFO; a write returns when durable | SQLite |
| Candle manager (`data/candle_manager.py`) | closed candles, lock | WS candle, history, REST check | event bus, REST |
| WebSocket client (`data/binance_ws.py`) | connection, consecutive failures | connect loop, messages | exchange, candle manager |
| REST client (`data/binance_rest.py`) | signature and attempt of a request | request with retries | rate limiter, exchange |
| Rate limiter (`data/rate_limiter.py`) | tokens, last refill | acquire | every task that sends |
| Event bus, watchdog (`core/`) | handlers; tasks, restart counts, heartbeats | emit; supervise, monitor, stop | all tasks |
| Telegram bot (`tg_bot/bot.py`) | pending `/flatten` | commands | main's callbacks |
| Signal engines (`engines/`) | candles of the higher intervals, indicator windows | feed, evaluate | forward test, main |
| V5 engine (`engines/liq_cluster_engine_v5.py`) | cascade, cooldowns, streak of stops and trade of each symbol | `update_daily_liq`, `evaluate`, `manage_position` | v5 runner |
| V5 forward test (`tools/v5_forward_test.py`) | open positions, paper equity, last processed candles, tables, liquidation cache | candle loop; liquidation stream, seeding, daily refresh; recovery | v5 engine, telemetry, SQLite, REST |
| Forward test (`tools/forward_test.py`) | positions, cooldown, last candle, tables | poll, manage, close, enter, recover | swing-break engine, SQLite, REST |
| Replay tools (`tools/replay_*.py`) | simulated book, downloaded history, results of the variants | fetch, walk, sweep, recommend | exchange history |
| Telemetry (`research/v6_telemetry.py`, `research/shadow_exits.py`) | bounded queue, spool file, tables, shadow exits of each trade | log, worker, spool | v5 runner, SQLite |
| Research data (`research/data/`) | one Parquet file for each dataset | collect, resume, append | exchange, Coinalyze |
| Research backtest (`research/engine/`) | position, capital, trades, equity curve; windows | run, split, test | research scripts |
| Configuration, health and logging, reports, symbol info, deployment | none that outlives a call | - | - |

The interactions that are hard:

* **Interleaving.**  All tasks share one event loop; every `await` is a point at
  which another task runs.  The candle handler checks brakes and limits, then
  awaits the spread, the balance, two database writes, the leverage and the
  order, and only then adds the position; a partial fill adds 30 s.
  Reconciliation applies a snapshot that may be older than local changes.
  Callers of the rate limiter sleep outside its lock; the candle check asks REST
  before it takes the lock; stream, refresh and candle loop of the v5 runner
  share one SQLite connection and one engine.
* **Failure.**  An order may be rejected, rest on the book, be filled in part, or
  be executed although its answer is lost or is an error; a request that timed
  out is sent again.  A statement of the database may fail, which raises in the
  task that waits for it.  An exception ends the handler where it is; the event
  bus logs it.  The link to the exchange drops candles.
* **Crash and restart.**  Rows are saved after the fact; `setup` reads them back.
  Both forward tests close a trade in several commits, so a restart takes
  candles again; the collectors resume after the last stored row.
* **Limits of capacity.**  The telemetry queue is bounded and spools what does
  not fit; the writer queue is stopped by a sentinel that later writes miss;
  restarts and reconnections have a budget.
* **Time.**  Daily and weekly counters roll at whichever call sees the new date
  first; a cooldown spans the reset; `/flatten` waits for its confirmation
  inside the handler of the command.
* **Sequences.**  Two causes reduce the risk and several latches block entries;
  each ends by its own rule.  A replayed trade pays its fees in three calls.

What makes the components correct: no entry beyond a limit; results reported
exactly once; positions within the portfolio limits and closed for good; what
is on the exchange is known here in the end; a brake lifted only by who may lift
it; a write that was answered is durable; a request is reported as it ended; an
engine decides on what has happened, all of it and in order; books add up.

## 2. Modules

| Module | Models | Notes |
|---|---|---|
| `TradingCore` | candle handler, position and order manager, live executor, reconciliation, `/flatten`, commands, ends of the process, the exchange | one step from await to await |
| `Lifecycle` | `PositionState`, `VALID_TRANSITIONS`, `transition_to` | no variables |
| `PositionBook` | what the loop promises about its trades | abstract; `TradingCore` implements it (`ImplementsBook`) |
| `Brakes` | `risk/brakes.py`, the `brake_state` row and its callers | clock, calendar, saves, crashes |
| `RiskManager` | `risk/risk_manager.py`, the `risk_state` row and its callers | equity in units, percentages as integers |
| `RateLimiter` | `data/rate_limiter.py` | callers that race |
| `RestClient` | the request loop of `data/binance_rest.py` | retries, lost answers |
| `MarketData` | `data/candle_manager.py` over the WebSocket and REST | a link that drops |
| `WriterQueue` | the write queue of `storage/database.py` | errors, sentinel, restarts |
| `Supervision` | `core/watchdog.py`, the connect loop, the shutdown of `main.py` | spinning tasks |
| `TelegramBot` | the commands of `tg_bot/bot.py` | one update at a time |
| `PaperExecutor` | `execution/paper_executor.py` as it is driven | restarts |
| `LiqClusterEngine` | the v5 engine's state of a symbol and its entry points | operators, no variables |
| `V5ForwardTest` | the v5 forward test's candle loop and tables | one step per commit or await; extends `LiqClusterEngine` |
| `LiquidationCache` | its liquidation table, stream, seeding, refresh, and the engine's tracker | shared connection |
| `Telemetry` | its telemetry and shadow exits | bounded queue, spool |
| `ForwardTest` | `tools/forward_test.py` | statement by statement |
| `SwingBreak` | what the swing-break engine is fed | boundaries, missed answers, restarts |
| `ReplayBook`, `Replay` | the simulated book and the seven replay loops | `Replay` extends `ReplayBook` |
| `ReplayScripts` | paging, grids, worker pool, recommendation | eight scripts |
| `Collection` | `research/data`: the collectors and their store | failed pages, kills |
| `Backtest`, `WalkForward` | `research/engine` | |
| `MCTradingCore`, `MCV5ForwardTest`, `MCBrakes` | instances for TLC | values and the symmetry of uuids |
| `MCComponents`, `MCServices` | suites: components checked one at a time in one run | `focus`, below |
| `MCLedgers`, `MCForward`, `MCFeeds` | the instances of the components of `MCComponents`, their constants and the assumptions on them | extended by the suite and by the proofs |
| `RiskProofs`, `TradingCoreProofs`, `V5ForwardTestProofs`, `LedgerProofs`, `ForwardProofs`, `FeedProofs`, `ServicesProofs`, `ComponentsProofs` | theorems | section 5 |
| `Totals` | sums over sequences, as the proofs need them | functions, no code |

Operators named *Mutant of X* are plausible bugs of `X`; `PROJECT.json` pairs
each with a property that notices it.

A module that others extend side by side names what would collide after itself
(`BrakesInit`, `RiskNext`, `limiterVars`, `WriterNext`, `WatchTypeOK`).  The suites
`MCComponents` and `MCServices` hold several components that share no state:
`focus` is chosen in the first state, only the component in focus moves, and the
others rest in one first state.  So one run explores their state spaces one after
another and not their product, and a property of the suite names the component
it is about (`focus = "paper" => ...`).

### Brakes

`brakes` is `BrakeManager.state`, `brakeRow` the row.  `AfterCheck`, `AfterLoss`,
`AfterEquity`, `AfterPause` and `AfterResume` are the five methods as functions
from state to state; `EntryAllowed` is the first result of
`check_entry_allowed`, whose early returns decide how far the counters are
reset.  A handler that changes the state awaits alerts before it saves:
`unsaved` is that window, `Save` its end.  `truth` counts what was reported,
independently of reset dates, so that the properties do not restate the code.
A crash takes the observation back to what was saved: a loss that no row holds
is lost to the code as well.  `GracefulRestart` ends one process with a save and
begins the next from the row.

### Risk manager

`risk` and `riskRow` likewise.  The drawdown is not stored: the code assigns it
together with peak and equity, from them.  `since` counts the trades after the
last streak, an observation.  `calculate_position_size` changes no state and is
left out.  Two remarks on what the repository says: the trade that triggers the
penalty counts against it, so "reduced risk for next 5 trades"
(settings.yaml:74) is four further trades, which is how `PenaltyServed` states
it; and entries are sized with the symbol's own risk (main.py:422), which is
never empty, so the reduced risk kept here does not reach the size of an entry
(README.md:59).

### Trading core

| Variable | Code |
|---|---|
| `exch`, `order` | the position of each symbol on the exchange and what is left of an unfinished order |
| `pos`, `rows` | `PositionManager._positions` and the `positions` table |
| `signals`, `booked` | the signals acted upon; calls of `record_trade_result` (observation) |
| `brakes`, `kept` | what blocks entries, in memory and in the row |
| `h`, `r`, `f` | where the candle handler, the reconciliation pass and `_flatten_all` are, with the locals that survive an await |
| `spent` | how much of the bounds is used: stops, failed writes (`fail`), lost answers (`lost`), trades of a user, flattens |

The handler goes `idle` - `manage` (one position of the symbol after another) -
`wait` and `answered` around an order - `record` - `entry` - `answered` - `idle`.
A first signal that was not filled leaves it at `unfilled`, from where the second
engine's signal (`NextSignal`, `last`) is tried against the limits and brakes read
before the first.  `SendExit` is the request up to the execution on the exchange;
`TakeProfitAnswered`, `CloseAnswered` and `CloseFailed` are what follows its answer.

What may fail, each within a bound:

* A write (`WriteFails`): `save_position`, `save_trade`, the rows of risk and brakes.
  Memory keeps the change, the row keeps the old one (`NotSaved`), and the task ends:
  the handler, the pass (`SaveHealed`) or the flatten (`FlattenMark`).  So a close
  whose first save fails leaves the trade CLOSED in memory, open in its row and
  unreported; one whose second save fails leaves it CLOSED in both and unreported.
* A request (`Outcomes`, `Loses`).  An order whose answer is lost is sent again and
  may be executed twice; its answer may be an error although it was executed (a
  status 500 or 504, or the last 503); or the task gets an exception, after none,
  one or two executions.  The rest of a partial fill may fail to be cancelled
  (`CancelRemainder`) or the cancel may raise (`CancelLost`); the cancels of
  `/flatten` are not looked at, or raise and end it (`FlattenAborts`); three times 429
  make `get_positions` empty (`EmptySnapshot`).

Abstractions, each with its reason:

* All positions are on one side.  Side decides the sign of a trade, which no
  property is about; opposite trades on a symbol are refused by
  `max_per_symbol` = 1 as same-side ones are, so *max per symbol* and *no
  duplicate* are one condition.
* Prices, indicators, regime filter, spread and sizing are the decisions taken
  from them, chosen freely.  The quantity of an entry is 1..`MaxQty` steps; half
  of it, rounded down, is the take-profit.
* A change of a position in memory is followed by `save_position` without an await in
  between, and the writer queue is FIFO, so whoever reads the table later reads the
  change: one step changes both.  A crash before the commit leaves what a write that
  failed does, and so does a graceful stop whose own save fails.  A commit that fails
  leaves its statement in the transaction of the next one (`WriterQueue`); that the row
  then comes to agree with memory late is not followed here.
* `Initial stop = entry` (a stop distance of zero), for which `pnl_r` is not
  divided, is left out: the engines give a distance.
* `local_map` takes the last open position of a symbol in dict order; the model
  lets it be any.  An external position is named by its symbol, so only the latest
  of each symbol is followed: reconciliation adds one only where none is open, and
  nothing manages or reports the earlier ones, which are closed.
* The quantity tolerance of one percent is equality of step counts.
* One unfinished order per symbol is followed; a second one that would rest is
  answered in another way.  A request is executed at most twice, where the code
  may send it three times.
* `BookTrade` merges the report with its save, and `EquityBrake` likewise: the
  window between them is the subject of `Brakes` and `RiskManager`.
* `FlattenStart` merges the cancellation of all orders with reading the open
  positions.  `/flatten` is modelled although its confirmation is hard to reach
  in practice (`FlattenUnreachable`).
* Paper mode, whose orders are filled at once, is module `PaperExecutor`.

### V5 forward test

| Variable | Code |
|---|---|
| `st` | `engine._states` |
| `open`, `closed`, `held` | `open_positions`, those of them with `_closed`, their `candles_held` |
| `equity` | `executor.equity`, as the entry fees deducted and how often each result was booked |
| `last` | `last_processed` of the candle loop |
| `disk` | `open_positions`, `trades`, `duplicate_keys`, `state` as committed |
| `h` | where the loop is, with the locals that survive a commit or an await |
| `entry`, `showed` | every entry ever made; trades that reached 0.1 R (observations) |

`Poll` fetches a symbol's candles; for each new one the loop goes `manage`
(`Hold`, or `Close` - `RemovePosition` - `SaveEquity` - `ExitAlerted`), `entry`
(`NoEntry`, or `Signal` - `Enter` - `EntryAlerted`) and on.  `Write` is a
committed statement that may fail: `_candle_loop` catches the exception, sleeps
and begins the cycle anew, with what memory holds by then.  Abstractions:

* A bar leads to one of the engine's decisions, chosen freely within the bars
  held, the cascade and `lively`; one decile's constants stand for all.
* Candles carry the number of their close, the same for every symbol; buffers
  and prices are data.  The clock is read between polls only, so candles close
  only there.
* The liquidation stream, its flush under `_engine_lock` and the daily refresh
  without it are `Liquidations`: a cascade begins or ends at an await at which
  that task may run.
* An exception of `manage_position`, which the runner catches, saves the position and
  goes on to the next (`ManageFails`, counted with the failing statements); one of
  `evaluate`, and an equity that is used up, are `NoEntry`.
* `SaveEquity` merges the rows of equity, peak and snapshot, which nothing
  modelled reads apart.  Telemetry is a module of its own; the daily report is
  output.
* Long trades only, as in the code.

### Rate limiter and REST client

`tokens` is the bucket after a refill; the code refills when it looks at the
bucket, the model with every `Tick`, which gives the same tokens at every look.
`want` and `sleep` are the callers, which sleep outside the lock: another may
take the tokens one slept for.  `age` and `granted` observe a window that may
begin at any instant.  `RateLimiterGroup` is two such buckets, one for weights
and one for orders.

In `RestClient` a request is `acquire` - `send` - `sleep` or `acquire` again.  The
signature is made once, before the loop's first attempt is sent, so `stale` says
that its timestamp is too old for the exchange; an answer 429 takes new tokens,
the other failures do not, and whether the signature survives the wait depends on
its length.  `executed` and `doubts` observe the exchange: an attempt that ended in
a time-out, a broken connection or a status 5xx may have been executed.  502 and
503 are sent again (`Unavailable`), any other 5xx is returned at once as data
(`ServerError`), as a refusal is (`Refused`, the other 4xx); only the status tells
them apart, and the caller is not given it.  The endpoints are calls of the one
method and differ in `kind` only.

### Writer queue

A write is a number that stands for the statement and for its future.  `tx` is
what has been executed and not committed: nothing is rolled back when a statement
fails, so it waits for the next commit.  `Cancel` is the cancellation of a task
that awaits its write.  `CloseDatabase` puts the sentinel, and `_write` does not
ask whether the writer still runs.

### Supervision

`sup` is where `_run_with_supervision` of each task is, `sock` where the connect
loop is that one of them starts as a task of its own, `phase` where
`Bitana.shutdown` is (an alert, the watchdog's tasks, the socket, the last rows).
asyncio switches at an await only: `spinning` says that a task has the loop and
will not give it back, and then no action is possible.  Intervals stand for
seconds; `Patience` is the number of them a heartbeat may be missing.  The
failures of one task are as many as its restarts allow, which is what bounds the
model.

### Market data

A candle is the number of its open time and whether its close agrees with the
exchange.  `wire` holds what the WebSocket has sent and the handler not yet taken;
a dropped link loses it, and after a connection the last candle may come again.
`AskCheck` and `ApplyCheck` are the two halves of `verify_with_rest`, before and
after its request; the answer that is applied may be older than the buffer.
`busy` is the lock, which is held while the handlers of `CANDLE_CLOSED` run.

### Telegram bot

The application awaits the handler of one update before it takes the next, as
python-telegram-bot does with its defaults (external).  `left` are the seconds the
handler of `/flatten` still sleeps, `owed` that a CONFIRM was sent in its window.

### Paper executor

`positions` are the executor's, `book` the bot's, which survive a restart; without a
price a close is refused, and `/flatten` ends the bot's position all the same
(`CloseUnpriced`); `told`
adds up what the bot was told.  Money is counted in fees, `Scale` of which make a
unit of price.  `PlaceExit` is reached from `execute_exit`, in part or in full, and
from `close_position`.  Prices change when a candle closes, between the orders.

### Liquidation cache

`rows` is the table as the shared connection sees it, `saved` as committed: a row
one task has written is read by all and committed by whatever commits next.
`refresh` is the daily refresh with the symbols it still has to do and what it
fetched before its awaits; `tracker` is the set of dated rows the engine's deque
holds, which it is handed in the order of their dates; `stream` is the WebSocket
task with its debounced flush, `dirty` the symbols it has not fed.  A message brings one unit of volume;
the side, which decides the imbalance, does not enter the verdict.  The tracker's
verdict (a recent day above the 90th percentile, a volume that has not dried up,
a market that has not fallen) is computed as the code does; `Cascade` scales the
percentile by ten to stay with integers.

### Telemetry

The v5 runner is reduced to what it logs and to the awaits at which the worker
may run.  `Log` is one `enqueue_write` after another without an await: what does
not fit the queue goes to the spool file, each item in a thread of its own
(`overflow`).  `owed` observes what was logged and is in no table, in no file and not
reported as dropped, which is what becomes of an item that the file refuses
(`Spooled`); `settled` the trades whose shadows have been given their exit.

### First forward test and its engine

`ForwardTest` goes statement by statement: every one commits alone, so a crash
may come between any two, and each may fail (`StatementFails`), which ends the
handling of the candle and of those behind it with what memory holds by then.  A
position that was closed is flagged (`gone`) and leaves the list only after the last
of the candle (`Sweep`), so a failure in between keeps it there.  A poll returns the last closed candles, of which the
code knows the one it handled last.  What a candle does to a position (a stop, a
trail, a time stop, a partial exit) is free; the arithmetic of these exits is
that of `Replay`.  `SwingBreak` is the other half of the loop: the candles of four
hours and of a day that `_update_htf` gives the engine and what the engine sees
when it decides.  Time is counted in candles of fifteen minutes.

### Replay tools

`ReplayBook` is what the tools share: fills with a step of slippage, fees for each
unit, positions with stop, target, trail and partial exit, trades.  Each of the
seven tools carries its own copy of that code, and they grew apart, so `Replay`
has a loop for each with its own gates (session, regime, loss of the day,
drawdown, streak, pause), named after the tool, and hands its copy of an operation to the shared
operator.  `Ledger` is stated about the book of whichever tool runs.
`ReplayScripts` is what surrounds a replay: the pages of an interval asked for
one after the other (an answer that is no list ends the paging, but raises in the
plain runner, `RunnerFails`), the grid of
variants, the pool of the fast sweep whose workers end in any order and may fail,
and the recommendation read off the results.

### Research

`Collection`: a dataset is resumed after its last stored row, page by page, and
merged with its file; a file whose writing is interrupted is `Torn`, as it is
overwritten in place.  The kinds differ: candles and days are given while they are
still open, the recent ones (open interest) are asked for anew and forgotten by
the source.  `Backtest`: any action may come with any bar, so the engine is
checked for every signal function; money is counted in costs.  `WalkForward`: any
set of days is a history; a window with too few rows to train on,
or none to test on, is skipped.

## 3. Runs and bounds

| Run | Module, instance | Shows |
|---|---|---|
| `Components` | `MCComponents`, one component at a time (below) | `TypesHold`; v5 runner: `OneEntryPerCandle`, `BookedOnce`, `OpenIsManaged`, `CooldownServed`, `HoldBounded`, `RemovedIsRecorded`; brakes: `LimitsEnforced`, `BrakesCooldownServed`, `ShutdownIsFinal`, `OnlyResumeOrClockReopens`; risk: `DrawdownReducesRisk`, `PenaltyServed`, `RestoreNeedsCause`; `GrantsBounded`, `AnswerIsTrue`; replays, paper executor, backtest: `Ledger`; scripts, collectors, walk-forward: `HistoryIsWhole`; `AdviceIsStable`; forward test and telemetry: `NothingLost`, `OneEntryPerKey`; liquidations and swing-break engine: `FedIsCurrent` |
| `Services` | `MCServices`, under fairness | `TypesHold`; writer: `AnsweredIsDurable`, `NoOvertaking`, `AnsweredUnlessClosed`; watchdog: `HealthyRuns`, `ShutdownEndsOrSpins`; candles: `HandledInOrder`, `WrongIsCorrected`; v5 runner with two symbols: `WithinLimits`, `CaughtUp` |
| `CoreFaults` | `MCTradingCore`: 1 symbol, 2 trades, rejections, pauses and loss limits, one lost answer, one failed write, one crash or stop | `BookedOnce`, `ClosedIsBooked`, `TypeOK` |
| `CorePortfolio` | `MCTradingCore`: 2 symbols, 2 trades, limit 1, rejections, one `/flatten`, one failed write, one crash or stop | `OwnLimits`, `ImplementsBook`, `ClosedIsFinal` |
| `CoreLiveness` | `MCTradingCore`: 1 symbol, 1 trade of up to two steps, partial fills, one lost answer, a user's trade, one crash or stop, fairness | `ExposureIsTracked`, `QuantityIsHealed` |

The five runs that pass and the seven that show a disagreement (below) are all.
`Components` has 1.4 million distinct states, `CorePortfolio` as many, about two minutes
each with two workers.

The instances of `Components`, and why they are large enough:

* *v5 runner*: 1 symbol, 2 trades, 4 candles, one crash or shutdown, one failing
  statement or decision of the engine.  A cooldown of two bars and a holding time of one end within four
  candles, and three candles per answer let a restart skip some and take others again.
* *brakes*: 7 instants, two a day, two days a week: a midnight inside each week,
  one Monday, and a cooldown of three instants that straddles both.  Losses of 1
  and 2 reach the limits (2 a day, 3 a week) in one or in several steps;
  `LossCap` only ends the counting.
* *risk*: equities 80, 88, 95, 100 lie below, between and above the thresholds of
  10 and 15 percent, and the peak may still rise; streak 3 and penalty 5 are the
  configured ones.
* *limiter*: 2 callers, weights 1 and 3 against a bucket of 4: one caller's deficit
  is another's chance.
* *REST client*: the code's three attempts, every answer.
* *replays*: 5 candles in two days and two trends, of prices that reach a target, a
  stop or a trail; every tool, variant and kind of market.  *scripts*: pages of
  two candles, 3 variants, 2 workers, one cut answer, one failing worker, so that
  a page ends in the middle and workers overtake one another.
* *forward test*: 3 candles, 2 polls, 2 trades, one crash, one failing statement: a
  poll that returns a candle again, and a crash or a failure at any statement.
* *liquidations*: 3 days of which 2 are kept, 2 messages, one stop, one error: a day
  passes while refresh and stream are under way, and rows are deleted.
* *telemetry*: one trade of up to two bars, a queue of three that a bar with two
  shadows fills, one failed write of the table or of the file, one stop.
* *collectors*: a dataset of each kind, pages of two, three instants, one failing
  page, one kill: each resumes once with and once without what is stored.
* *paper executor*: one symbol, two prices, four orders (open, close in two parts,
  open again), one restart.
* *backtest*: four bars, of which some reach a level of an earlier entry.
  *walk-forward*: every history of up to nine days with holes, windows of 3 and 2
  days that advance by 2.
* *swing-break*: nine candles, two to a four-hour one and four to a day, three
  failing requests, one restart: both boundaries twice and a whole missed candle.

`Services`: 2 callers, 4 writes, one failure, one restart (a write before and
after the sentinel, a failed one between two others); 2 supervised tasks, 2
restarts, 2 reconnections, a patience of one interval; 3 candles of history, 2
checked, 4 closed, one drop; the v5 runner with two symbols, two trades and a limit
of one, one candle, one stop, one failing statement.

In `TradingCore` two trades on one symbol are enough for every pair of an old and a
new position, two steps of quantity for a partial fill and a take-profit, two
symbols for a limit of one.  `MaxUser`, `MaxStops`, `MaxFlattens`, `MaxFails` and
`MaxLost` bound what would otherwise repeat for ever; the theorems hold for all of
them.  The kinds of faults are spread over the runs, since their product is too
large for one; the theorems take them together.  The liveness run has no failed
write: beside its other faults that is too large to explore.  Uuids and
symbols are interchangeable, which the runs without liveness use as symmetry.

No run switches the deadlock check off.

### Fairness

* `CoreLiveness`, `LocalOnly`: weak fairness of the handler, of the reconciliation
  pass and of the flatten, and strong fairness of `Snapshot`: `get_positions` is
  answered again and again, whatever passes in between find it empty.  The event loop
  runs each ready task, every request has a timeout, and `recon_task` starts a pass
  every 30 s.  Candles, commands, stops and the exchange owe nothing.  The choice inside a task is not fair: an exit
  need never be decided.
* `Services`: weak fairness of the writer (it awaits only its queue and SQLite), of
  the monitor, the shutdown, the reconnection and each restart (sleeps that end),
  of the history request, the candle handler and the question of the check; strong
  fairness of the application of a check, because a request may fail but another
  one is sent every period.  The link need not come up and tasks need not
  report.  For the v5 runner, weak fairness of the candle loop while the process is
  up; no start is owed, and `CaughtUp` says nothing of a process that stays down.
* `FlattenUnreachable`: weak fairness of the handler and of time, so that the
  counterexample is not a bot that stopped.

### Disagreements between the code and what is said of it

Each of these runs checks one property that quotes the repository, and TLC
finds a behaviour that violates it.

| Run (module) | Said | Found |
|---|---|---|
| `BrakesDurability` (`MCBrakes`) | risk/brakes.py:4 "All brakes are persistent across restarts" | `/pause` is in memory only |
| `GhostPosition` (`MCTradingCore`) | settings.yaml:101, portfolio_manager.py:34 "Max per symbol" | an entry in flight is adopted and then added |
| `LocalOnly` (`MCTradingCore`) | reconciliation.py:5 "Self-heals mismatches." | a local-only position is only logged |
| `StopLosesPosition` (`MCTradingCore`) | main.py:558 "Graceful shutdown.", main.py:578 "Persist final state" | a fill that is not yet added is in no row |
| `EarlyCut` (`MCV5ForwardTest`) | liq_cluster_engine_v5.py:702 "Cut dead trades at decay bar — never showed life" | recovery forgets `mfe`: a trade that did show life is cut |
| `FlattenUnreachable` (`TelegramBot`) | bot.py:222 "Type `CONFIRM` within ... to proceed" | the CONFIRM waits behind the handler that sleeps for it |
| `Reprocessed` (`ForwardTest`) | forward_test.py:467 "already processed", line 5 "Uses exact replay-winning rules." | a candle is handled twice and counts twice towards the time stop |

Others were met while modelling.  The models follow the code in them; they have
no run, because no text promises the contrary or because the property that would
say so is the next line of the code.

* Shutdown: `_running` is cleared before an alert is awaited.  A task whose body
  returns meanwhile is started again by the watchdog, without an await, and takes
  the event loop for good: `ShutdownEndsOrSpins` names that as the second way a
  shutdown may go.
* A socket that used up its retries stays dead unnoticed: its supervised task only
  starts it.  The failure of a critical task emits `SYSTEM_SHUTDOWN`, to which
  nothing subscribes.
* A write after the sentinel is never answered; a caller of the limiter with a
  large weight may be overtaken without end.
* Drawdown and streak reduce a risk that is shadowed where an entry is sized
  (main.py:422); a position is marked STOP_PLACED although no stop order is sent
  (main.py:466).
* Liquidations: a seeding or refresh overwrites the volume the stream added
  meanwhile; without a Coinalyze key the refresh does not feed a symbol that has
  too few rows; dirty symbols wait for the next message.
* `_entry_context` is no column, so the row saved again "with context"
  (v5_forward_test.py:1215) keeps nothing of it and a restart ends the shadow
  rule that needs it.
* Forward test: a candle handled twice enters the engine's buffer twice; the
  higher candle that closes together with one of fifteen minutes is asked for only
  after the decision, and a gap after a long outage is not filled.
* Paper executor: the exit fee is taken from the balance twice; `close_position`
  passes the position's own side, so that slippage favours it ("No optimistic
  fills.", paper_executor.py:6); after a restart it answers FILLED for positions
  it forgot and books no result.
* Backtest: a closed trade gives back a notional that no entry took, and the cost
  of an entry is charged twice; the trailing stop follows a bar's high before its
  low is compared; stop and trail fill at their level even where the bar never
  traded there; a bar that closed a position gets no point on the equity curve.
* Walk-forward: the anchored variant repeats one window without end, and the last
  row is never tested.
* Collectors: the candle or day that is still open is stored and not fetched
  again; Parquet files are overwritten in place.

## 4. What the checks show

The promises of the loop about its own trades hold under every interleaving,
order outcome, failed write and stop: at most one report per trade and only after its
close is stored (`BookedOnce`); closed for good (`ClosedIsFinal`), within the limits
(`OwnLimits`), in all a refinement of `PositionBook`.  A write that fails is what
they cannot make good.  The result of a trade whose close could not be stored is
never reported, for one trade per failed write (`ClosedIsBooked`, without crashes and
flattens); and a restart reads such a trade back as open, from its old row, which
is the one way in which a closed trade reopens or a limit is passed.  What holds them up is that one candle handler runs
at a time, because `CandleManager` keeps its lock while it emits: with two
handlers the limits would fail.  What the loop does not promise is agreement
with the exchange at a given moment; it comes in the end, as far as
reconciliation goes (`ExposureIsTracked`, `QuantityIsHealed`), and not for
positions gone from the exchange (`LocalOnly`).

Underneath it, the services keep their word within limits that the properties
name.  A write that was answered survives a restart and none overtakes another,
although a failed statement stays in the open transaction; every write is answered
unless the database was closed.  A request that was answered *accepted* was
executed, at most once more than its attempts were in doubt, which is what a
retried order may cost; one that a status 4xx refused was not executed, unless an
earlier attempt was in doubt; a status 5xx, which comes as data like a refusal, says
neither (`AnswerIsTrue`).  Candles reach the strategy in order and once, and a
candle whose close was wrong is corrected as long as a check comes while it is
among the last.  A task that is reported healthy is running, and a
shutdown ends or spins as above.

The v5 forward test survives a crash between any two commits: no position is lost
from the tables, no candle gives two trades, no result is booked twice, limits
and holding times hold after recovery.  Four things it does not survive, which
is why properties name their premise: a statement that fails inside
`_close_position` leaves a booked position in the list, whose row is saved again
and booked once more after a restart (`errors = 0` in `BookedOnce`, `WithinLimits`,
`OpenIsManaged`, `HoldBounded`); a crash between `remove_position` and the equity
row drops the result from the equity, and one before the next exit the entry
fee; a restart lifts the cooldown and the block after a streak of stops, so that
`CooldownServed` speaks of the `cooldown_bars` in a process that was not disturbed;
and it forgets `mfe` (`EarlyCut`).  `OpenIsManaged` also needs `max_per_symbol` = 1,
as configured: the engine follows one trade per symbol.  Its engine trades on the
liquidations the table holds but for the symbols still dirty, and nothing logged
to the telemetry vanishes before the process ends, whether it fits the queue or
not, but what the tables or the queue and then the fallback file refuse.

The first forward test enters no candle twice, although it handles candles twice, and
a crash loses it no position; a statement that fails between an entry in memory and
its row may, one for each failure (`NothingLost`).  The books of replays, paper executor and backtest account
for all their money, the double charges above included, and an exit level is never
passed over.  What scripts replay and collectors store is without a gap, however
the fetching was cut short, and the sweep's recommendation does not depend on the
order in which its workers end (the order of ties in its ranking may).

## 5. Proofs

Every theorem is for all values of the constants under the named assumptions, each
of which TLC evaluates for the values of the runs: ranges, finiteness of the sets
of trades and symbols, an absent value different from those beside it
(`LimitAssumption`, `RiskAssumption`, `CoreAssumption`, `EngineAssumption`,
`RunnerAssumption`, `BucketAssumption`, `WriterAssumption`, `WatchAssumption`,
`MarketAssumption`, `ForwardAssumption`, `NoItemAssumption`, `NoPositionAssumption`);
dates that do not go backwards (`CalendarAssumption`); at least one attempt per
request, positive prices and quantities, no slippage of more than a price
(`LedgerAssumption`); the seven tools that exist and numbers in candles and fees
(`ReplayAssumption`); windows of the split that step by at least the days tested
(`SplitAssumption`; both are 30, walkforward.py:19-22); pages that hold a row
(`CollectAssumption`, `ScriptAssumption`), the eight scripts and their intervals;
volumes and closes that are numbers, and trackers that hold a row and give no verdict
on none (`CacheAssumption`); the two intervals of the swing-break engine, which needs
candles before it looks at one (`SwingAssumption`).

* `RiskProofs`, brakes.  `LimitsEnforced` is not inductive: the stored counters are
  stale until some call rolls them, and the row is another copy.  `BrakesInv` says
  for both copies that the counters rolled to the current date are at least the
  losses reported since midnight and Monday (with the dates never ahead of the
  clock), and that a cooldown earned is stored.  `CheckCounts`, `LossCounts` and
  `TickCounts` are its three interesting cases.
* `RiskProofs`, risk manager.  `RiskInv` ties the countdown to the trades since the
  last streak, in memory and in the row, and the active risk to either cause.
  `EquityFacts` and `TradeFacts` describe the two methods; `BelowIsMonotone` is
  the arithmetic of the two thresholds.
* `TradingCoreProofs`.  `IndInv` joins types, where each trade may be (a trade
  the handler is about to add is in no row and in no list, a listed close is
  CLOSED and not reported), what the handler's program counter says of the
  limits (between the check and the addition there is room and the symbol is
  free of own positions), and what `/flatten` holds.  Almost every step is *calm*:
  it opens nothing and moves states only along `ValidTransitions`; `StepCalm`
  reduces the limits and finality to that and to `AddPosition`.
  `LoopImplementsBook` maps each step to one of the book or to a stutter.
  `RowInv`: the rows are behind memory only if a write failed, never ahead of it, and a
  reported trade has its CLOSED row, so a restart can undo a close but no report.
  A last section counts the closed trades that nobody is about to report (`Silent`):
  the handler deals with one trade of its symbol in a candle (`OneTrade`), so each of
  them cost a failed write (`Tallied`), which proves `ClosedIsBooked`.
* `V5ForwardTestProofs`.  `Keys`: every entry's candle is in `duplicate_keys`, and
  between the key and the entry no other entry has it.  `Recording`: the row
  about to be removed belongs to a saved trade; `RowsStay` shows that no other
  write removes one.  `Books`, while no statement has failed: an open position
  is not booked, a booked one has no row but between `save_trade` and
  `remove_position`, and the saved equity is never ahead of memory.  The one
  hard step is `Close`: a position the loop is about to manage is neither closed
  nor booked, which `Managed` and the start of a candle establish.  Four more
  strengthenings carry the rest.  `Sized`: rows are among the open positions, both
  fit the limits, and a signal leaves room for its entry (`WithinLimits`).
  `Owned`: the engine is in a trade for every position open or about to be
  (`OpenIsManaged`).  `Waited`, for a process that was never ended (`Undisturbed`):
  an exit's candle and the bars its cooldown still blocks reach the next candle to
  be evaluated (`CooldownServed`).  `Bounded`: a position has room for the older
  candles it still has before it, a row for a whole window of them while the
  process is down, under the `Cap` of `MaxHold + (Window - 1) * stops`
  (`HoldBounded`).  `OpenIsManaged`, `CooldownServed` and `HoldBounded` assume
  `MaxPerSymbol <= 1`, as configured; with more the engine, which follows one trade
  per symbol, fails them.
* `LedgerProofs`, limiter and requests.  `Conserved`: what was granted and what is
  left are together at most the bucket and its refills since the window began; a
  sleep outside the lock takes nothing, which is all that the race needs.
  `InFlight`: while a request is under way, it was executed by attempts in doubt
  only, so that an answer that is not in doubt can be relied on (`AnswerIsTrue`).
* `LedgerProofs`, paper executor and backtest.  `PaperInv`: the executor's positions
  are the bot's or forgotten, and until a restart its balance is what was told less
  the double charges (`PaperLedger`).  `BackInv`: the capital is what the trades
  explain (`Accounted`); trades follow one another and none ends after the open
  position began (`Sequential`, `Dated`), whose trailing stop is its distance behind
  the best price (`Behind`) and which the bar in hand did not hit.
* `LedgerProofs`, replay tools.  What a book leaves *unexplained*, its equity less
  the first one, less the nets of its trades, less what its open positions have
  earned and paid, is not changed by any step: `ExitKeeps`, `CloseKeeps`,
  `HalvedKeeps`, `TrailedKeeps` and `OneKeeps` say so of the parts of one position's
  management, `ManageKeeps` of a whole candle by following the recursive book from
  one open position to the next (`LedExists`, `LedPays`, `LedKeeps`), for the order
  in which each tool does them.  `Settles` says that closing a position moves all of
  it into the log.  A report agrees with the log because its samples split the
  trades: `TotalsAdd` and `SplitsAddUp` say that the sum over two disjoint sets of
  places is the sum of the sums, and that the last point of the curve is the total.
  `ToolEnds` and `ReportAddsUp` put it together for the seven tools.
* `ForwardProofs`, forward test.  `Keyed`: every entry's key is stored before the
  entry is, and the one the handler is about to enter is not yet another's
  (`OneEntryPerKey`).  `Traced`: a row leaves its table only after its trade was
  saved, so that only a failed statement between memory and row makes an entry `Lost`
  (`LostStays`, `TracedShrinks`).  `Remembered`, with `Covered`: at each statement of a
  candle, whatever is on the list has its row, is flagged, or is `Lost`, but for the one
  position the statement is about; `SweptMemory` and `WrittenBack` are what the end of a
  candle and a save do to it, `RememberedFailure` what a failure does.  With both,
  `NothingLost`.
* `ForwardProofs`, telemetry.  The queue is bounded and an item that does not fit is
  written by a thread of its own, so the tables do not fill in order of logging.
  `OnItsWay`: what is owed is in the lane, in the writer's hand or in the overflow.
  `Pipeline` and `Before`: no trigger of a trade is queued behind its settlement, and
  each item agrees with what the runner knows of its trade.  `Agreed`: the table of
  shadow exits then agrees with the end of every settled trade (`TelemetryKept`).
* `ServicesProofs`, writer.  `Ascending`, `Younger` and `HeldIsYoungest`: queue, item in
  hand, transaction and table are in the order of submission, also across a failure
  that leaves a statement in the transaction.
* `ServicesProofs`, watchdog and market data.  `Budgeted`: who runs or waits has
  restarts left; `HealthyRuns` is inductive with it and the types.  `MarketInv`: the
  buffer ends with the candle that was handled last, and what the wire still holds
  comes after it or repeats it, so a candle that passes the comparison is a new one
  (`HandledInOrder`, a step property proved from it).
* `FeedProofs`, histories.  `WalkInv`: the splits lie one behind the other, and what
  was tested is the test windows before the fold (`OutOfSample`).  `CollectInv` and
  `ScriptInv` say of a paging that what was got so far is the history from its first
  row to the cursor, so that a page that begins at the cursor continues it
  (`MergedIsFiled`, `PageIsRun`); a file is torn or whole, and merging sorts out what
  was fetched twice (`StoreIsWhole`, `HistoryIsWhole` of the scripts).
* `FeedProofs`, liquidations.  `CacheInv`: no tracker holds a row that still counts
  and is not in the table, and a tracker nobody owes a feed *matches* the table
  (`Matches`).  Every change of the table makes its symbol dirty or one that is about to
  be fed (`TableChanges`), a feed restores the match whatever the age of the date it
  reads from (`FeedAllKeeps`), and midnight takes the same rows from both sides
  (`MidnightKeeps`, from `LatestFrom`).
* `FeedProofs`, swing-break engine.  `SwingInv`: the candles rise, the last is the last
  that had closed at the last answer (`UpToDate`), and a step is one period or less
  than a period and the longest time without an answer (`OneStep`).  `AnswerIsWhole`
  is its arithmetic: multiples of a period are a period apart.
* `FeedProofs`, recommendations.  `AdviceInv`: the variants with a result, with a
  worker or dropped are the first ones of the grid, so that none is missing at the end
  but the dropped ones.  `BestIsHighest`: what `max()` takes is a highest one, the first
  of them; in another order it may be another, and is as high (`SameBest`), and the
  sets the verdict is read from correspond (`SweepIsStable`, for any permutation).
* `ComponentsProofs` shows that a behaviour of a suite is one of each of its
  components, and states the suite's properties: `TypesHold`, `AnswerIsTrue`, `Ledger`,
  `HistoryIsWhole`, `AdviceIsStable`, `FedIsCurrent`, `NothingLost` and `OneEntryPerKey`.  `ServicesProofs` does so for its own suite.

Induction over data.  The library's induction theorems take an operator as a
parameter, which the installed provers cannot instantiate.  Where a property needs
what a recursion computes, the model writes the recursion as a function on an
interval, and the proof takes the least argument at which the claim fails
(`LeastNumber` in `LedgerProofs`, from the well-foundedness of the naturals): it is not the
first, and the argument before it satisfies the claim.  So are proved the sums, the
recursive books of a candle and the day counters of the replay tools.

Only model-checked:

* liveness (`ExposureIsTracked`, `QuantityIsHealed`, `CaughtUp`,
  `AnsweredUnlessClosed`, `ShutdownEndsOrSpins`, `WrongIsCorrected`) and the absence of
  deadlock, which need fairness or ENABLED.

Every invariant and every action property of a passing run is stated by a theorem.

## 6. Not modelled, and why

* *Symbol info, configuration, health endpoint, logging, reports, deployment
  files*: they keep no state that outlives a call, or only output.  Rounding to
  the step size is the unit of quantities in `TradingCore`; configured values are
  CONSTANTS.
* *Indicator arithmetic* of the signal engines, of the regime filters and of the
  research features, quality checks, analytics and exploration scripts: functions
  of the candles, whose results the models choose freely.  What matters for order
  and staleness is which candles they are given, and that is `SwingBreak` and
  `LiquidationCache`.
* *Position sizing and prices of the main loop*: `calculate_position_size`,
  trailing stops and take-profits of `position_manager.py` appear as the decisions
  they lead to; the arithmetic of levels is checked in `Backtest` and `Replay`.
* *Transport*: HTTP, signing, stream names, parsing of messages.
* *`setup` of `main.py`, snapshots, the daily report, `/status` and its like*: startup
  wiring and read-only output.
* *Hazards without a property.*  In each of these the model does what the code does, and
  nothing in the repository promises otherwise, so there is nothing to hold it
  against: a `/pause` between the check of the brakes and the order (main.py:367); a
  socket that died unnoticed (watchdog.py:127); a heavy caller of the limiter that is
  overtaken (rate_limiter.py:44); a position of the v5 runner booked twice after a failed
  statement (v5_forward_test.py:876); a cooldown that a restart lifts
  (liq_cluster_engine_v5.py:178); volume that a refresh overwrites and symbols that wait
  for the next message (v5_forward_test.py:609, 746); an item that the spool file refuses
  (v6_telemetry.py:330).
