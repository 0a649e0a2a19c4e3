# A TLA+ model of nighttrade

nighttrade is a paper-trading observatory in Python. Its core is a single-threaded
process, the *observer*, which launchd keeps alive: every few minutes it fetches
market data, scores every symbol of a watchlist, records predictions, opens and
closes simulated positions, and writes all of it to one SQLite database, which a
read-only dashboard shows. This directory holds TLA+ modules for the parts of it
whose correctness depends on order, failure and time, the TLC configurations that
check them, and TLAPS proofs.

File names below are relative to `src/src/nighttrade/`.

    tlc -workers 2 -config PaperBookFaults.cfg MCPaperBook.tla
    tlapm PaperBookProofs.tla

## The system

| Component | State | Operations | Hard behaviour | Correct when |
|---|---|---|---|---|
| Database (`observatory/database.py`) | one connection, its open transaction, `_batch_depth` | writers, `batch()`, `upsert_outcome_and_mark_evaluated`, readers, `prune_old` | busy and failing statements and commits, nested batches, swallowed errors | a refused write leaves nothing half done that a later commit completes |
| Paper book (`observatory/observer.py`, `risk/engine.py`) | `_open`, `paper_trades`, the post-loss cooldown | `_reload_open_positions`, `_maybe_open_position`, `_manage_positions` | rollbacks, crashes, restarts | every open trade is watched, one per symbol, under the cap, settled once |
| Run loop (`run_forever`, `_next_action`) | `_stop`, `_cycle`, failures in a row, `_warmup_done_for` | observe, warm up, sleep, rest, back off, abort, rotate | the clock, signals, kills, respawn | it misses neither the open nor the warm-up, warms up once before each open, stops promptly |
| Market hours (`market_hours.py`) | none | `session_at`, `next_market_open` | boundaries, holidays | the next open is the first one not past |
| Learning session (`observatory/learning.py`, `readiness.py`) | the last `learning_sessions` row, `_last_day` | resume or create, progress, day roll-over, completion | Ctrl+C, kills, rotation, failures in a row, midnight | the clock of an active window never restarts, no day is skipped, the cap holds until the end |
| Predictions (`prediction_tracker.py`, `_evaluate_predictions`) | predictions and outcomes | record, evaluate once, mark | missing prices, refused writes | each matured prediction is evaluated exactly once |
| Bot runs (`mark_dangling_runs_crashed`, `heartbeat`) | `bot_runs` | start, heartbeat, stop, mark crashed | several processes, reused pids | a live run is "running", a dead one does not look alive for long |
| Live feed (`live_feed.py`) | caches, failure counters, parked symbols | refresh, park, probe, save and load | parallel fetches, partial failure, stale data | a symbol with data is not parked for good; stale data are not served as fresh |
| Alerts, readiness, daily report (`alerts.py`, `readiness.py`, `metrics.py`, `daily_report.py`) | time of the last alert of a kind, one row per cycle and day | emit, score, roll up | conditions that last, midnight, restarts, row limits | told once per cooldown and told again, ready only by time and evidence, a day is that whole day |
| Risk limits, sizing, fills (`risk/`) | period baselines | observe equity, evaluate entry | period boundaries, restart | no entry beyond the loss limits |
| Paper broker, backtest (`paper/`, `backtest/`) | cash, positions, orders | submit, fill, exits | long sequences of orders | cash and positions balance |
| Approval, order ids, sandbox broker (`approval.py`, `ops/order_id.py`, `paper/sandbox_broker.py`) | the registry of one life, an HTTP client | approve, register, place | lost answers, retries, restarts, accounts that change | nothing unapproved, once per moment, each order booked once |
| Prices (`exchanges/`, consensus) | HTTP clients | ask each source, reject, average | failing and lying providers, a moving market | a price the market had |
| Instance lock (`ops/instance_lock.py`) | a file | acquire, release | check and write are separate | one holder |
| Remote log (`ops/remote_log.py`) | a buffer, two locks | emit, flush, close | threads, a daemon cut off | no record twice, none forgotten |
| Reconciliation, notifications, keys (`ops/`) | | compare, send | | |
| Signals, fusion, gates, kill switch, safety score (`pipeline.py`, `fusion/`, `gates/`, `safety/`) | fitted models, the newest outcomes | decide | order of vetoes, boundaries, scarce evidence | a hazard is held, an entry has evidence |
| Cross-sectional ranking (`cross_section/`) | the factors of a cycle | collect, rank | missing scores, thin universes | the better is not ranked below the worse |
| Research (`research/`, `validation/`, `labels/`) | the cached history | download, label, fold, judge | partial bars, shrunk windows | no leakage from the future, no known label revised while the history begins where it began |
| Indicators, features, ML training | arrays, models | numeric | | out of reach |
| Dashboard (`dashboard/`) | none of its own | pages of several queries | the observer writes between two queries | no trade counted twice, none lost |
| Accounting and tax, reporting, configuration, CLI, deployment | none of their own | compute, print, start | | |

The components meet in the observer. `run_once` calls the feed, the pipeline
(indicators, fusion, gates), the risk engine and the database, in one thread and in
a fixed order; there are no callbacks but the signal handler, which sets `_stop`.
Everything that outlives the process goes through the database. launchd
(`KeepAlive`) starts `observe` again whenever it ended; `deploy/watchdog.sh` kicks
the service when no observer is running; `learn` is started by hand.

What goes wrong in such a program goes wrong between two of these steps: a write is
refused, the process dies, the loop ends itself to shed memory, midnight or the
market open passes. PROJECT.json lists these hazards line by line.

## Modules

    ObservatoryDB   the transaction discipline of the connection (operators)
    PaperLedger     what the trade history promises (abstract specification)
    PaperBook       the paper book, on ObservatoryDB, implements PaperLedger
    PredictionLog   what the table of predictions promises (abstract specification)
    Predictions     the life of a prediction, on ObservatoryDB, implements PredictionLog
    MarketHours     sessions and opens (operators)
    RunLoop         run_forever with a clock, on MarketHours
    LearningWindow  the learning session
    LiveFeed        the cache, pruning and park state of the live feed
    PaperBroker     the simulated broker and its fills (operators)
    RiskControls    loss limits, cooldown, position size (operators)
    Backtest        the replay of a series of bars, on the two above
    Supervision     several processes: lock file, bot_runs, the dashboard's choice
    Orders          from a proposal to a booked fill, with a paper account
    RemoteLog       the handler that ships log records, with its threads
    Dashboard       pages read while the observer writes
    Signals         the four layers of the analysis and the kill switch (operators)
    SafetyScore     safety score, condition, screening, status (operators)
    Decisions       fusion, gates and the entry, on the two above
    Monitoring      alerts, readiness, daily metrics and report, on SafetyScore
    Ranking         the cross-sectional ranking of a cycle
    Outcomes        what a prediction is scored against
    MarketData      the consensus of several price sources
    Research        history cache, labels, folds and the verdict of the lab
    MC*             the small instances TLC checks

    NumberProofs          lemmas: least and greatest of a set, sums, quotients
    ObservatoryDBProofs   lemmas: what the writers of ObservatoryDB may leave behind
    PaperBookProofs       theorems about PaperBook
    PredictionsProofs     theorems about Predictions
    OperationsProofs      theorems about Supervision, Orders, RemoteLog, Dashboard, MarketHours and RunLoop
    ObservatoryProofs     theorems about LearningWindow, Decisions and Monitoring
    FeedProofs            theorems about LiveFeed, MarketData and Ranking
    ResearchProofs        theorems about Backtest, Outcomes and Research

Several modules define *variants* of an operator: what a plausible mistake in that
code would compute. No action uses them; PROJECT.json names, for each property, a
variant that breaks it.

### How the modules are composed

ObservatoryDB, PaperBook and PaperLedger; ObservatoryDB, Predictions and PredictionLog;
MarketHours and RunLoop; Signals, SafetyScore and Decisions; PaperBroker, RiskControls and
Backtest: within each group modules use each other's operators or implement each other's
specification. The rest meet only through values that the models leave free. RunLoop, for one,
does not care what a cycle decides, and Decisions not when it runs. Their product would
multiply states and show nothing, so four MC modules put subsystems side by side:

| MC module | Run | Subsystems, one per behaviour (`machine`) |
|---|---|---|
| `MCOperations` | `OperationsMishaps` | RunLoop, Supervision, Orders, RemoteLog, Dashboard: the host process and what is beside it |
| `MCObservatory` | `ObservatoryMishaps` | LearningWindow, Decisions, Monitoring, Ranking: what a cycle decides, records and tells |
| `MCProgress` | `ProgressMishaps` | LearningWindow, Predictions, LiveFeed: what must come to an end, under their fairness |
| `MCResearch` | `ResearchReplay` | Backtest, Outcomes, MarketData, Research: what is concluded from prices |

`machine` is chosen in the initial state and never changes; the variables of the other
subsystems keep their initial values. Each run checks the properties of all its
subsystems. The fairness `ProgressMishaps` assumes is that of the three specifications, joined
where it is of one kind: since `machine` is fixed, a union of steps of different subsystems is fair
exactly if each is in its own behaviours. Some properties of a run are conjunctions, named for what their parts say
together: where a part is meant below, it is named.

Numbers. Where the code computes with floats, the models use whole numbers of a stated unit
(thousandths for scores and confidences, basis points for spreads and returns, tenths of a
point for safety scores, percent for rates), with divisions rounded towards zero or down.
Comparisons at a threshold are therefore exact on the values of the model; float
rounding is not modelled.

### ObservatoryDB

A connection is a record `[disk, work, txn, depth]`: what is committed, what this
connection sees, whether a transaction is open, and `_batch_depth`. The module
fixes Python's legacy transaction mode: the driver issues a BEGIN before the first
statement that writes, and a statement refused after it leaves the transaction open.
A writer is an operator that yields the set of its possible results, each with the
connection it leaves and whether it returned or raised. `DBFaults` says which kinds
of call may fail once the six attempts of `_RetryingConnection` are used up. A failed
COMMIT may leave the transaction open or have rolled it back: SQLite does the one for
a busy database and the other for some I/O errors. `RecordOutcome` has the explicit
BEGIN, which SQLite refuses inside a transaction.

The operators are generic in the content of the tables, so that the modules that
follow share them.

### PaperBook

State: `pc` (where the thread is), `db` (a connection whose content is the
`paper_trades` table), `open` (`_open`, by symbol the trade id), `todo` (what is left
of the loop under way), `cooldown` (cycles it still has to run; the code keeps the
cycle at which it ends), `mishaps` (a bound). A row keeps its symbol and status and,
once closed, the exit and the symbol of the position that computed it: the position
closes a row *by id*, so these may differ from the row's own symbol.

| Code | Actions |
|---|---|
| `start` | `Start` |
| `run_once` to the watchlist loop | `BeginCycle` |
| `_observe_symbol`, `_maybe_open_position` | `SkipSymbol`, `OpenPosition` |
| `batch()` left by an exception, or at its end | `FailBatch`, `EndBatch` |
| `_rank_cross_section`, `_train_model_idle` | `RankUniverse` |
| `_evaluate_predictions` | `EvaluatePredictions` |
| `_manage_positions` | `KeepPosition`, `ClosePosition` |
| the tail of `run_once` | `FinishCycle` |
| an exception elsewhere in `run_once` | `CycleRaises` |
| the except and finally blocks of `run_forever` | `RecoverCycle`, `Rotate`, `Interrupt` |
| the end of the process | `Crash` |

A step is the code between two points where another outcome would leave a different
state. Statements inside the batch are pending until it ends, so one step per symbol
is exact; the writes of a stretch that touches other tables only are one
`OtherWrite`, since what matters of them is whether they commit what is pending,
leave a transaction open, or raise. Whether a signal, gate, guard or size lets an
entry through is free (`SkipSymbol` is always possible), except for the guards that
read the modelled state. Prices are free: a position may be kept, or closed at either
exit.

Properties:

- `OpenTradesAreWatched`, of which the parts are, beside `TypeOK`, the next two.
- `NoOrphanedTrade`: while an observer runs, every open row, committed or pending, is
  the row of a position in `_open`. A position that only the database knows would
  never see its stop enforced.
- `OneOpenTradePerSymbol`: the reload keeps one row per symbol; a second would be lost.
- `ExposureCap`: the committed open rows stay within `max_open_positions`, although
  the code counts the dictionary.
- `BookIsInDatabase`: between batches each held position is a committed open row of
  its symbol. It holds when the database accepts everything (`PaperBookSound`) and
  fails when it does not (`PaperBookGhost`): the rollback of a batch does not take the
  positions out of `_open`. Such a ghost has an id that the next trade receives, so
  the ghost's exit may settle another symbol's trade. The other three properties hold
  in spite of it, which is the more surprising half.
- `LedgerSpec`: the committed table implements `PaperLedger` (refinement mapping
  `ledger <- db.disk.rows`): trades are recorded open in batches, within the cap and
  one per symbol, settled once by their own position, and never change again.
- `TradesSettle`: a recorded trade is settled in the end.

Runs. Three symbols with a cap of two make entries compete, three or four trades
allow an id to be reused after a rollback and a symbol to be traded again, and three
mishaps are what the longest scenario takes (a refusal, a refusal while it is
recovered from, a crash). The symbols are interchangeable, hence the symmetry, which
is not used where liveness is checked (`PaperBookFaults`, with two symbols).
`ExposureCap` is checked where the symbols outnumber the cap; that it also holds with
refused writes is proved.

Fairness (`PaperBookFaults` only). The loop is one thread that waits for nothing but
the clock, and launchd restarts it: weak fairness of `ProcessStep`. That the price of
a held symbol reaches its stop or target is not for the code to promise; it is assumed
by strong fairness of `ClosePosition` for each symbol. Without the assumption a trade
may rightly stay open for ever.

Deviations that follow from the code and not from its documents: a start whose own
writes are refused is no step (the process dies before it has any state); a failed
cycle's pending close may be committed by the `insert_error` that reports it.

Bounds: `MaxTrades` (no entry beyond it) and `MaxMishaps`.

### Predictions

State: `pc` and `db` as in PaperBook, with another content: for each prediction the
`evaluated` mark and how often its row of `prediction_outcomes` was written, and the
AUTOINCREMENT sequence. `age` is the time since a prediction was made, in cycle
intervals, up to the longest horizon; `left` counts the symbols the loop has still to
visit, `backlog` holds what the evaluation under way has still to look at.

| Code | Actions |
|---|---|
| `start` | `Start` |
| `run_once` to the watchlist loop | `BeginCycle` |
| `_observe_symbol` | `SkipSymbol`, `PredictSymbol` |
| `batch()` left by an exception, or at its end | `FailBatch`, `EndBatch` |
| ranking and idle training | `RankUniverse` |
| a turn of the loop of `_evaluate_predictions` | `EvaluateNext` |
| the rest of `run_once` | `FinishCycle`, `CycleRaises` |
| `run_forever` | `Rest`, `RecoverCycle`, `Rotate`, `Interrupt` |
| the end of the process, and the time it is down | `Crash`, `TimePasses` |

The cycle is the one of PaperBook with other writes in view, which is why the two
modules are separate: a prediction and a trade share the connection, never a row. What
`evaluate_prediction` finds is free: an outcome, or an exception after which the
prediction is marked without one. `Refusable` chooses which writes the database may
refuse, beside `DBFaults`, which chooses how.

Properties:

- `LogSpec`: the committed tables implement `PredictionLog` (each prediction's status
  as the mapping). This is the docstring's "each one exactly once", and the reason
  for `upsert_outcome_and_mark_evaluated`: an outcome and its mark are never seen
  apart, nothing is scored twice, nothing settled is taken back, although ids of a
  rolled-back batch are given out again and the backlog is walked anew in each cycle.
- `NothingPending` (in `RowsAreSafe`): outside the batch and the recovery from a failed cycle nothing
  waits for a commit. A cycle that fails, or a process that dies, in the middle of a
  backlog repeats none of what it has evaluated.
- `PredictionsSettle`: a recorded prediction is settled in the end.
- `ActivityIsHarmless`: as long as only activity rows are refused, no cycle fails.
  This is what `_activity` promises and does not keep (`PredictionsActivity`): the
  swallowed refusal leaves the driver's transaction open, and the BEGIN of the next
  outcome fails. The other properties hold in spite of it: the failed BEGIN rolls the
  stray transaction back, so that the next cycle gets through.

Runs. Two symbols in each cycle, a horizon of two intervals and three predictions give
overlapping generations, of which one matures while another is recorded; three mishaps are
a refusal, another during its recovery, and a crash. Fairness is weak fairness of
`ProcessStep` and strong fairness of `BeginCycle`: a rotation comes after sixty
cycles, so it cannot preempt the cycle for ever. Mishaps are bounded, as they must be
for any progress.

Bounds: `MaxPredictions` and `MaxMishaps`.

### MarketHours and RunLoop

Time is a number of units since an Eastern midnight. `MarketHours` translates
`session_at` and `next_market_open`; trading days are a set of day numbers, which
stands for weekdays without holidays. Daylight saving time, and the conversion from
UTC, are left to `zoneinfo`.

`RunLoop` translates `run_forever` and `_next_action`. Code between two waits takes
no time, a cycle takes from nothing to `MaxWork`, and `Tick` moves the clock only
while the process is down, asleep, resting or working; `Start` is possible at any
moment while it is down, so a respawn may be immediate or late. `until` and `nap`
are the ends of the sleep under way and of its current chunk; `began` is
`cycle_started`. Within a sleep the flag is read between chunks, within a rest every
second, which is below the unit of the model: `EndRest` may read it at any moment.
The stop flag is a variable of its own, since the handler only sets it.

Properties:

- `SleepMissesNothing`: no moment covered by a sleep is one at which `_next_action`
  would have said "observe" or "warmup".
- `ReadyAtOpen`: at every open, a process that was alive when the warm-up window
  began has begun a warm-up for it, whatever failed and backed off before.
  It asks for the warm-up, not for a first cycle at the open itself, which a rest may overlap.
- `OneWarmupPerProcess`: a second warm-up for the same open is that of a process
  started inside the warm-up window. ADR-0007 (52-53) promises at most one per day, which
  the code keeps within a process only: the noted date dies with the process, so a
  rotation or a kill in the window makes the successor warm up again. The warm-up
  counts are history variables, outside the process, for this reason.
- `StopIsPrompt`: after a signal the process is gone within a sleep chunk or, if a
  cycle is under way or about to begin, within that cycle.
- `TypeOK` has the numeric bounds: no wait exceeds its cap, counters stop at the
  rotation and the abort.

The run checks `SleepMissesNothing`, `StopIsPrompt` and `TypeOK` as one, `WaitsAreBounded`.

Run (`OperationsMishaps`). A day has 14 units: pre-market from 2, open 5 to 8, closed at
10, a window of two units before the open. The horizon covers three days, with a holiday
after the first, and thus two opens; it adds failing cycles, aborts, the rotation and one signal or kill.
The sleep cap (3) is neither a divisor of the closed time nor larger than the window
plus a chunk, so every branch of `SleepFor` is taken; the backoff (3) is as long as
the session. `ReadyAtOpen` depends on the backoff cap: with 1800 seconds it is the
length of the warm-up window, and TLC confirms it for a backoff plus interval that
exceeds the window because failures are only counted while cycles run, that is while
the market is open. None of the properties is a liveness property: with the clock in
the state a missed deadline is a safety violation, and no fairness is needed. The
clock stops at the horizon, where cycles go on.

### Supervision

Several processes on one machine and one database. A process is one life: it is
launched under any free pid, runs, and is gone for good. Processes in `Guarded` run inside
`with SingleInstanceLock(name)`, as the docstring of the class shows; the others start an observer right
away, as the commands of the CLI do. Reading the lock file, judging the pid in it,
emptying the file and writing it are separate steps, as are reading the running rows and marking
them; a process may be killed between any two.

| Code | Actions |
|---|---|
| `SingleInstanceLock.acquire` | `LookAtLock`, `RefuseToStart`, `EmptyLockFile`, `WriteLockFile` |
| `release` | `FindOwnLock`, `Unlink`, `Exit` |
| `mark_dangling_runs_crashed` | `SelectRunning`, `MarkCrashed` |
| `start_bot_run`, `heartbeat`, `stop_bot_run` | `StartBotRun`, `Heartbeat`, `StopBotRun` |
| `current_bot_run`, `_observer_live` | `CurrentBotRun`, `ObserverLive` (operators) |
| the system | `Launch`, `KillProcess`, `TimePasses` |

- `OneHolderUnlessRaced`: the lock holds two processes at once only after two had looked at
  the file before either had written it. That race is real (the file is not opened
  with `O_EXCL`): the property says that it is the only way.
- `RunsAreTruthful`: the row of a live observer says "running", whoever sweeps, stops or
  dies (`LiveRunIsRunning`); a live observer is what the dashboard shows, as long as fewer dead
  rows than the query's limit are left running (`LiveRunShown`); and a dead one is not called
  live for longer than a heartbeat takes to go stale, even when its pid is reused
  (`DeadRunFades`).

Bounds in `OperationsMishaps`: three processes of which two are guarded and one belongs to another
user (signal 0 is refused for it, but it exists), and two pids, so that pids must be reused. Two rows
shown and a clock of two moments allow both sides of each limit.

### Orders

From a proposal to a booked fill: the configuration (`Setups`), the state of the paper account at the
broker, the client of this life, `OrderIDRegistry._seen`, the proposal on the desk, what reached
the broker (`orders`) and the book (`fills`), and the quantity the portfolio holds (`held`). The code has
the pieces and the order in which their docstrings say they are called; the desk is that caller.

| Code | Actions |
|---|---|
| `build_sandbox_client`, `enforce_key_safety` | `BuildClient` |
| `generate_client_order_id` | `Propose` |
| `request_approval` | `RequestApproval` |
| `OrderIDRegistry.register` | `RegisterOrder` |
| `submit_market_order`, simulated; its two exceptions (nothing held to sell, no liquidity) | `SubmitSimulated`; `SimulationRaises` |
| `submit_market_order` with a client that may trade | `PlaceOrder`, `PlaceUnheard`, `PlaceRefused` |
| the account, the clock, the process | `AccountChanges`, `SecondPasses`, `RestartDesk` |

`OrdersAreSanctioned` says of whatever reaches the broker or the book:

- `OneOrderPerMoment`: two orders of one intent in one bucket of time were made by different
  lives of the process. Within a life a retry is refused; the registry is not stored, so
  a restart forgets it, and the POST carries no client id by which the broker could refuse it.
- `NothingUnapproved`: neither killed nor a hold, and approved by the phrase unless the
  configuration waives it.
- `ModeIsHonest`, `OrdersNeedEverySwitch`: what the client says it does it may do, and no order
  leaves while any switch is off or read-only keys are required.
- `BookedOrUnheard`: each order was booked once, or its answer was lost. It counts, and no more: in
  number, book and account differ by lost answers. In quantity and price they differ
  by more, since what is filled after the answer is never booked, and by the next property.

`BookedAtReference` (`OperationsUnpriced`, a finding) is what the comment in `_fill_from_alpaca` says
of an order that is not filled yet when the answer comes: the caller marks it at the reference price
(`sandbox.py:200-201`). The caller, `SandboxBroker.submit_market_order`, has the reference price and does not;
such an order is booked in full at the price 1.0.

What the model shows beside this: a mirrored SELL is not clamped to what is held, as a simulated one is; with nothing
held it is placed, and booked as a sale of nothing. The `approve` command builds every proposal as a
BUY, whatever the decision said.

Bounds: one intent that buys and one that sells, orders of two units (filled whole or in part), buckets of two
seconds in a clock that crosses one, two lives, two orders: a second order of the same moment is possible after the
restart and refused before it, and a sale meets a portfolio that holds less, as much, or nothing.

### RemoteLog

The handler that posts log records in batches. `logging` holds the handler's lock around `emit`
and `close`; the flusher, a daemon thread, comes in between with the buffer's own lock
alone. Swapping the buffer and posting the batch are separate steps (`SwapBuffer`,
`PostBatch`); a refused batch is dropped, as the code does.

`LogIsAccountedFor`: each record is in one place, the buffer, a thread's hands, the collector's
or a refused batch (`EachInOnePlace`); no batch outgrows its size and none is out of order
(`BatchesAreSmall`: `emit` posts while it holds the handler's lock, so nobody else logs
meanwhile, and a slow collector therefore stops every thread that logs); at the end at most
what was logged after the close and what the flusher had in hand is lost (`LossAtExit`).

Bounds: two threads that log, batches of two, five records: one batch is in hand while another fills.

### Dashboard

The dashboard is another process. A page consists of several queries, each of which sees what is
committed when it runs, and the observer writes between them. State: the committed
`paper_trades`, rows the open batch has inserted, the step of the observer, `latest.json`, which
`_write_cycle_report` empties before it writes, and the page under way.

| Code | Actions |
|---|---|
| `_maybe_open_position`, the end of the batch | `InsertTrade`, `CommitBatch` |
| `close_paper_trade` | `CloseRow` |
| `_write_cycle_report` | `EmptyReport`, `WriteReport` |
| the first query of `paper`, `symbol_detail`, `investments`, `overview` | `AskPage` |
| the other one; `latest.json` | `FinishTradePage`; `FinishOverview` |
| the end of the observer | `RestartObserver` |

`PagesAreTrue`: the paper page asks for the closed trades first and so never counts one twice; one that
closes between the queries is missing from it (`PaperCountsOnce`). The investments page asks the other
way round: it loses none, and lists the same trade twice (`InvestmentsLoseNothing`). A page asked
for while `latest.json` is empty has an equity all the same (`OverviewHasEquity`). The equity of a
page is made from the newest 5000 closed rows; with more of them it is no longer what was
realised. The observer once had this fault and was cured of it (`total_realised_pnl`), the
dashboard still has it; `PaperCountsOnce` claims the equity only up to that number.

Bounds: `RowsShown` 2 in place of 5000 and three trades, so that a row is pushed out of the
page; one page, since pages share nothing.

### LearningWindow

The last row of `learning_sessions` with its *age* in place of its start date, the
counters a process holds, and what has become of each day: `seen` (today has had a
completed cycle), `owed` (an earlier day has and is not rolled up yet), `missed`
(such a day never will be). Ages are relative, so a behaviour may go on for ever and
liveness can be checked. One unit is one cycle interval. `Mishaps` chooses what may
go wrong: failing cycles, failures that cannot be recorded, failing roll-ups, signals, kills.

What holds: a window is marked completed only when it has elapsed
(`CompletedIsElapsed`, in `WindowIsHonest`); a day is skipped only by a process that was not running the
day before, or whose roll-up itself failed (`DayKeptByProcess`, checked without the
latter); the age of an active window never drops, and it is marked stopped only for the flag, the rotation,
`AbortThreshold` failures in a row, or a failure that `insert_error` could not record (`ClockKeepsRunning`); without the
rotation, the window completes once mishaps end (`WindowCompletes`).

A failing cycle (`FailCycle`) may have raised before its progress was recorded, after that, or
after all of `_learning_cycle`. Fifty of them in a row make the loop set `_stop` and leave through the same finally
block as Ctrl+C (`GiveUp`), so the next process starts another window, and so does one whose `insert_error` is refused.
`ClockKeepsRunning` says that this takes fifty in a row, which a single success forgives: `futile` is a history variable that
counts the cycles begun since this process last completed one, beside the code's own counter `failures`.

What does not: the finally block of `run_forever` marks the window stopped, and
`resume_or_create` resumes only an active one. So the memory rotation, every 60 cycles,
restarts the clock, and no window longer than that ever completes (`LearningRotated`, a
finding); Ctrl+C takes the same path. After a kill the window is resumed, but its cycle
count is overwritten with that of the new process.

Runs. Windows of three days of three intervals: the first day, one in the middle and
the last are told apart, and so are the first and last interval of a day. `MaxCycles`
is 20, more than a window has, where rotation is kept out, and 4, less than a window
and more than a day, where it is wanted. `AbortThreshold` is two in place of fifty, so that the abort is
reached with a failure to spare and a success can come between. With four mishaps two may fall on either
side of a midnight. `Init` starts at any time of day, so days of the calendar and
days of the window need not coincide.

Fairness: weak fairness of the loop, whose `Learn` step assumes that whoever wants
the window runs the command again; nothing restarts `learn` by itself.

### Signals, SafetyScore and Decisions

`Signals` holds the microstructure readings, the votes of the technical engine, the macro scenario
with a client that may fail, the model's signal and the kill switch, as functions of what the feed
shows of a symbol (a *tape*). `SafetyScore` holds the score with its ceilings, the condition, the
screening and the label on the dashboard. `Decisions` adds fusion and trade levels, the memory of
outcomes with the three gates (regime, calibration, meta), and the entry.

| Code | Definitions |
|---|---|
| `AnalysisPipeline.analyze`, `FusionEngine` | `Analyze`, `Layers`, `Fused`, `Confidence`, `Action`, `TradeLevels` |
| `PredictionMemory`, `RegimeGate`, `ConfidenceCalibrator`, `MetaLabelGate` | `Recent`, `RegimeAllows`, `Calibrate`, `MetaAllows` |
| `_observe_symbol`, `_maybe_open_position` | `ObserveSymbol` |
| the next cycle, maturing, closing, idle training | `NextCycle`, `Mature`, `ClosePaperTrade`, `TrainModelIdle` |

- `HazardIsHeld`: nothing is proposed on a frozen tape, across a wide spread, in a trendless
  market or under systemic stress, whatever the other layers say. The hazard is read
  off the raw feed, not off the signals that should have noticed it.
- `EntryHasEvidence` (an action property): no entry is made while a gate objects, nor where the newest
  outcomes of the condition, once there are enough, are below break-even.
- `DecisionsAreSound`: a decision passes its own validation, which would otherwise cost the cycle the
  symbol (`LevelsStraddle`); calibration keeps the order of confidences (`CalibrationIsMonotone`, the
  isotonic fit against its meaning); no symbol is entered that the dashboard warns off
  (`EntryIsNotCondemned`); recent errors keep a symbol from being graded safe (`GradeRemembersErrors`).

What a reader may not expect. The memory covers the newest 500 outcomes of all symbols, holds included, so
evidence against a regime fades as other symbols mature. The condition of a symbol depends
on its score, hence on its own accuracy: poor accuracy relabels a condition, and the relabelled
one may pass a gate that blocks the other. A book between 100 and 150 thousand dollars passes
the screening and is labelled illiquid. A layer with no confidence counts for half in the
agreement. The entry is booked at `decision.entry`, which lies below the market. The configuration
checks that the least volatility fraction is below the greatest and no more (`schema.py:235`): with a greatest
fraction of 0.6 and the stop at twice that, the stop of an entry lies below zero. The theorem about
`LevelsStraddle` says which fractions fit.

A tape is any sequence of bars with positive prices (`IsTape`); a condition or a status is its name with underscores for blanks.

Run (`ObservatoryMishaps`). Fourteen tapes, one for each way a symbol can look (bull, bear, too young, wide,
small, tiny, pumped, quiet, halted, choppy, wild, panicky, calm, deep), replies of the macro client that
are absent, alarming or unusable, six pasts around the thresholds, and up to three outcomes where
the memory keeps two. Thresholds have their default values, sample minima are two.

### Monitoring

What the observer tells about itself. One tick is an interval, with at most one cycle in it or none.

| Code | Actions |
|---|---|
| `run_once` with `_learning_cycle` and `_day_rollover`, of which a symbol or the roll-over may leave an error | `MonitorCycle` |
| a `run_once` that raises somewhere, and the except block of `run_forever` | `MonitorFails` |
| closed market, sleep, a long cycle; the next process | `IdleTick`; `RestartMonitor` |

`run_once` counts the cycle (`CycleCounts`) before anything else. A cycle that fails may have done so before its predictions
were in, before its market-wide row, among its alerts, after its readiness, or after the day was rolled
up, and the error and the alert of the crash follow. A restart forgets the alerts, the date and the counter;
it falls between two cycles: a kill in the middle of one, and a cycle whose error cannot be recorded, are outside this model.

- `AlertsAreHeard`: nobody is told the same kind of thing twice within the cooldown unless the observer
  was restarted (`AlertsAreSpaced`), and a condition that lasts is told of again
  (`LastingConditionIsTold`). The cooldown is per kind, so that one symbol's alert silences
  another's; the property is about kinds for that reason. Each alert is stored twice
  (`alerts.py:136`, `observer.py:368`).
- `ReadinessIsEarned`: the cap falls only when the last day of the window has begun (`CapHolds`), the
  highest level needs accuracy, evaluations and a bounded drawdown together (`StrongNeedsEvidence`), and
  of every cycle the uptime counts there is a trace, the market-wide row or an error, across restarts and
  cycles that fail half-way (`UptimeIsTraced`).
- `UptimeIsOfCompleted` (`ObservatoryUptime`, a finding) is what `learning.py:3-5` says of the session: that it tracks the cycles
  it has *completed*. The code counts those that failed as well.
- `DayIsReported`: the row of a day counts that whole day, as long as its rows fit the query, and is green
  only if the observer ran through it (`DayIsCounted`); the report's advice agrees with the status of
  some cycle of that day (`AdviceIsOfTheDay`).

The code expects a day to have 86400 / interval cycles while the observer runs only while the market is open, so a
full trading day counts as red (`observer.py:806`). `roll_up_day` reads the newest 20000 rows, whatever the
day (`metrics.py:137`): with more in a day the count is short.

Bounds: days of two ticks and five ticks cross midnight twice; a window of two days, a cooldown of two ticks, four
rows in place of 20000 for two predictions in each cycle, so that the limit bites; one error, hence one failing cycle, and one restart.

### Ranking

The factors of a cycle are collected symbol by symbol (`CollectFactors`, or `SkipSymbol` for a
symbol that fails or is too young), and ranked at its end (`RankCrossSection`): liquidity
gate, clipping, scaling, blend, order, baskets. `RankingIsFair`: a row ranks each stock of one
cycle once (`RanksOneCycle`), the baskets are the ends, disjoint and the long one never empty
(`BasketsAreEnds`), and a stock at least as good in every factor is not below a worse one
(`BetterIsNotBelow`), although a missing model score drops that factor for all.

With fewer than five factors no ranking is made and the old one stays on show. What the gate calls daily
dollar volume is the sum over the whole window of candles (`factors.py:103`).

Bounds: three stocks with five looks each (one without a score that beats one with a score, a bad one
the model likes, a mixed one, an illiquid one), two rankings, `MinRanked` 2 in place of 5.

### LiveFeed

State: the cache (for each symbol nothing, an empty list, or bars, with its age), the
time since `_fetched_monotonic`, the failure streaks and the remaining parking times in
memory and on file, and what the download under way asks for. `serving`, the symbols
Yahoo returns a frame for, changes at any moment. All times are relative, so a behaviour may
go on for ever; streaks from `ParkAfterFails` on are alike. `fails` is a history
variable.

| Code | Actions |
|---|---|
| `__init__`, `_load_park_state` | `StartFeed` |
| `refresh_now` | `RefreshNow` |
| `_candles` and what calls it, `available_symbols` | `AskStale`, `AskFresh` |
| `_refresh` to the download, and after it | `BeginDownload`, `FinishDownload` |
| the end of the process; the clock; Yahoo | `Stop`; `Tick`; `ServingChanges` |

The threads of a download share nothing and are joined before its results are merged, so a
download is one step that begins and one that ends, between which the process may die
and data may come and go. A frame may hold too few bars (`long`). A look-up outside the
universe is like one of a symbol that the last download did not bring. A process
that dies before the file is replaced is one whose save failed.

Properties:

- `ParkedForCause` (in `ParksAreEarned`): a symbol is parked, in memory or on file, only if it failed
  `ParkAfterFails` times since the last success on file. The count is carried by
  a file that may be stale or unreadable, and the downloads that count are only those
  that asked for the symbol.
- `EveryDownloadAsks`: pruning never prunes everything, although after an outage the
  whole universe is parked and the sample of one in ten rounds to zero.
- `NothingOlder`: nothing in the cache is older than the download it is dated by.
- `ComesBack`: a symbol that is served for good is healthy on file in the end. The
  sample is random and may be unlucky for ever: it is the end of the
  parking time that guarantees it.

The module's docstring promises "one network round-trip per cycle rather than one per
symbol". The model shows where that ends: when a refresh brings nothing, neither the
cache nor `_fetched_monotonic` changes, so `AskStale` stays enabled, each look-up
downloads the whole universe again, and each of these downloads counts a failure of
every symbol. Three look-ups of one cycle park everything. `ParkedForCause` allows it,
and `ComesBack` says that it heals.

Runs. Two symbols suffice for a healthy, a parked and an unserved one at the same time,
and for all being parked (one in ten of two rounds to zero). Two failures park; the parking (3)
is longer than the refresh (2). One mishap (`MaxMisfiled`) is a file that is out of
date or lost.

Fairness: weak fairness of `StartFeed` (launchd) and `Tick`; strong fairness of
`FinishDownload` and of a look-up of some stale symbol, since a process asks for its
watchlist in every cycle and lasts many of them, so it cannot be ended before every
download. Nothing is assumed of the sample or of the data of other symbols.

### Backtest

`PaperBroker` and `RiskControls` are operators on records, an account and a risk
engine; `Backtest` is the loop of `Backtester.run` around them. The analysis of a bar
is free to ask for an entry or not, and the bars come from a set of shapes, one after
another.

| Code | Actions |
|---|---|
| the head of the loop, `observe_equity` | `ObserveBar` |
| `_exit_price` finds none; or one | `KeepTrade`; `ExitTrade` |
| no BUY, not permitted, too small; or an entry | `StayOut`; `EnterTrade` |
| the code after the loop | `Finish` |

Money, prices and quantities are whole numbers and divisions round down, where the code
rounds floats to eight or ten places; a lot keeps its cost, which is its quantity times
the code's `avg_price`, so that a sale in part releases an exact share of it. Fractions
are percentages or basis points. One symbol, as in a backtest. `lostAt` and `opening`
are history variables.

Properties:

`BooksAddUp` joins `MoneyIsConserved`, `TradesAddUp` and `ExitCanSell`.

- `MoneyIsConserved`: cash and the cost of the lot are the starting cash plus the gains
  of all sales less all fees.
- `TradesAddUp`: with nothing held, the closed trades add up to the change of the cash.
  This is not evident: `_apply_fill` computes the result of a trade from its last sale
  only, while it charges the fees of all of them. It holds because of what an exit
  filled in part leads to. Then `run` forgets the trade, the remainder stays in the
  account without a stop until the end, later entries add to it, and so the lot is
  never closed again and no trade is recorded for it, the gain or loss of the last sale
  notwithstanding. In that state the metrics, which are made from the closed trades,
  miss what was sold. The risk engine meanwhile is told the result of an earlier trade again
  (`broker.closed_trades[-1]`). With the default liquidity this takes a large account.
- `ExitCanSell`: an exit never asks for what is not held; `submit_market_order` would raise.
- `TimeStopHolds`, `CooledDown`: no trade outlives its time stop, and no entry comes
  sooner than `loss_cooldown_bars` after a recorded loss, also when old results are
  reported again.
- `StopComesFirst`: a bar that reaches the stop and the target is resolved as the stop.
- `NoEntryAfterBadDay`: no entry while the account is down by the daily limit since the
  first bar of that day.
- `NothingFlattered` (`BacktestFlattered`, a finding): `execution.py` says that a fill
  must never flatter the strategy. An entry is filled at once at `decision.entry`, which
  `_levels` puts below the close, so that it may be bought below the low of the bar; an
  exit sells at the stop even if the whole bar was below it.

Runs. Five shapes: calm, down to the stop, through it, up to the target, both. Nine
bars in days of three and weeks of two days cross a day twice and a week once, and leave
room for a loss, its cooldown (2), another entry and a time stop (3). The liquidity
(280) lets an order for a cheap share fill in full and one for a dear one in part, so
that exits leave remainders. Fees and slippage of one percent are large enough to count
in whole numbers, the daily limit (5%) is reached by one bad trade and the weekly one (8%)
by two. The replay ends, hence no deadlock check.

### Outcomes

What a prediction is scored against. `evaluate_prediction` asks the feed for one price after another, at the
horizons and then for each minute of its walk, and every `price_at` may find its cache stale and replace it: with other bars,
at another exchange rate, or without the symbol (`live_feed.py:361`). So each answer is a step of its own, and
the caches may change between any two.

| Code | Actions |
|---|---|
| the market; `_refresh`; `_fetch_one`; the end of the process | `MarketMoves`; `RefreshCache`, `DropCache`; `FetchOneSymbol`; `EndProcess` |
| `_observe_symbol` records a prediction | `Predict` |
| `_evaluate_predictions` reaches a matured one | `BeginScoring` |
| the loop over `HORIZONS`; a turn of the walk | `PriceHorizon`; `WalkMinute` |
| an evaluation that raises, and is marked without an outcome | `ScoreGivenUp` |

The market moves minute by minute, with minutes without a bar. `scoring` is the evaluation under way: its answers, how far the
walk has come, and, for the properties, the caches it was answered from (`seen`). An outcome and its mark are one transaction (see Predictions), so a
process that ends in mid-evaluation leaves no trace of it.

`OutcomeIsMarkets`: if every cache the evaluation went through reaches back to the bar the entry was read from and on to the end
of the window, at the rate of the entry, the verdict and the prices are what the market did
(`VerdictIsMarkets`), with the market's own bars as the reference; whatever the caches, no prediction is scored
on a bar older than its own (`ScoredOnLaterBars`: a time before the first cached bar is answered with that bar),
a stop loses its distance and a target wins its own (`TouchIsBooked`). The premises are the point: a failed
rate is taken as 1.0, and then a false touch is possible. That an outcome without a touch lies between its levels takes an
evaluation from one cache: after a refresh in its course, the last price may be beyond a level that the walk never saw.

`directionally_correct` is decided at the longest horizon unless a level was touched, while `realized_pnl` uses
the stop and the target.

Bounds: a clock of three minutes after the first, horizons of one and two, a cache of two bars (shorter than the window), two rates.

### MarketData

One reading of all sources while the market moves (`MarketTicks`, `SourceAnswers`, `SourceRetries`,
`SourceFails`, `FinishReading`); the consensus rejects by the median absolute deviation and averages the rest.

`ConsensusIsRobust`: with honest sources it is a price the market had while it was read
(`HonestConsensus`); one bad print among three or more moves it by no more than the width of
the market's range (`BadPrintIsRejected`); of two sources a bad one degrades the reading
or stays within the dispersion (`BadPrintIsFlagged`). Two sources are the default configuration: it never rejects
anything. The run has three sources, of which two answer only when one failed, so there the reading of two is always
degraded; that clause is carried by the theorem. The configuration calls the threshold a number of MADs, the code multiplies by 1.4826
(`schema.py:75-79`). Nothing outside `exchanges/` asks for a consensus.

Bounds: three sources of which one retries, one move of the market during a reading, four bad prints
from near to far. Each reading begins at the same price, which stands for any.

### Research

A calendar of daily bars, of which today's is still forming (`BarForms`, `DayCloses`), the history cache
(`GetCached`, `GetDownloaded`, `GetFails`), labels, folds and the verdict of the lab (`RunLab`).

- `ResearchIsHonest`: a download repairs what an earlier one took from an unfinished day
  (`CacheIsRepaired`); no fold trains on a label that looks at its test window, although rows are
  dropped and windows shrunk (`NoLookahead`); what the meta-model is trained on agrees with
  the whole history (`SplitIsHonest`); an edge is claimed only with a validated symbol above
  chance, one that made money and none suspect (`EdgeIsEarned`).
- `LabelsNeverRevised` (an action property): a label known from finished days is the same in the next history that has its
  bar (`BreakoutsKept`); a meta-label, as long as that history begins on the same day (`BarriersKept`).

The barriers of a meta-label stand at multiples of the average true range, which is Wilder's mean: it begins with the first bar of
the history, moves by 1/`AtrPeriod` with each, and is NaN for the first `AtrPeriod - 1`. The model has it in closed form, as a whole
number of the grain `1 / (1000 * AtrPeriod ^ (i - 1))`, hence exactly where the code has floats. So a meta-label depends on every bar
since the first, and the premise is needed: the window of a download moves (`history.py:114-118`), and when it does the code revises meta-labels of
finished days, or loses those near the new beginning. TLC finds both at once when the premise is dropped. No document promises
otherwise, so this is noted here and not a finding.

Today's partial bar is cached as if it were final (`history.py:113`), `years` is ignored when there is a cache,
and a refresh after a long pause may leave a gap. Shrunk windows do not shrink the purge, so the last fold usually does not fit
(`walkforward.py:41`). `evaluate_meta` reports the size of its test set as training samples when the model stayed untrained.
The verdict joins the accuracy of the symbols with folds to the return of all.

Bounds: six days of three shapes, downloads of five, one bar of label horizon and a time stop of two, two folds, a mean over a period of two in
place of fourteen (the shortest that has a warm-up and remembers), clamped between 2 and 50 thousandths so that either clamp, and neither, applies.

## Proofs

Every theorem holds for all values of the constants that satisfy the named assumptions of the modules, and the
premises stated with it. The paragraphs follow the modules of the plan; each says what its inductive invariant
adds to the property and why.

### The paper book and the predictions

`PaperBookProofs` proves, for every finite watchlist, cap, cooldown, number of trades
and mishaps, and every fault pattern:

- `TypeCorrect`: `Spec => []TypeOK`
- `NoTradeIsOrphaned`: `Spec => []NoOrphanedTrade`
- `OneOpenTrade`: `Spec => []OneOpenTradePerSymbol`
- `ExposureStaysCapped`: `Spec => []ExposureCap`

from `PaperBookAssumption` and `DBFaultsAssumption`, the only assumptions. None of the
safety properties is inductive. A rolled-back batch leaves the book with ids no row
has, a swallowed refusal leaves rows pending, so the invariant `IInv` speaks of the
two copies of the table, committed and pending, alike: each open row has a symbol,
no symbol has two (`Sound`), the book covers both (`Covered`), and a transaction is
deferred exactly where the cycle is in its batch (`BatchDepth`). The key facts are
lemmas: what a writer may leave behind (`WriteResult`), that an entry gets an id
above every row of the table (`InsertSound`), that closing a row by id, even the
wrong one, only ever removes an open row (`CloseSound`), and that a reload covers
every row (`ReloadCovers`). The step proof has one case per action. The cap needs one more invariant, that both
copies of the table respect it (`CapInv`): by `Sound` and `Covers` the open rows
inject into the positions held (`FewerRowsThanPositions`), so room in the book is
room in the table; closing opens nothing; every other step only moves the copies
(`OtherStepsKeep`).

On a database that refuses nothing (`DBFaults = {}`), the premise of the run `PaperBookSound`, it proves

- `BookStaysInDatabase`: `Spec => []BookIsInDatabase`
- `LedgerRefined`: `Spec => LedgerSpec`, the refinement of the abstract ledger

for every sequence of crashes, restarts and failing symbols. The premise is needed: `PaperBookGhost` shows what a single refusal
does to the first. `FaultlessInv` says that nothing is pending outside a batch and in it open rows alone (`Adds`), that
each position in the book is the open row of its symbol (`Backed`), and that ids above the sequence are unused
(`UnusedAbsent`). A batch that commits is then a set of entries at once, which is what the
abstract `Record` allows, and a close outside a batch is one settlement.

`PredictionsProofs` proves, for every watchlist, horizon, number of predictions and
mishaps, and every pattern of refused writes, from `PredictionsAssumption` and
`DBFaultsAssumption`:

- `TypeCorrect`: `Spec => []TypeOK`
- `NoWorkPending`: `Spec => []NothingPending`
- `LogRefined`: `Spec => LogSpec`, the refinement of the abstract prediction log

The invariant says what may be pending where (`Pending`): in the batch, predictions
recorded since its start (`Grown`); after a failure, at most one settlement
(`Settled`); elsewhere nothing. Both copies of the tables are `Whole`: no prediction
torn, no id used above the sequence. `Pending` has the case a reader may not expect: a
mark whose UPDATE went through and whose commit was refused is pending while the
failure is reported, and the report's own commit may complete it. Every step changes
the committed tables by one of the two (`DiskStep`), which is what the abstract steps
`Record` and `Settle` allow. What the connection may be left in comes from the lemmas
of `ObservatoryDBProofs` (`WriteResult`, `OutcomeResult`, `BatchOutcome`), shared with
`PaperBookProofs`.

### Operations: processes, desk, log, pages and clock

The processes (`OperationsProofs`), for any number of processes, launches, kills, raced starts and reuses of pids, from
`SupervisionAssumption`:

- `SupervisionInductive`: `SupervisionSpec => []SupervisionInv`
- `LockHeldByOne`: `SupervisionSpec => []OneHolderUnlessRaced`
- `RunsTruthful`: `SupervisionSpec => []RunsAreTruthful`

The lock is a file that names a pid, so the invariant is about pids: a living process has one and has it alone
(`PidsAreOwn`). One process at a time is in the care of the lock, from the look at the file to its removal, unless two
looked together, and the file names the one that holds it (`LockIsHeld`); "holds the lock" alone is not inductive, as one
that has found the file stale has not written it yet. Every row of `bot_runs` belongs to a process that is running it,
has stopped, or died after its last beat (`RowsAreOwned`). That the dashboard finds a living observer's run is a fact
about the newest rows of a table, counted (`LiveRunIsShown`).

The orders (`OperationsProofs`), for every set of intents, width of a moment, number of lives and of orders, from
`OrdersAssumption`:

- `TypeCorrect`: `OrdersSpec => []TypeOK`
- `RetriesAreHarmless`: `OrdersSpec => []OneOrderPerMoment`
- `OrdersStaySanctioned`: `OrdersSpec => []OrdersAreSanctioned`

The invariant adds what makes it inductive: the id on the desk is the one of its moment
(`NamedByMoment`), whatever passed the approval was permitted (`PermittedOnly`), a client that may trade was
built with every switch set and the configuration does not change (`TraderIsSwitchedOn`), and the
registry knows each order of this life and the one about to be placed, while only one can be on the desk
(`RegistryKnows`). That book and broker agree in number rests on a lemma about the cardinality of a filtered sequence
that grows by one (`OneMoreFill`).

The log (`OperationsProofs`), for any number of logging threads and records, any size of batch and any fate of a request, from
`RemoteLogAssumption`:

- `LogAccountedFor`: `RemoteLogSpec => []LogIsAccountedFor`

`RecordsHavePlaces` says where each record is: in the buffer, in the hands of one thread, with the collector or
refused, in exactly one of them and in one parcel there; one not yet logged is nowhere. `HandlerIsServed` says who
holds the lock of the handler: somebody about to empty a full buffer or who has just done so, so
that no thread finds it full. Sizes and the order of records within a parcel follow.

The pages (`OperationsProofs`), for any number of trades, pages and restarts and any limit of a query, from `DashboardAssumption`:

- `PagesTrue`: `DashboardSpec => []PagesAreTrue`

The two queries of a page see two states of the table, so the invariant relates them: the table a page began with is an
earlier one of the same rows, where what is closed stays closed (`Aged`), and what the first query brought is what that
table gave (`PageIsBegun`). The queries return the newest rows, and `NewestPush` says what that means when rows are
added: of a finite set of numbers, what is not among the greatest so many has that many above it.

The run loop (`OperationsProofs`), for every calendar, every configuration of intervals and caps and every pattern
of failing cycles, signals and kills, from `MarketHoursAssumption` and `RunLoopAssumption`:

- `WaitsStayBounded`: `Spec => []WaitsAreBounded`, that is type correctness with its numeric bounds,
  `SleepMissesNothing` and `StopIsPrompt`
- `WarmsUpOnce`: `Spec => OneWarmupPerProcess`
- `WarmByTheOpen`: `Spec => []ReadyAtOpen` if `MostWait <= Night`

It rests on the calendar: the next open is the first one not past (`NextOpenIsFirst`, on the least
element of a set of numbers), it stays the same until it is reached (`NextOpenStays`), the market
is closed until then (`ClosedUntilOpen`) and open at it (`OpenAtOpen`). From these,
`SleepCovers`: a sleep as long as `_next_action` makes it covers no moment that calls for
anything. The invariant keeps this while the clock moves (`Sleeping`), bounds each wait by what
ordered it (`Deciding`, `Cycling`), and knows that a warm-up counted for an open was counted by this process
or before it was started (`WarmupsKnown`).

`WarmByTheOpen` needs a premise on the configuration: neither a sleep with the market closed, nor a cycle, nor a rest
with its longest backoff (`MostWait`) outlasts the time from a close to the next open (`Night`). In the code
the longest are 300 seconds and 300 + 1800 seconds, and the shortest night is 17.5 hours. Then
what is owed is owed in time (`OwedInTime`): while the warm-up of a day is missing, its open is yet to come, a sleep
ends before the window of the warm-up begins, and a cycle with its rest ends before the open. Each step of the clock,
each choice of `_next_action` and each failure keeps that, since a cycle begins only when the market is open, hence a night before
the next open.

### The observatory: window, decisions, monitoring

The learning window (`ObservatoryProofs`), from `LearningAssumption`:

- `TypeCorrect`: `Spec => []TypeOK`
- `CompletedHasElapsed`: `Spec => []CompletedIsElapsed`
- `NoDayMissedByProcess`: `Spec => DayKeptByProcess` if roll-ups do not fail
- `ClockRuns`: `Spec => ClockKeepsRunning`

The condition of the third is that under which the run `ObservatoryMishaps` checks it; the last holds for every rotation and
every threshold, the shipped 60 cycles and 50 failures among them. The invariant
is `TypeOK`, `CompletedIsElapsed`, `TodayOwesNothing` (once a cycle was completed
today, every earlier day is rolled up) and `StreakIsFutile` (the failures in a row are of cycles since the last completed one, the
cycle under way not yet among them), by which the counter of the code is a bound on what really happened.

The decisions (`ObservatoryProofs`), for every tape, reply of the macro client, model, configuration of weights and thresholds
and history of outcomes, from `SignalsAssumption` and `DecisionsAssumption`:

- `HazardsHeld`: `DecisionsSpec => []HazardIsHeld` if `BlockedAsShipped`
- `DecisionsSound`: `DecisionsSpec => []DecisionsAreSound` if `LevelsFit` and `ScreenedAsShipped`
- `EntriesEvidenced`: `DecisionsSpec => EntryHasEvidence`

The premises are what a configuration file could change. `BlockedAsShipped`: the kill switch blocks on chop and on thin
liquidity, and a spread is called wide at eight basis points or sooner, the shipped value. With a wider threshold the
property is false, because `RawHazard` names the shipped one. `ScreenedAsShipped`: chop blocks, the watchlist stops at a
spread of 20 basis points or sooner and at a book of 100 thousand dollars or more. The labels of the
dashboard have thresholds of their own, which a laxer screening would pass over. `LevelsFit`:
the greatest volatility fraction, times the multiples of stop with entry offset and of the target, is below one.
`config/schema.py` does not check it; the shipped 0.05 with multiples of two and five does.

`EntriesEvidenced` needs that the rows of outcomes are rows (`RowsStand`), since a verdict other than right or wrong would
be counted by the gate and not by the property; then both count the same (`EvidenceIs`).
`HazardsHeld` needs no invariant but that the row of the cycle is an analysis of a tape: the work is in `HazardIsRead`,
that what is seen on the raw bars is seen by the layer. Three frozen bars among the last five are found by
`DetectHalt` in a window with other indices, so the proof shifts indices of `SubSeq` and counts. `DecisionsSound`
carries `DecisionsInv`: besides `RowsStand`, the row of this cycle is of an analysis of the memory as it
is. Its parts are lemmas of the operators. Fusion stays within its scale since the weights of the layers that speak
are positive and the sums bounded by them; levels straddle the entry since the volatility unit is positive and
`LevelsFit` keeps them above zero; calibration is monotone since the max-min formula of the isotonic fit grows
(`Least` and the greatest of it over fewer and more points) and interpolation lies between neighbours; the grade is
bounded by the least of its ceilings, one of which the recent errors set.

Monitoring (`ObservatoryProofs`), for every length of day and window, cooldown, limit of the query, and sequence of cycles, failing cycles,
gaps, errors and restarts, from `MonitoringAssumption`:

- `AlertsHeard`: `MonitoringSpec => []AlertsAreHeard`
- `ReadinessEarned`: `MonitoringSpec => []ReadinessIsEarned`
- `DaysReported`: `MonitoringSpec => []DayIsReported`

`CooldownsCount`: what the process remembers of a kind is the last alert it delivered of that kind, which is what the
cooldown counts from, and a kind whose cause was present in the last cycle was delivered within a cooldown of it. `CyclesOnRecord`: the
counter of the process, which `readiness.py` reads as uptime, never exceeds the ticks that left a market-wide row or an error, although
restarts reset one and not the other; `CycleLeaves` says what a cycle, failing or not, has in common with every other; a verdict stays as strong as it was given (`VerdictIsPast`). That the highest level needs each
kind of evidence is a bound on the weighted sum of the measures with one of them short (`Shown`). `DateIsOfRow`:
the date the process remembers is that of some row, and `MetricIsPast` that a day is rolled up in a later one, so that
the rows of the day that ends are complete, although failing cycles of the new day may have left theirs before. The advice agrees with some status because the mean of the
day lies between its least and greatest score (`MeanIsBetween`) and a row's status is that of its score (`RowsAreScored`).

### The feed, the consensus and the cross-section

The live feed (`FeedProofs`), for every finite universe and every threshold, duration, share
of probes and number of mishaps, from `LiveFeedAssumption`:

- `TypeCorrect`: `FeedSpec => []FeedTypeOK`
- `NoneParkedWithoutCause`: `FeedSpec => []ParkedForCause`
- `PruningLeavesSome`: `FeedSpec => []EveryDownloadAsks`
- `CacheIsDated`: `FeedSpec => []NothingOlder`

The cause of a parking is found in memory and on file alike, so the invariant adds
`StreakIsReal`: neither copy of a streak exceeds the failures since the last success on
file. It fails for a streak since the last success of all: a success that was not saved
leaves the old streak on file, and a restart resumes it. That a download asks for something rests on a lemma
about `kSubset`: a sample taken when all symbols are parked is not empty.

The consensus (`FeedProofs`), for any number of sources, any order of answers, retries and failures, and any path of the market, from
`MarketDataAssumption`:

- `ConsensusRobust`: `MarketDataSpec => []ConsensusIsRobust` if `ZThreshold \in 2..4` and `MaxDispersion <= 100`

The shipped values are 3 and 5 percent. At a threshold of 0 or 1 an honest source may be rejected in
favour of the bad one, above 4 the bound of one market range is too loose. The proof of a reading needs no more than
that honest answers are prices the market had (`Truthful`). Half of the answers lie within half the deviation of the median, so at least two
honest ones are kept; a bad print that is kept is near the median, hence near them, and is outweighed by two. Median and
deviation are values with a place in the order of the answers (`Ranked`), which is stated without sorting.

The cross-section (`FeedProofs`), for any factors, weights, clipped shares and shares of the baskets, from `RankingAssumption`:

- `RankingFair`: `RankingSpec => []RankingIsFair` if `NobodyTwice`

`NobodyTwice`: the watchlist names no symbol twice. `config/schema.py` does not check it; the list of the index is a
sorted set (`watchlist/sp500.py:220`). A row then names each stock once, since the stocks of a cycle have different
names (`CollectedOnce`) and different places in the order: as many stocks are ahead of one as its position says, and of no
two the same number (`AheadIs`, `PlacesAre`). That a better stock is not below a worse one goes through the pipeline
step by step: clipping to two quantiles keeps the order of values (`ClippingKeepsOrder`), so does scaling by a mean and a
deviation (`ScalingKeepsOrder`), so does a sum with weights that are not negative (`BlendIs`).

### The replay: backtest, outcomes, research

The backtest (`ResearchProofs`), for every configuration, set of bars and sequence of decisions,
from `BacktestAssumption`, `PaperBrokerAssumption` and `RiskAssumption`:

- `TypeCorrect`: `Spec => []TypeOK`
- `MoneyConserved`: `Spec => []MoneyIsConserved`
- `RecordsTellTruth`: `Spec => []TradesAddUp`
- `ExitsCanSell`: `Spec => []ExitCanSell`
- `TimeStopKept`: `Spec => []TimeStopHolds`
- `EntriesCooledDown`: `Spec => CooledDown`
- `StopBeforeTarget`: `Spec => StopComesFirst`
- `DailyLimitKept`: `Spec => NoEntryAfterBadDay`

`TradesAddUp` needs to know when a lot can be closed. `Whole` says that the open trade
covers the lot, or that there is none; then the records account for everything but the
fees of the open lot (`RecordsAddUp`). Otherwise there is a remainder, and the trade sells
less than is held. `CooldownIsSet` relates the last recorded loss to the cooldown, which a
repeated report can only extend; `Baseline` says that the daily tracker measures from the
day's first bar. Products and quotients are confined to the lemmas about fills and sales
(`FillType`, `BuyKeeps`, `SellKeeps`), of which `SaleSound` is what the steps use.

The outcomes (`ResearchProofs`), for every path of the market, set of horizons, rates and caches of any length, from
`OutcomesAssumption`:

- `OutcomesAreMarkets`: `OutcomesSpec => []OutcomeIsMarkets`

A prediction was read at the last bar of the cache it saw, and no later cache ends before that
(`PredictionIsRead`). Of an evaluation under way, `ScoringIsRead` says that each price was given by one of the caches it went
through and that up to the minute reached, one of them each found no level touched (`FreeUntil`); a verdict is that of the
first minute at which the cache then asked has a level reached (`Touched`). All of this stands while the tape grows and the caches are
replaced. Where every cache covers the prediction (`Covered`), they agree with each other and with the tape, and the property is
a comparison of stretches of one tape; where they do not, each answer is still at a bar not older than the entry's.

The lab (`ResearchProofs`), for every calendar, length of downloads, horizon, time stop and number of folds, from `ResearchAssumption`:

- `LabIsHonest`: `ResearchSpec => []ResearchIsHonest`
- `LabelsStand`: `ResearchSpec => LabelsNeverRevised`

Folds are arithmetic on the number of rows: the purge and the shrunk windows leave a label's look-ahead
before the test rows in every case of `walkforward.py`. `LabelsStand` compares two histories of different moments. The unit
of a row is read from the rows up to it (`UnitIsOfThePast`), so two histories with the same first rows have the same barriers and, the
rows that decide being the same, the same labels (`BarrierKept`). It remains that the rows are the same, so
`LabelsInv` says that the history is a stretch of the rows stored, as they are (`HistoryIsStored`), and that a day
missing between rows is too old to be downloaded any more (`GapsAreOld`). Without the latter a later download could fill a gap and
move every bar behind it by one row, and with it the label.

### The conjunctions, and what is only model-checked

Each conjunction that a run checks has a theorem of its own where its parts have theirs: `OpenTradesWatched`
(`PaperBookProofs`), `RowsStaySafe` (`PredictionsProofs`), `WindowStaysHonest` (`ObservatoryProofs`), `ParkingsEarned`
(`FeedProofs`), `BooksBalance` (`ResearchProofs`).

Two ways of writing a definition decide whether it can be reasoned about. A minimum, a maximum or a sum of a set is in the
library a choice or a fold, which unfolds to a recursively defined function: `NumberProofs` derives what is needed of them from
a least counterexample. Sorting and folding a sequence (`SortSeq`, `SetToSortSeq`, `SelectSeq` with a condition, `FoldLeft`) give the prover
nothing to hold, so the modules proved about state an order by its places instead (`Ranked`, `Ordered`, `PlaceOf`).

Only model-checked:

- All liveness (`TradesSettle`, `WindowCompletes`, `PredictionsSettle`, `ComesBack`), which with ENABLED is
  outside the reach of TLAPS.

## Plan

The order was by how much of the system's promise a part carries.

1. Paper book on the transaction layer, with the abstract ledger. *Done; all its safety properties and the
   refinement are theorems.*
2. Market hours and run loop. *Done; three theorems, all of its safety.*
3. Learning window. *Done; five theorems.*
4. Predictions, from the record to the settled outcome, with the abstract log. *Done; four theorems,
   the refinement among them.*
5. Instance lock and bot runs. *Done; three theorems, all of its safety.*
6. Live feed: parking, refresh, partial failure. *Done; five theorems.*
7. Orders, approval, the paper account. *Done; three theorems.*
8. Paper broker, risk controls and backtest loop in integer money. *Done; nine theorems.*
9. Alerts, readiness, daily metrics; the remote log; the pages of the dashboard. *Done; five theorems, all of its
   safety.*
10. Signals, fusion, gates, the entry; ranking; outcomes, consensus; labels, folds and the verdict of the lab.
    *Done; eight theorems, all of their safety.*

Left:

- The loss limits of the observer across restarts: the trackers are in memory and their baselines
  begin anew with each process, so that an entry may be permitted that they had blocked (the one hazard without a
  property). `RiskControls` has the operators; the equity would have to join the paper book.
- Two observers on one paper book. `Supervision` shows when there can be two.
- Backtests of several symbols and their metrics.

## Not modelled

Indicator and feature series, the training of models, how a factor is computed from candles: arithmetic on arrays
of floats, whose results the models leave free or take from a few instances. The mock feed: a pure generator, and any
price is possible in the models. Accounting and tax: sums over closed trades, with no state and no order of steps.
Reports, the parsing of configuration, start-up and the printed tables of the CLI: presentation. Notifications and API keys: one request whose
failure is ignored, and one look-up. Reconciliation is called from tests alone. Pages of the
dashboard made from one query, HTTP headers and address filters. Power loss (WAL with
`synchronous=NORMAL` may lose the last commits): a crash keeps what was committed. launchd and the watchdog
appear as what restarts the process.

PROJECT.json gives the status of every component, and under "hazards" each place in the code that
a test would hardly reach, with the properties that cover it.
