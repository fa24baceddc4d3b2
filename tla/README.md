# stock-sentinel in TLA+

A verification project for stock-sentinel, the Rust/Axum server in
`src/src/`. The server watches the positions a user holds: a background
scanner quotes every held symbol, evaluates it by fixed rules and sends
alerts; HTTP handlers add, remove and evaluate positions at the same time;
SQLite keeps what must survive a restart. The modules here model the parts
where several actors share state, and the rules, indicators and replays whose
arithmetic must add up. Paths below are relative to `src/src/` unless they
begin with `README.md` (the program's, in `src/`).

## Inventory

| component | state | operations | what is hard | what makes it correct |
|---|---|---|---|---|
| position store (`routes.rs`, `db/mod.rs`, `scanner.rs`, `portfolio.rs`, hydration in `main.rs`) | map `AppState.positions` (DashMap); table `positions` | add one or many, remove, signal, full-signal, the scanner's update, hydration | every handler awaits between map and table; scanner writes a clone taken earlier; crash between the two; errors half way | a cached position has a row; peaks never fall; map and table agree when all is quiet |
| scan cycle and circuit breaker (`scanner.rs`, `db/mod.rs`, `pipeline.rs:390`, `routes.rs:190`) | the cycle's tasks, their sum behind a mutex, semaphore, table `portfolio_equity`, an AtomicBool | scan positions, join, record equity, set the breaker, alert, scan candidates; on-demand evaluation reads the breaker | tasks finish in any order and may fail; each database call may fail; a restart forgets the AtomicBool | sums add up; candidates are judged by their own cycle's breaker; alerts alternate; drawdowns are caught |
| rate limiter (`ratelimit.rs`) | VecDeque of timestamps behind a mutex | `acquire` | sleepers race for a freed slot | at most `max_calls` in any window |
| strategy (`strategy.rs`) | none | `evaluate` | order of the rules, boundaries | the stop wins; rungs |
| backtester (`backtest.rs`) | the replay's position, realized value, equity peak | `run`, `sweep` | partial sales, early exits, last marks | nothing sold twice or lost; drawdown is the worst |
| decision pipeline (`pipeline.rs`, `news.rs`, `ollama.rs`) | LLM semaphore; what a run knows between its awaits | `run_position`, `run_candidate`, the breaker's gate | short circuits, a semaphore inside a semaphore, an LLM that fails or never answers | hard rules are never overridden; a flag escalates or rules out; no Buy against the breaker |
| scanner loop and shutdown (`scanner.rs:41-130`, `main.rs:60-300`) | interval, watch channel, where main is | tick, phases, select, drain, exit | select runs a whole cycle in one arm; clients disconnect | phases and cycles do not overlap; shutdown ends; nothing is cut off |
| theme watch, notifiers (`themes.rs`, `scanner.rs:300-352`, `notifier/`) | tables `themes`, `theme_log` | check, log, alert | one failure ends the scan of the rest | the loop goes on |
| technical orchestrator (`analysis/technical.rs`) | a ticker configuration | run once at start | main awaits it before it serves; a candle that contradicts itself panics | the server does not depend on the demonstration |
| DashMap guards (`routes.rs:90-103`) | shard locks | get_signal, everybody else | a guard held across an await | no thread waits for ever |
| Finnhub client (`data/mod.rs`, `finnhub_extra.rs`) | the one shared limiter | `quote`: three attempts with backoff; extras: one | every attempt takes a permit, and may leave long after it | budget, termination |
| price history and indicators (`db/mod.rs:219-300`, `indicators.rs`, `routes.rs` import and backfill) | tables `price_history`, `ohlc_bars` | record, import, backfill, read back, judge | made-up timestamps; writers between a read and its use; boundaries of the averages | a series is in order and ends with the live price; indicators follow the price |
| position sizing (`risk.rs`) | none | `calculate` | two bounds on one number | neither budget nor account is exceeded |
| Twelve Data, watchlist, evaluation log, auth, macro context, digest, unused providers | little or none | requests, parsing, single statements | - | - |

The scanner and the handlers share `AppState`: the map, one SQLite connection
behind a mutex (so each database call is one atomic step), the breaker, and,
behind the data provider, one rate limiter. Handlers and scan tasks interleave
at their awaits and nowhere else that matters: between two awaits a task holds
a map guard or a mutex for all it does, or touches nothing shared. The one
handler that keeps a guard across an await has a module of its own.

## Modules

- `PositionStore` - map, table, scan tasks, requests in flight, crashes.
  `MCPositionStore` instantiates it, `PositionStoreProofs` proves about it.
- `SlidingWindow` - the rate limiter's promise, told on the calls let through.
- `RateLimiter` - `acquire` as it is written; implements `SlidingWindow`
  (`ImplementsLimit`).
- `FinnhubClient` extends `RateLimiter` with the callers: `quote`'s attempts
  and the extras' single one. `MCRateLimiter`; `FinnhubClientProofs`, about
  limiter and client.
- `CircuitBreaker` - `scan_once`, `update_circuit_breaker`, and the on-demand
  reader. `MCCircuitBreaker`, `CircuitBreakerProofs`.
- `Advice` - what the decision pipeline promises, told on its advice alone.
- `Pipeline` - the stages of `run_position`, `run_candidate` and
  `ThemeWatcher::check`, as jobs around the LLM semaphore.
- `Startup` - `run_orchestrator`, which main awaits before it serves: when it
  aborts, when it panics, when it returns.
- `Server` extends `Pipeline` and `Startup` with main, the scanner loop, the
  requests and the end of all of them; implements `Advice`
  (`ImplementsAdvice`). `MCServer`, `ServerProofs`.
- `ShardGuard` - worker threads and one shard of the DashMap. `MCShardGuard`.
- `Indicators` - RSI, averages, MACD, bands and ranges, and the technical
  score, as operators. `PriceHistory` extends it with the tables the series
  come from. `MCPriceHistory`; `PriceHistoryProofs`, about both.
- `Strategy` - `evaluate`, as operators. `Backtest` extends it with
  `backtest::run`, one step per price. `MCBacktest`, `BacktestProofs`.
- `Sizing` - `risk::calculate`, an operator and the theorem about it.
- `Induction` - lemmas for the proof modules: induction over numbers and finite
  sets, and what recursive functions and folds are.

`CircuitBreaker` and `PositionStore` are not composed with `Server`: the three
share the loop's phases and nothing else, so in `Server` a cycle may list any
symbols and set the breaker either way, which includes all that the other two
can do.

Operators named after a mutation (commented `Mutant:`) are variants of the
definition that follows them with a plausible bug; each shows that a property
can fail.

### PositionStore and the code

`positions` is the DashMap and `rows` the table. `scan[s]` says where the task
of symbol `s` stands between its awaits: waiting for the quote
(`scanner.rs:204`), holding a price (`ScanSnapshot`, 210-220), holding a clone
to write (`ScanUpsert`, 222), evaluating (225-259). `req[c]` is the handler a
client has in flight: an add is a batch with an order in hand (`add_position`
is a batch of one, `add_positions` loops), between row and map in
`pc = "insert"`; a remove is between map and row in `pc = "delete"`. `Crash`
clears all but the table; a graceful shutdown is the crash at which nothing is
in flight. `Restart` hydrates the map or, when reading fails, leaves it empty
(`main.rs:165`). `Fault` makes any quote or database call fail; faults and
crashes are bounded by `MaxFaults` and `MaxCrashes`, orders by `MaxLots` and
`MaxBatch`.

A lot number stands for the order's quantity and opening time and makes orders
distinguishable. Left out: the price history and `realized_fraction` (memory
only, respectively always 0), and the `opened_at` column, which no decision
reads. `Overlapping = FALSE` is the assumption that clients do not have two
requests on one symbol in flight; nothing in the server enforces it, so what
needs it says so. Not modelled here: a client that disconnects and so drops
its handler at an await, leaving the blocking database call to run on its own.

### CircuitBreaker and the code

`phase` follows `scan_once`: tasks per position (`task`), the join, the record
and the drawdown of `update_circuit_breaker`, the alert, the candidates. The
equity table is kept as its latest value and its maximum, all that
`portfolio_drawdown` reads; "latest" is by wall clock in the code and by order
in the model, so the clock is assumed not to go back. `PermitsHeld` counts the
semaphore's permits. The pipeline's verdict is any verdict; `Gate` is
`apply_circuit_breaker`. Positions are held throughout (at least one): with
none, the update returns early and the breaker stays as it is. `decided` and
`lastAlert` are history variables.

### RateLimiter, FinnhubClient and the code

The limiter's loop runs under the mutex and awaits nothing in it, so `Pass` and
`Wait` are each one round. `Drops(k)` is the inner loop that pops expired
timestamps. `WakeUp` fires at the deadline or any time after it. The clock is a
counter of ticks; it stops once nothing depends on it, which keeps the state
space finite and changes nothing (the stop is part of `Tick`'s guard).

A caller of the client is idle, waits for a permit, has one and is about to
send, or backs off (`data/mod.rs:60-92`). `Answered` and `Failed` are the
request on the wire with its outcome; between `Permit` and either of them the
clock may advance, which is why `SendsBounded` allows one request per caller
more than the limit. The pause of a retry is shorter than a tick.

### Pipeline, Server and the code

A job is a scan of a held symbol, a scan of a candidate, a request
(`get_full_signal` or `evaluate_candidates`) or a theme. `pc` is the await it
is at: `queued` for a permit of the scan semaphore, `ingest` (quote, price,
row), `company` and `rss` (`gather_headlines`), `permit` and `llm` (`analyze`),
`context` (`gather_finnhub_context`), `verdict` (logging), `alert`. What a run
keeps between awaits is in its record: the hard rule that fired, whether there
are headlines, what the model said, the symbols of the request still to go.
The technical score is any of `TechScores`, drawn where it is summed up; what
the indicators may add up to is `Indicators`' business. `HangUp` is a client
that disconnects at any await: axum drops the handler, and the LLM permit it
holds goes back. The breaker is read where the code reads it, between the
verdict and the next await (`Gated`).

`Advice` knows cases, news and advice; the mapping of `Promise` takes a job up
to `ingest` for a closed case, one in the pipeline for an open one, and one
with a verdict for an advised one.

`loop` follows `run_scanner_loop` and `scan_once`; `main` follows `main`:
`starting` (the orchestrator of `Startup`, awaited at `main.rs:67`), `serving`,
`draining` (axum's graceful shutdown), `joining` (the scanner is told and
awaited, `main.rs:290-299`), `exited`, or `crashed` (`Panic`: the orchestrator
unwraps a candle that `ta` refuses, the database cannot be opened, the address
is taken); `Redeploy` starts the next process after either end. Panics once the
server serves are not modelled. A
tick is always due at `waiting`: missed ticks of a long cycle come in a burst,
and `select` draws among ready arms, so that more cycles may start after the
shutdown was signalled.

### ShardGuard and the code

A task that enters the shard needs it for one poll, except `get_signal`, which
takes the guard (`routes.rs:90`), awaits `latest_real_atr` with it (97-102), and
drops it when it answers. A task that finds the shard locked blocks the worker
that polls it: the lock is not an async one and does not yield.

### Indicators, PriceHistory and the code

Prices are integers. RSI, averages and bands are compared by
cross-multiplication, exactly; the exponential averages are fixed-point
numbers, rounded down to 1/`Unit` of a price at each step. `Unit` is the
model's own and no constant of the code, whose averages are doubles;
`PeriodsAssumption` asks that it be fine enough for the longest average
(`Slow * Slow`), for a coarser one would show trends that only rounding makes.
`drawdown_from_peak` carries no weight and is left out. `rows` is `price_history` in the order of
`recorded_at`; `Imported` reproduces the timestamps an import makes up, one
day apart and the last a day ago. `BackfillBars` and `BackfillCloses` are the
two transactions of a backfill, whose second error is dropped
(`routes.rs:155-187`). A scan records its quote and then reads, a request reads
and then records; each is two steps, with any writer in between.

### Strategy, Backtest and the code

Percentages are compared by cross-multiplication over integer prices, so
rounding of floats is not modelled; a position is sold in `Whole` parts. RSI
enters as an arbitrary Boolean: it only decides between alert and hold. Each
step of `Backtest` is one iteration of the loop of `run` with any price, so
that TLC tries every series; `Finish` may end the series after any price.
`sweep` is the same over `Configs`; its score and sort are left out. Stop,
thresholds and fractions are any integers, since the routes accept any number;
prices and entry are at least 1 (an entry of 0 divides by zero in the code).

## Runs

| run | bounds | shows |
|---|---|---|
| `store_serial` | 2 symbols, 2 prices, 2 clients, 3 orders, batches of 2, 1 fault, 1 crash, symmetry over symbols and clients | `TypeOK`; `CachedIsStored`: a cached position has its row whatever fails; `StoredPeakNeverFalls` |
| `store_overlap` | 1 symbol, 2 clients on it at once, 2 orders, 1 fault, 1 crash, fairness | `StoredPeakNeverFalls` without the assumption; `ScanConverges`: scanning repairs what races and failures left |
| `store_removal` (violation) | 1 symbol, 1 client, no fault | a scan writes a removed row back |
| `rate_limiter` | 2 callers, 2 calls of up to 3 attempts, limit 2, window 1, fairness | `WindowBound`, `QueueBounded`, `ImplementsLimit` for all traffic together; `SendsPaid`, `SendsBounded`: requests and permits; `QuoteReturns` |
| `breaker` | 3 positions, 2 permits, 1 candidate, 1 request, 2 values, limit 50%, 1 fault, 1 crash, fairness | `TotalAddsUp`, `ScannerBuysGated`, `BreakerIsCurrent`, `AlertsAlternate`, `BreakerCatchesUp` |
| `breaker_restart` (violation) | 2 positions, 1 crash | a restart forgets the drawdown |
| `server` | 2 positions, 1 candidate, 1 request of up to 2 symbols, 2 themes, 1 scan slot, 1 LLM permit, starts that crash, fairness with answers and restarts | `PhasesApart`, `ExitIsQuiet`, `ImplementsAdvice`; `CyclesEnd`, `ShutdownEnds`; `ServesWithoutDemo`: whatever else fails at a start, only a refused candle keeps the server down |
| `stop_delay` (violation) | 1 position, 1 candidate, 1 request, fairness without answers | a SellAll waits for a feed or model without a timeout |
| `signal_guard` (violation) | 2 workers, 1 signal request, 2 visitors, fairness | every worker blocks on a guard nobody can drop |
| `history` | 2 prices, 5 rows, 2 live, 2 days, an import or backfill, limit 5, RSI 2, average 6, MACD 2/5/2 | `ImportsKeepOrder`, `LiveStaysLatest`, `RsiFollowsPrice`, `MacdFollowsTrend`, `TechnicalsNeedRsi`, `AtrSeesGaps` |
| `backtest` | 6 configurations (one with negative and excessive thresholds and fractions), 5 prices, series up to 5 | `ReturnInRange`, `NeverHeldPastStop`, `WorstIsWorst` |
| `backtest_ladder` (violation) | the documented ladder | a rung fires again at every later price |

Why these are enough. Store: the races need two actors on one key and one
failure or crash at each await, and every await is a step of its own; a third
order lets a symbol be added, removed and added again around a scan. Breaker:
two values with a limit of 50% reach a breach strictly past the limit (2
against 9) and, with 3 against 6, exactly at it. Limiter: two callers with
three attempts each against two permits a window keep a sleeper that finds its
slot taken by the other's retry, and six permits turn the queue over three
times. Server: with one slot and one permit everything contends, and two
positions, or a scan and a request, are enough for one to hold what the other
waits for; two themes let the second be lost with the first's failure; the
scores reach both thresholds, with and without news, and miss them. History:
the periods are scaled down so that six prices, as many as a request can hold,
give all four indicators, with the RSI's window shorter than the average's and
MACD's line longer than its signal, as in the code; one import or backfill lies
before, between or after live prices on two days. A second import,
which would fall among the rows of the first, is beyond this run:
`PriceHistoryProofs` covers any number. Start-up: each stage of the orchestrator
may end in each of its ways, at every start anew.
Backtest: five closes hold a
rise through two rungs and a fall past the stop in either order.

Fairness. `FairSpec` of store and breaker: weak fairness of the scan cycle (an
interval that keeps ticking), of each task and handler that is under way (the
runtime polls a woken task), and of the restart (the container restarts the
process); external calls return, with an answer or an error. `ClientFairSpec`:
time goes on, a woken caller is polled, and a request ends, for that client has
a timeout. `Server` has two: `SharedFairness` polls the loop, main and each job,
strongly, since tokio's semaphores are fair and only a semaphore can disable a
job's step, and it draws the shutdown arm of `select` sooner or later; no tick,
request, signal or redeployment need come. `ServerFairSpec` adds nothing, so
that Yahoo, feed, model and notifiers may never answer: their clients have no
timeout. `AnsweredSpec` assumes they do; it is what the liveness of cycles and
shutdown rests on, and `stop_delay` shows what fails without it.
`RestartedSpec` adds that a crashed process is started again
(`restart: unless-stopped`, `docker-compose.yml:24`) and that one which gets
past the orchestrator time and again finds its database and its address at last.
`ShardGuard`: workers run what they can, SQLite answers. Nothing is assumed to
be requested, and no failure is assumed away: bounds on faults and crashes make
"eventually" mean "once failures are over".

Three passing runs turn the deadlock check off because the system may stop
there: bounded calls (`rate_limiter`), rows and time (`history`), the end of a
series (`backtest`). `signal_guard` does because the deadlock is what it shows,
as a property.

## What the violations say

1. `RemovalWrittenThrough`: `scan_position` upserts a clone taken before an
   await (`scanner.rs:222`), so a `DELETE` in between is undone in the table
   and the position returns with the next start.
2. `NoBuyInDrawdown`: after a restart the breaker is false (`main.rs:200`)
   until the first cycle, which the loop starts a whole interval later.
3. `SellNotDelayed`: a verdict fixed by a hard rule waits for headlines, the
   LLM semaphore and the model (`pipeline.rs:216`), whose clients have no
   timeout, although `README.md:176-178` says news never delay the sell.
4. `ThreadsAreFreed`: `get_signal` keeps its DashMap guard across an await
   (`routes.rs:90-102`), against `README.md:236-242`; as many visitors of the
   shard as there are workers block them all.
5. `RungsFireOnce`: `evaluate` remembers no rung (`strategy.rs:128-133`).

Divergences met while modelling that no run is spent on:

- `technical.rs:106-113` unwraps what `ta` makes of each candle, and main awaits
  it (`main.rs:67`): a day whose numbers contradict each other (a high below the
  close) panics before anything is served, at every restart until Yahoo has
  other data, although the comment at `technical.rs:296-298` skips what is not
  there "rather than crashing your entire trading engine". Only nulls are
  skipped. `ServesWithoutDemo` makes this its one exception; without it TLC
  finds the loop of crashes.
- `remove_position` drops the error of its delete (`routes.rs:69`) and answers
  204 or 404 all the same: the row stays and the position is back with the next
  start, against "written through on every change" (`README.md:197-198`).
- `routes.rs:94` and `:127` raise the peak in memory only, against "written
  through on every change" (`README.md:197-198`).
- A failed scan drops out of the equity that is compared to the all-time peak
  (`scanner.rs:98-103`), and so does one whose verdict cannot be logged (239),
  which also suppresses its alert.
- `README.md` says under "Honest gap" that the scanner task is aborted at
  shutdown; `main.rs:294-299` awaits it.
- The comment at `scanner.rs:47` says the first scan fires immediately; the
  tick before the loop takes the immediate one.
- A candidate's routine Watch is alerted as a "news risk flag"
  (`notifier/mod.rs:62` with `pipeline.rs:372`), while one that is flagged is
  an Avoid and silent.
- News alone weigh up to 0.5 against a threshold of 0.35, although the comment
  at `pipeline.rs:346` has them weigh less than the price trend.
- A flat series scores -0.6, an Avoid: no losses make an RSI of 100, and trend
  and MACD count "not above" as below.
- An import's timestamps are said to be "ending now" (`db/mod.rs:217`); the
  last is a day ago (`db/mod.rs:225`).
- Repeated imports and backfills add their rows to `price_history` again
  (`db/mod.rs:225`), while `ohlc_bars` upserts.
- `portfolio_status` reads the drawdown and then the breaker
  (`routes.rs:422-434`); a cycle may set one in between.
- A failed `log_theme_event` (`scanner.rs:324`) ends the scan of the remaining
  themes.

## What is proved

The theorems hold for every value of the constants that satisfies the ASSUMEs
of the modules: any symbols, clients, prices, limits, permits, batch sizes,
periods, bounds.

- `PositionStoreProofs!TypeCorrect`, `CachedIsStoredAlways` (from
  `Overlapping = FALSE`), `StoredPeakNeverFallsAlways`.
  `CachedIsStored` alone is not inductive: that the row is there when the map
  is filled has to be remembered while the add is between the two, and no other
  request may delete it meanwhile; `SerialInv` adds this. For the peaks,
  `PeakInv` orders the three copies of a lot: row behind clone behind map, so
  that whatever is written next is at least as high; and since a row may also
  be overwritten by another lot, it keeps track of which lot numbers can still
  enter where (`KnownLots`).
- `FinnhubClientProofs!QueueCorrect`, `WindowBoundAlways`,
  `QueueBoundedAlways`, `LimitImplemented`, of the limiter alone. `QueueInv`: the
  queue is a suffix of the history of calls let through, and what was dropped
  from it has expired; hence room in the queue means that the call `MaxCalls`
  back has left the window.
- `FinnhubClientProofs!ClientRefinesLimiter`: every step of the client is one
  of the limiter or leaves it alone, so that `ClientKeepsWindow`,
  `ClientKeepsQueue` and `ClientImplementsLimit` follow from the theorems above
  for all traffic together. `ClientTypeCorrect`; `SendsPaidAlways` counts: the
  requests sent and the callers about to send are the permits granted.
  `SendsBoundedAlways` is about time: `SendsInv` says that the k-th request
  leaves between the k-th permit and the one that comes as many permits later
  as there are callers, for at most that many hold one unused; with the window
  of the permits this bounds the requests.
- `CircuitBreakerProofs!TypeCorrect`, `BreakerIsCurrentAlways`,
  `ScannerBuysGatedAlways`, `AlertsAlternateAlways`. `BreakerInv` adds that
  candidates work only in their phase, that the breaker is not decided before
  equity is recorded, and that the last alert tells the breaker's state except
  between swap and alert. `TotalAddsUpAlways`: the sum over the positions done
  is unfolded by induction over finite sets (`SumAt`), which makes it the same in
  whatever order tasks end, and grow by one value when one does (`SumOfAny`).
- `ServerProofs!ServerTypeCorrect`, `PhasesApartAlways`, `ExitIsQuietAlways`,
  `AdviceImplemented`, from the inductive `ServerInv`. Its parts: what a job
  knows fits where it is, in particular nobody has read news before the model
  answered and only themes are read as themes (`JobsInv`); free permits and
  jobs that ask the model add up to `LlmPermits` (`PermitsInv`); who is quiet
  while main is where it is (`MainInv`). The proof shows of each action of a
  job that it moves this job alone (`Moves`), to `Advice` is a step or a
  stutter (`CaseStep`), and takes or returns at most the permit it says
  (`PermitStep`); what follows for phases and permits is then argued once
  (`BusyStep`, `PermitsStep`, `PromiseStep`).
- `PriceHistoryProofs!HistoryInvariant`, and from it `TypeCorrect`,
  `ImportsKeepOrderAlways`, `LiveStaysLatestAlways`. That imports are in order
  is not inductive: where a row goes is decided by timestamps alone, so
  `HistoryInv` adds that the table is in the order of its times
  (`Chronological`), that none is of the future (`RowsInPast`, or a live price
  would not be last), that only rows of the import under way can be of it
  (`RowsOfImports`), and that the bars a backfill has in hand are in the order
  of their dates (`BackfillInOrder`). `InsertedKeepsOrder` is the one lemma about
  the insertion all writers share; `ImportGoesOn` carries it from row to row of
  an import.
- `PriceHistoryProofs!RsiFollowsPriceAlways`, `MacdFollowsTrendAlways`,
  `TechnicalsNeedRsiAlways`, `AtrSeesGapsAlways`: each from a theorem about the
  operator alone, for any series. `RsiSeesTheTrend`: gains less losses is the way
  the price went (`TotalsOfWalk`). `MacdSeesTheTrend`: on a rise the short
  average is ahead of the mean of all days so far, until the long one starts
  from that mean (`FastBeforeSlow`), and from then on between it and the price
  (`FastStaysAhead`); rounding down is part of the argument, and where `Unit` is
  needed. `ScoreNeedsRsi`: trend, MACD and bands stay within the threshold of a
  verdict because the bands speak only against the trend. `AtrAtLeastCloses`,
  from `TrueRangeSeesGap`: a true range is at least the gap between two closes,
  given that a day closes between its low and its high (`HistoryAssumption`, of
  the provider's bars).
- `BacktestProofs!ReplayTypeCorrect`, `ReturnInRangeAlways`,
  `NeverHeldPastStopAlways`. `RangeInv` says of the parts sold so far what
  `ReturnInRange` says of the whole; a sale at a price of the series keeps it
  (`SaleWithin`), and so does the last mark to market. `WorstIsWorstAlways`: the
  running peak is the highest mark and the kept fraction is no less than that of
  any earlier pair and equal to one's; a new mark is compared with the peak
  alone, which `LowerPeakFallsLess` shows to be enough.
- `Sizing!RiskIsBounded`: both bounds hold whichever of them cut the number of
  shares. No run checks it, since nothing in it moves.

With this every invariant and every action property of the passing runs is a
theorem. The library's own induction theorems take an operator as a parameter,
which the provers cannot instantiate; `Induction` says the same of sets, from
the existence of minimal elements, and with it that a function defined by
recursion (`Total`, `EmaSeries`, `Imported`) or a fold (`Sum`) exists and has the
values its equation gives. This is why those are recursive functions in the
models.

Only model-checked: liveness (`ScanConverges`, `QuoteReturns`,
`BreakerCatchesUp`, `CyclesEnd`, `ShutdownEnds`, `ServesWithoutDemo`), which is
out of the prover's reach, and the five violations. `ShardGuard`, whose only run
is one of them, and `Startup`, a part of `Server`, have no theorems of their own.

## Not modelled, and the plan

What is left, in this order:

1. Handler cancellation in `PositionStore`: a dropped `add_position` leaves its
   blocking database call to run on its own. `Server` has it for the requests
   that run the pipeline.
2. Holdings that change under `CircuitBreaker`, the empty set included: then
   the update returns early and the breaker stays where it is
   (`scanner.rs:144`).
3. Themes and watchlist as tables with their handlers; `Server` lets every
   cycle find any of them.
4. `sweep`'s score and sort.
5. Proofs: what of the properties holds where the violations are (a removed
   row stays removed while no scan holds a clone; threads are freed where no
   guard is kept).

Left out for good: rounding of floats; request building and parsing of news,
Finnhub extras and Twelve Data; texts of alerts and prompts; the HTML front
ends; bearer authentication; single SQL statements without interleaving of
interest; time between ticks (the models order events and measure only the
limiter's window and the days of an import); the functions of
`analysis/technical.rs` that nothing calls, the digest, macro and provider code
the server never reaches.
