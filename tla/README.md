# A TLA+ model of ai-hedgefund

This directory specifies the fund's backend: the order path and the branch ledger, the
database sessions that share that ledger, the pipeline that decides what to trade, the
scheduled jobs around it with their run table, the data platform that feeds it, and the
backtester that replays the order path. Every definition is read off the Python source;
`PROJECT.json` maps each one to the lines it stands for.

## 1. What the system is

A FastAPI application (`app/main.py`) and a set of scheduled scripts work on one
PostgreSQL database. Each *branch* (growth, value) owns one portfolio row. A weekly job
screens a universe of stocks, has three analysts score them, turns the scores into
target weights, and executes the difference as paper trades. A daily job marks and
snapshots the branches, a watchdog looks for runs that went wrong, and a backtester
replays the pipeline over historical prices with in-memory repositories.

| Component | State | Operations | Talks to | Hard behaviour | What makes it correct |
|---|---|---|---|---|---|
| Trade execution (`trade_execution/`) | `orders`, `trades` rows | `submit_order`: validate, clamp a near-full sell, fill, cash gate, record, notify the portfolio | paper broker, portfolio service, event log, by direct calls in one session | an exception after half of the rows are written; a rejection reported by an exception | every filled order has one trade for what its row shows; no overdraft |
| Portfolio (`portfolio/`) | `portfolios`, `positions`, `portfolio_snapshots` rows | `create_portfolio`, `adjust_cash`, `handle_trade_executed`, `mark_to_market`, `take_snapshot` | called by execution, API and jobs | absolute values computed from unlocked reads; average-cost splits; three formulas for NAV | cash reconciles with P&L and cost; trades explain positions |
| Sessions (`db/connection.py`) | transactions | commit on return, rollback on exception | all of the above | lost updates, row locks in conflicting orders, dropped connections | what is committed is what one session did alone |
| Weekly runner (`equities/weekly_runner.py`) | `pipeline_runs` rows | `execute` in three transactions, `force_retry` | run function, CLI | racing processes, hard kills, failing and unacknowledged commits | a day is traded once unless someone decides otherwise |
| Watchdog (`scripts/ops_watchdog.py`) | issues | four checks, `ensure_issue` | run table, snapshots, risk alerts | cron gaps, one failing alert hiding the next | every abandoned run is reported; silence means health |
| Weekly CLI, daily snapshot (`scripts/`) | once-a-day snapshot, alerts, digest | claim, trade, mark, snapshot, evaluate, persist, report | portfolio, runner | check-then-insert, overlapping jobs, failing commits | the digest tells what is durable |
| Equities pipeline (`equities/service.py`, `agents/graph.py`, `order_flow.py`, `risk_checks.py`) | workflow state of one run | universe, screen, news, three analysts, decide, execute | data platform, execution | fan-out and AND-join; rejected and failing orders in one session | each order is submitted once; every order is accounted for |
| Portfolio manager, weights, attribution (`equities/agents/portfolio_manager.py`, `adaptive_weights.py`, `attribution.py`) | none, and weight rows | score, select, size, generate orders; score last week | pipeline | rounding, caps, whole shares, missing prices | weights within caps and sum; slow movement |
| Analysts and ranker (`equities/agents/`, `backtest/quantitative_analysts.py`) | none | prompt, parse, rank, fall back | LLM API | partial failure, truncated answers, ties | a failed analyst is neutral, never missing |
| Universe, screener (`equities/universe/`) | CSV snapshots | load, hydrate, filter | data platform | missing metrics, later reports | point-in-time membership |
| Data platform (`data_platform/`) | TTL cache, token buckets, `instruments` rows | prices, fundamentals, news, `upsert_instrument` | external adapters | one lock around a sleep, stale entries, shared keys, check-then-insert | rate limits hold; an answer fits its question |
| Backtest engine (`backtest/engine.py`, `state.py`, `adapters/`) | simulated clock and book | day loop: mark, accrue, rebalance, snapshot | the live services over in-memory repositories | fills at the next day's open, filings of the future | snapshots use only what was known |
| Backtest API (`backtest/api.py`) | registry of runs, result rows | run, cancel, read, recover | engine as background task | cancellation racing completion | record, result and row agree |
| Backtest LLM caches (`llm_analyst_cache.py`, `llm_response_cache.py`) | signal cache, call counter, SQLite | analyse, get, put | analysts | one cap shared by three concurrent analysts | the cap is spent exactly |
| Backtest analysis (`analytics.py`, `comparison.py`, `statistics.py`, `experiment.py`) | files | metrics, comparison, noise floor, verdicts | saved runs | few samples, partly overlapping runs | every cell counted once; noise is not called a signal |
| Event log, wiring, other scripts | append-only rows | append, query | all | written in the transaction of the change | - |

The hazards this code is exposed to are listed line by line in `PROJECT.json`.

## 2. Modules

```
             Portfolio (operators) --- PortfolioProofs              RunLedger (abstract)
      /          |            \                                        ^ implemented by
 TradeBook   LedgerSessions   BacktestEngine                       WeeklyRun
   |  \          |   \            |    \                              |
   | ..Proofs    |  ..Proofs      |   ..Proofs                 OperationsProofs
 MC              MC               MC                                  |
                                                              MC --- Operations
 PortfolioDecision (operators)
      |                \                                DataPlatform --- DataPlatformProofs
 EquitiesPipeline    WorkedCases ---\               BacktestJobs
   |  \                |             \                 |
   | ..Proofs        Calculations    JobsAndCalculationsProofs
 MC
                     WorkedCases extends PortfolioDecision, AnalystWeights,
                     Screening, PointInTime, Scoring and BacktestStatistics;
                     Calculations instantiates RunComparison
```

### The ledger

**Portfolio** holds the arithmetic of the ledger as operators on a *book*: the portfolio
row with its position rows. `Valid`, `NearFullSell` and `Clamp` are `_validate_order` and
the clamp of `submit_order`; `BrokerFills` and `FillPrice` the paper broker; `CashCovers`
the cash gate; `HandleTrade` the four branches of `handle_trade_executed`, composed of
the effect on the position (`PositionAfter`), on the row set (`WithPosition`, which is
`upsert` followed by `delete_if_flat`) and on the portfolio row (`WithTotals`);
`Adjusted` and `Marked` are the other two writers. Quantities count fine units, `Share`
of which make a share, so that fractional positions, the full-exit tolerance and the
whole-share retry are all representable with integers. A price is positive or `NoPrice`,
which stands for None; the code does not check that a quoted price is positive.

**TradeBook** is the ledger one session at a time. `db` is what is committed and `work`
what the open session sees. `submit_order` is one action per way it ends (invalid, not
filled, overdraft, filled, raises), an API request commits or rolls back at once, and a
pipeline session collects orders until it commits or aborts. `orders` and `trades` are
the two tables; `funded` is an auxiliary sum of what was paid in. Quantities are integers of
either sign: neither the API (`trade_execution/api.py:26`), `order.py:14`, `_validate_order`
nor the database refuses one that is not positive. Only the orders of a pipeline are positive,
as `generate_orders` makes them.

**LedgerSessions** is the same ledger under concurrency. Each `await` that touches a
table is a step: reads see the session's own writes and otherwise the committed rows,
computed values wait in `stash`, the `UPDATE` locks its row (`dirty`) and writes only
the columns that changed, `commit` publishes. A session may die anywhere. PostgreSQL's
deadlock detection is `DeadlockVictim`. Here orders ask for positive quantities
(`QuantityAssumption`), which the code does not enforce: the module is about interleavings,
and what other quantities do to a book is `TradeBook`'s subject.

### The weekly run and the jobs around it

**RunLedger** states what the `pipeline_runs` table promises about one branch and day:
attempts open only on top of failed ones, the trading of an attempt ends once and only under
an open row, with its trades booked or, when the database failed it in silence, lost; a
completed day never changes.

**WeeklyRun** is `WeeklyRunner.execute`, process by process, with its three transactions
(`pc` names the point between them), the primary key as the only arbiter of two racing
inserts, kills, commits that fail, commits that succeed without the runner knowing and
transactions that are rolled back without the runner knowing (`TradeLost`, remembered in the
auxiliary `lost`), the operator's recovery and the watchdog's stuck-run check. It is shown to implement
`RunLedger`.

**Operations** puts the three scheduled jobs on one database: the weekly command branch
by branch (`Claim`, the ends of the trading, the mark session from its lock to its commit,
the digest and the exit code), the daily snapshot job (its check, its lock, its mark and
insert) and the watchdog (its four checks on what it read, one issue at a time). Each job
may fail or be killed at each wait, be dispatched again, and overlap the others. Time
counts moments, two to a business day. A NAV is abstracted to the number of trading runs
it has seen, which is what tells a stale number from a fresh one. What happens inside
`execute` is `WeeklyRun`'s subject and one step here.

### The pipeline

**PortfolioDecision** is the deterministic portfolio manager: `CompositeScores`,
`Selected` (targets with the hysteresis for held names), `SizePositions` with its cap and
redistribution, `GenerateOrders` with the skips, the accounting of `order_flow.py` and the
alerts of `risk_checks.py`.

**EquitiesPipeline** is one run: read the portfolio, fill the instrument map (which can
stop halfway), run the agent graph, submit the orders one by one, store the flow and the
alerts. The graph runs in supersteps, as langgraph does; `active`, `finished` and `fired`
are its state. The news analyst depends on a prefetch node and so arrives a superstep
after the other two, which is why the join has a condition (`Triggered`). Inside an
analyst node up to `MaxConcurrent` calls are under way; in a backtest all of them share
the call cap. When at least `RankMin` stocks were screened, an analyst's signals are then
ranked by one more call of its own, which the cap neither limits nor counts (`RankSignals`);
the ranking may be refused, which keeps the scores, or order enough of the stocks. Submissions
end in every way `_execute_trade` knows, including an exception at each point of
`submit_order` and the single retry in whole shares. An error of the database is different
from any other exception: the code swallows it (at the upsert, the analyst weights, a
submission, the signal events, the artifacts), but the transaction is dead (`broken`), no later
statement gets through, and `CloseTransaction`, in which the caller leaves the transaction,
then rolls back every fill of the run without raising.

**Screening**, **Scoring**, **PointInTime**, **AnalystWeights**, **RunComparison** and
**BacktestStatistics** are the pure algorithms, as operators: which universe file a day
uses and both screens; news merging, rule-based scores and the two rankers; the figures
of a company as of a day, from filings that overlap and repeat; weight projection, rank
correlation and the return of last week's decision; the comparison of two saved runs;
drawdown, round trips, the noise floor and the verdicts. **WorkedCases** makes one case
of one of these topics per state, and states what is proved of them: the knowledge of a
day, scores and weights, drawdowns and verdicts. **Calculations** adds the reference
definitions of the rest: screens, answers of the model, news, comparisons, round trips and
calendars.

### Data and backtests

**DataPlatform** is the service with its cache and its rate limiter: concurrent callers,
one lock for all sources, a holder that sleeps with it, adapters tried in order, each
behind the limiter, entries that expire and are evicted. A question has the arguments that
are in its key and those that are not (`detail`): the asset class of prices and the number of
periods of line items (`PartlyKeyed`). `sent` is the auxiliary log of
what each source let through.

**BacktestEngine** is the day loop of `_run_simulation`. `step` names the point inside a
day; the book is `Portfolio`'s, written by the same `HandleTrade` as the live one, because
the code runs the live services over in-memory repositories. `store` is chosen at the
start: every pattern of missing bars of every symbol. What the pipeline wants is any plan
of full exits, partial sells and buys; `Fills` is what the order path and
`BacktestBrokerAdapter` make of an order. `earned` is an auxiliary sum of interest.

**BacktestJobs** is `backtest/api.py`: per run the registry record (`status`, `result`,
`event` for the context's cancellation event), the background task (`task`, `day`) and
the saved `row`. `Advance` is everything the task does between two suspensions. A crash
empties the registry; `Restart` includes the recovery at startup.

Operators named `Bug_X` are wrong variants of `X` that nothing uses; substituting one
for `X` must break the property it is paired with in `PROJECT.json`. A property named for
what it says may be the conjunction of several named parts, each with its comment, such
as `BooksBalance == TypeOK /\ CashIdentity /\ NoStrandedBasis /\ ...`.

## 3. Runs

| Run | Configuration | Question | Answer |
|---|---|---|---|
| `book` | `TradeBook.cfg` | Is a book explained by its history, whatever the history? | yes, for trades of positive quantities (543,117 states) |
| `sessions` | `LedgerSessions.cfg` | What do sessions guarantee, alone and overlapping? | see below (26,858 states) |
| `sessions_overdraft` | `LedgerSessions_Overdraft.cfg` | Does the cash gate hold for concurrent orders? | no |
| `sessions_half_filled` | `LedgerSessions_HalfFilled.cfg` | Are trade and order rolled back when the fill fails? | not in a pipeline session |
| `weekly` | `WeeklyRun.cfg` | Is a day traded once, and is nothing stuck unnoticed? | yes (44,216 states) |
| `weekly_completed` | `WeeklyRun_Completed.cfg` | Are the trades of a completed run durable? | not after a swallowed database error |
| `operations` | `Operations.cfg` | Do digest, snapshots and watchdog tell the truth about each other? | yes (1,745,669 states) |
| `pipeline` | `EquitiesPipeline.cfg` | Does a run decide once, and is every order accounted for? | yes, unless its transaction died (804,056 states) |
| `data` | `DataPlatform.cfg` | What does a source see, and is each question answered? | see below (547,035 states) |
| `backtest` | `BacktestEngine.cfg` | Is a simulated book sound, whatever trades and whatever stops trading? | yes (21,228 states) |
| `jobs` | `BacktestJobs.cfg` | Do record, result and row agree, and does everything end? | yes (2,353 states) |
| `calculations` | `Calculations.cfg` | Do the pure algorithms match their reference definitions? | yes, with the limits below (57,116 states) |

**`book`.** `BooksBalance`: cash is what was paid in, plus realized P&L, less what open
longs cost, plus what open shorts brought (`CashIdentity`); partial closes release exactly
all of the basis (`NoStrandedBasis`); the three writers of NAV and exposure agree as long
as no short is open (`MarkIdentity`, `NavIdentity`). With a short open they do not: a fill
leaves the short side out, a cash adjustment subtracts it, which is why `NavIdentity`
carries its condition. `LedgerExplainsBook` replays the trades table and relates it to the
orders table. `NoOverdraft` excludes histories with a COVER, which the code does not gate;
`NoDustAfterSell` is what the clamp is for. `BooksBalance` and `NoOverdraft` are about views
of the tables whose trades are all of positive quantities (`PositiveTrades`), although the code
accepts others: a SELL of a negative quantity is valid, passes the cash gate, which looks at
purchases only, and costs cash that need not be there. `LedgerExplainsBook` and
`NoDustAfterSell` hold of any quantities.

A consequence the model shows but no property states: `submit_order` persists a REJECTED
row (`service.py:51-53` says so that a rejection leaves a trace), but the API handler turns
it into an `HTTPException`, which leaves the session by an exception and rolls row and
event back. Only the rejections of a pipeline session keep their rows. A commission larger
than the proceeds of a sale would let a SELL overdraw, since only buys are gated; the
default commission is 0, and `CommissionAssumption` states what is needed.

**`sessions`.** Without overlap, every commit is exactly the serial execution of the
session's operations (`CommitIsSerial`), nothing is half applied and the cash gate holds
(`SoundAlone`). With overlap both fail: the services compute absolute values from reads
that nothing locks, so the later of two sessions overwrites the earlier commit (a lost
update, see `portfolio/service.py:303`). What survives overlap is `PositionRowsWhole` (no
position row has units without its row or basis without units) and `SessionsEnd`: the
lock orders conflict, but the deadlock is broken and every session ends.

**`weekly`, `weekly_completed`.** `OneTrader`, `AttemptChain`, `CompletedIsSettled` and
`BookedUnderOwnRow` are about two processes that both read "no row yet"; `FailedHasNoTrades` says when a
retry is safe: a failed row has trades only if the operator flipped it or the
acknowledgement of its trading commit was lost. The second exception is real:
`weekly_runner.py:246` treats any exception of the commit as a rollback.
`ExecuteReturns` and `StuckRunNoticed` are the liveness part.

`completed` does not mean that the trades are there. `weekly_runner.py:16, 173, 245 and 251`
say so, but `run_fn` swallows database errors in the trading session
(`equities/service.py:262, 302, 458, 529`, `adaptive_weights.py:221`). Such an error leaves
the transaction dead; `session.begin()` (`weekly_runner.py:243`) is then left without an
exception, which rolls it back without raising, and line 265 records `completed`. The run
`weekly_completed` shows it. What remains is `CompletedIsSettled`: a completed run has ended
its trading, with all its trades durable or, after such an error only, with none.

**`operations`.** `DigestTruthful`: what the digest says of a branch is durable when it is
said, whichever session failed, and every branch is in it. `SilenceMeansHealth`: a watchdog
that ends well and opens no issue saw no stuck run and no recent critical alert (of branches
that are missing or stale, its other two checks, the property says nothing). `WeeklyRerunHarmless`: a weekly command repeated on a day adds neither a
snapshot nor a run's findings a second time. What the code does not give, and the
properties therefore do not say:

- `completed` in a digest means its row, not durable trades (see `weekly_completed`): the
  trades of a run that completes may all be missing.
- The daily job looks for the day's snapshot before it takes the lock that the weekly
  command looks under, so one day can have two (`take_daily_snapshot.py:4-5` calls the job
  idempotent), and the snapshot endpoint of the API looks at nothing.
- If the mark session of a completed run fails, that run's critical findings reach neither
  the digest nor `risk_alerts`.
- If recording `completed` raises, the row stays `running` with durable trades while the
  digest says failed; the watchdog reports it a day later.
- A critical row is stamped before it is committed, and the watchdog looks back 25 hours,
  so a commit that takes longer than the margin is never seen.
- A failing `gh` call drops the alerts behind it. The pass then exits 1, which is why the
  property is about passes that end well.

**`pipeline`.** `DecidesOnce`: the join fires after all three analysts, once, however
their calls interleave. `CallCapExact`: the cap on the calls for signals is checked and
charged without a wait in between, so no schedule overspends it or leaves a call unspent; what
a rebalance spends beyond the cap is one ranking call for each analyst when there are stocks
enough to rank (`service.py:58-59`), and nothing else. `FlowReconciles`: every order of the plan
is filled, rejected or dropped, and once the transaction is closed the rows kept of the filled
ones explain the change of every position to the unit. Unless the transaction died, each order
counted as filled has such a row; if it died there are none, and the stored flow counts fills
that no longer exist. `StuckExitReported`: a name that left the targets is sold below a share, or
an alert names it, or its sale had been filled when the transaction died: nothing tells of that
one. `order_flow.py:7` describes a dropped order as one that left no row; when `submit_order`
raised after writing, a row is there although the position has not moved, which is why the
property is about filled rows and positions.

**`data`.** `PlatformSound`: a source sees at most a bucket and *twice* the rate, because
a sleep is credited when it ends and again by the next refill, whose clock was read before
it (`rate_limiter.py:25-33`). The sustained rate can thus be double the documented requests
per second; the bound says that it is never more. `BurstBounded` is the same for every
window. Answers fit their questions but for two arguments that the keys leave out: the asset
class of prices (`service.py:34`), although it chooses the adapters (`:39`), and the number of
periods of line items (`service.py:117`). A caller may get the prices of another asset class's
symbol of that name, or another caller's number of periods. `RequestsEnd`: nobody waits for the lock for ever although its holder sleeps with
it. Each failing quote is sent once per asset class that lists the adapter.

**`backtest`.** `CashSound` is the cash identity with interest as a second writer of
cash; `TradesAtLaterOpen` says that fills use the open of a later bar, only on rebalance
days and once per symbol, so a symbol that has stopped trading is never traded again and
stays in the book; `QuietDayAtClose` recomputes the NAV of a day without fills from the
trades alone, with the symbols silent for too long at nothing. On a day with fills the NAV
is what `handle_trade_executed` wrote, cash plus *cost*, and the snapshot is taken
unmarked (`engine.py:210`, against `BACKTESTING-INFRASTRUCTURE.md:785`): a silent position
is back at cost for that day, so returns jump twice. Both properties follow the code where the
repository's words say something else: `BACKTESTING-INFRASTRUCTURE.md:308, 315 and 810` fill
at the historical close of the day, `backtest_broker.py:49` at the open of the symbol's next
bar; and a silent position is liquidated "at the last known price" in the docstring at
`historical_data.py:78-81` and valued at the latest close, however old, in
`BACKTESTING-INFRASTRUCTURE.md:781`, while `engine.py:101-121` values it at zero and keeps it. `SnapshotsArePrefix` and `Finishes`
are about runs that fail or are cancelled.

**`jobs`.** `CancelStops` is what an accepted cancel is good for: no pipeline starts after
it, even when it came before the run had a context to tell. What it does not do is fix the
status: a failing build, a pipeline in progress that then fails, or the last pipeline
finishing overwrite `cancelled` (`api.py:88` looks at nothing, although `api.py:26` and
`BACKTESTING-INFRASTRUCTURE.md:654` list it as a last status). The model does the same and no
property says otherwise. `RecordsSound` ties record, result and row
together; `RunsEnd` says that no accepted run hangs. A crash loses the runs in memory and
the recovery at startup (`main.py:56`) looks for rows that are only written at the end of
a run, so it never finds one; `Restart` does the same.

**`calculations`.** `LookAheadConfined`: universe and figures of a day are what they would be
if nothing later existed, but for two exceptions, both the code's, against the point-in-time
guarantee of `BACKTESTING-INFRASTRUCTURE.md:301`. When no report with holdings is old enough,
the universe is the branch's list as it is today (`provider.py:95-101`), whatever the day; the
property says that it is exactly that list. And a later filing that repeats a period and form
with more values replaces the earlier one for all days, so the figure is missing until the
repeat is filed. `ScoringSound` has three parts. Ranks
follow the scores and do not depend on the order of the stocks; better figures never lower
a rule's score; and `WeightsSound`: analyst weights sum to one, stay above the floor and
move slowly, positions stay within cap and target, baskets average, correlations are
correlations. Slowly means by at most `max_shift`, except that the residual of the rounding
goes to the largest weight, which can then move one rounding unit further than the docstring
of `project_weights` says (`adaptive_weights.py:111-118`); the property allows that unit.
`StatisticsSound`: the one-pass drawdown is the worst fall of any two days and its duration
the longest time without a new peak, a benchmark tracks itself, and two of the probes a
noise floor was made of never differ by a likely signal (with more than three probes: under
the small-sample correction). `SelectionSound`: screens keep whoever is at least as good as
someone kept, a partial answer of the model is not used, each story counts once.
`CountedOnce`: every cell of two runs is counted once and swapping the runs only turns
signs, round trips add up, and a schedule has as many rebalances as it was estimated to.

Reading the code for these operators showed behaviour that a maintainer may not expect
and that the reference definitions follow: a missing volatility counts as zero and passes
the screen, a negative price/earnings ratio counts among the cheapest, a company with
negative equity passes the debt filter; the percentile cut keeps one more stock than its
share; a flat price series has an RSI of 100 and is penalised for it; with five probes two
of them can be called a likely signal; the cost estimate of a weekly backtest that starts on
a weekend counts one rebalance, however long it runs; the drawdown duration counts its
first day.

### Bounds

- `book`: two symbols (rows appear and vanish independently), three orders (enough to
  open, add and close, or to open both sides and close one), quantities -1, 1 and 3 with a
  tolerance of 1 and two units per share (1 against 3 is a partial close whose split rounds;
  3 against 4, which a SELL of -1 makes of 3, is a clamped sell). A quote is 3 or missing, the
  limits are 2 and 3 and a fill slips by 1, so that purchases fill at 4 or at the limit of 3
  and miss the other limit, sales fill at 2 or 3, lots bought at different prices are averaged,
  and a mark differs from the cost. A commission and a margin requirement are both non-zero.
  Cash of 10 is enough for one large purchase or two small ones, so that the gate matters; the
  one withdrawal, of 6, is possible before and after a small purchase. Symbols are symmetric.
- `sessions`: two sessions, one symbol holding 4 and one empty, API orders of quantity 2
  and pipelines of up to two orders, so that a position is reduced, closed and reopened.
  Wait cycles have length two (a session that waits for a position row while holding
  another row holds the portfolio row), so two sessions show every deadlock. The violation
  runs restrict the job kinds only to shorten their counterexamples.
- `weekly`: two runners and two attempts. A third runner or attempt adds no new
  situation to a pairwise race, and the proofs drop both bounds.
- `operations`: two branches (a failure of the first must not spare the second), one kind
  of finding, three moments of a Monday and a Tuesday and two dispatches, so that a job
  can be repeated or meet another one; the run that ends late meets the next day.
- `pipeline`: two stocks of the universe and one that is only held, one target and one
  kept name, a call cap one below what the analysts ask for, two stocks enough to rank
  (`RankMin`; the code's is five) so that signals are ranked and left unranked, one answer of
  the model (the neutral one of a failure and the rankings make the others), two failures of
  any kind among calls, upserts, weights, submissions and records. A position of 5 units at 2 a share makes the
  whole-share retry leave a remainder.
- `data`: two callers (one sleeping, one waiting), three questions asked of five (a quote, two
  symbols' prices, one of them in two asset classes, line items of one length, so that only
  `PlatformIsSound` covers two lengths), a bucket of two tokens, time to the fourth tick, at
  which a bucket that overflows would show, a cache of one answer so that eviction happens, a price
  entry that expires and a fundamentals entry that does not. Ticks go on past the bound
  while somebody sleeps.
- `backtest`: four days with rebalances on the first and third, so that an order can fill
  across a gap, a position can be held through two marks, go silent past `MaxStale` = 1 and
  meet a second rebalance; every subset of missing bars after the first day, for two
  symbols; buys of 2, 3 and 4 with cash for one or two of them and volume for 3, so that
  the gate, the participation limit and the missing next bar all reject; sells of part and
  of all; interest of a fifth per day, large enough to fund a further share. One price pair
  per day, rising and falling. Units are whole shares.
- `jobs`: two runs of three days with pipelines on the first and the last, so that a
  cancel can come before, between and during pipelines and during the last one. Runs share
  only the process, so a third adds nothing; the proofs drop the bounds.
- `calculations`: each topic enumerates its own small inputs (three to six stocks, five
  levels, four trades, three or four probes, all subsets of eight filings), chosen to contain
  ties, missing values, empty inputs and both sides of every threshold. The year and the half
  year of price figures are three and two closes (`YearCloses`, `HalfCloses`; 252 and 126 in the
  code), so that the cut to the last of them matters.
- `MaxOrders`, `MaxFunding`, `MaxAttempts`, `PlanSize`, `MaxFailures`, `MaxAsks`,
  `Horizon` and `Dispatches` cut counters the code does not bound.

### Fairness

- `LedgerSessions`: weak fairness of each session's own steps. A coroutine that can run
  does run; a lock wait ends when the holder does; starting a job is never forced.
- `WeeklyRun`: weak fairness of a runner's steps (the job has a 90 minute timeout, and a
  process that stops is a `Crash`), strong fairness of its `INSERT` (a waiter on a key is
  queued, so others cannot take the key past it for ever), and weak fairness of time and
  of the watchdog, which cron starts. No fairness for operators or for starting a run.
- `DataPlatform`: weak fairness of time and of each caller's steps: the event loop runs
  whoever is ready, a request returns or times out, the clock advances. Nobody has to ask.
- `BacktestEngine`: weak fairness of the loop, which nothing but its own awaits delays.
- `BacktestJobs`: weak fairness of each background task (downloads run under `wait_for`,
  the event loop resumes whoever is ready); none for requests, crashes or restarts.
- `TradeBook`, `EquitiesPipeline`, `Operations` and `Calculations` make no liveness claim.

Deadlock is checked in `book`, `weekly`, `pipeline` and `jobs`. Elsewhere a state
without a successor is an end: all sessions done, the simulation over, the dispatches
used up, the case worked.

### Assumptions

- The operator flips a row to failed only when its process is gone, as the recovery
  instructions say.
- Reads that one function makes back to back are one read where nothing it decides
  depends on the difference (order validation; positions and portfolio in one select).
- A row deleted and inserted again between two statements of one session counts as the
  same row.
- The exchange is the paper broker: it fills at once or not at all.
- Each scheduled job is serial with itself (the concurrency groups of the workflows).
- langgraph runs supersteps: the nodes triggered together run together, and the next step
  starts when all of them are done.
- In a backtest the benchmark trades every day, and symbols have no bars before the first
  day (the lookback only feeds the analysts). The broker's slippage grows with the order's
  share of the volume; the model's is one amount, which no property looks at beyond its
  direction. A day with a bar but no volume is treated as a day without a bar, as in the code.
- A sale brings in at least its commission (`CommissionAssumption`, `SaleAssumption`,
  `BacktestAssumption`): commissions are zero by default and `submit_order` checks the cash of
  purchases only, so a commission above the proceeds could overdraw a branch by a sale.
- In `LedgerSessions` orders ask for positive quantities (`QuantityAssumption`); the code does not
  check it.
- In a pipeline run a held position weighs at least a basis point of the NAV.

## 4. Proofs

Every theorem holds for all values of the constants that satisfy the named assumptions.
No invariant below is inductive alone; what each proof adds is told here.

| Module | Theorems | About |
|---|---|---|
| `OperationsProofs`, about `WeeklyRun` | `TypeCorrect`, `ChainHolds`, `TradesAlone`, `CompletedMeansSettled`, `BooksUnderOwnRow`, `FailedMeansNoTrades`, `Implements` | all safety properties of `weekly` and the refinement of `RunLedger` |
| `OperationsProofs`, about `Operations` | `DigestAlwaysTruthful`, `SilenceAlwaysMeansHealth`, `RerunsAlwaysHarmless` | `DigestTruthful`, `SilenceMeansHealth`, `WeeklyRerunHarmless` |
| `TradeBookProofs` (on `PortfolioProofs`) | `NeverOverdrawn`, `NeverDust`, `BooksAlwaysBalance`, `LedgerAlwaysExplainsBook` | `NoOverdraft`, `NoDustAfterSell`, `BooksBalance`, `LedgerExplainsBook` |
| `LedgerSessionsProofs` (on `PortfolioProofs`) | `RowsStayWhole`, `SoundWhenAlone`, `CommitsAreSerial` | `PositionRowsWhole`, `SoundAlone`, `CommitIsSerial` |
| `EquitiesPipelineProofs` | `DecidesOnceAlways`, `CallCapAlwaysExact`, `FlowAlwaysReconciles`, `StuckExitsAlwaysReported` | `DecidesOnce`, `CallCapExact`, `FlowReconciles`, `StuckExitReported` |
| `BacktestEngineProofs` (on `PortfolioProofs`) | `RecordsAPrefix`, `CashAlwaysSound`, `TradesAlwaysAtLaterOpen`, `QuietDaysAlwaysAtClose` | `SnapshotsArePrefix`, `CashSound`, `TradesAtLaterOpen`, `QuietDayAtClose` |
| `JobsAndCalculationsProofs`, about `BacktestJobs` | `ResultsAgree`, `CancelHonoured` | `RecordsSound`, `CancelStops` |
| `JobsAndCalculationsProofs`, about what a day may know | `LookAheadIsConfined`, on `MetricsIgnoreTheFuture`, `TtmNeedsFourQuarters`, `UniverseIgnoresTheFuture`, `UniverseWasLoaded` | `LookAheadConfined`, and the same for any filings, closes and snapshots |
| `JobsAndCalculationsProofs`, about scores and weights | `ScoringStaysSound`, on `RanksFollow`, `RulesNeverLower` and `WeightsStayBounded`; that on `ProjectionSound`, `BooksWithinLimits`, `BasketAverages`, `CorrelationsBounded` (on `PortfolioProofs`) | `ScoringSound`, and the same for any inputs |
| `JobsAndCalculationsProofs`, about results | `StatisticsStaySound`, on `DrawdownIsWorst`, `BenchmarkTracksItself`, `ProbesStayNoise` | `StatisticsSound`, and the same for any inputs |
| `DataPlatformProofs` | `PlatformIsSound`, `BurstsAlwaysBounded` | `PlatformSound`, `BurstBounded` |

**OperationsProofs, the ledger of one branch (`WeeklyRun`).** The only assumption is `MaxAttempts \in Nat \ {0}`. That two runners
cannot both trade depends on what the row of each says *before* it trades: the
strengthening adds that a runner between its `INSERT` and its commit holds the key of an
attempt with no row, alone, on top of failed attempts only (so the chain survives its
commit), that the owner of an attempt is the only one and its row is `running` (so nobody
else's step can change it), and that a runner in `traded` has its trades booked or lost while the
trades of a runner in `trading` are neither. For the refinement, the barred variables are
`status`, `booked` and `lost` themselves: transaction 1 maps to `Open`, transaction 2 to `Book`
or `Lose`, transaction 3 and the operator to `Complete` and `Fail`, everything else to a stutter.

**OperationsProofs, the three jobs (`Operations`).** `OperationsAssumption` says that the
branch names differ, that the risk metrics are finitely many and that horizon and dispatches
are bounds. What the digest says is decided at moments when the tables may still change, so
the invariant `OInv` holds each job to what it read: a line stays true because a completed
run stays completed, marks are only added and a branch trades in its own turn only (each
branch comes once, `Covered`); between the weekly command's lock and its commit the mark in
hand is of the trades there are, the snapshot it found missing is still missing, and the
rows of findings it is about to add have no like in the table, since a daily job would need
the same lock. `WatchInv` is the watchdog's: whatever it has to tell is raised already, under
an issue of its day, or still on its list; `ensure_issue` moves a subject from the one to the
other, and the pass ends well with an empty list only. Time may pass meanwhile, which only
makes the days of an issue more. Both were checked as invariants of the `operations` instance
before they were proved.

**PortfolioProofs** holds the facts about books that three proofs rest on. The totals of a
book are sums over its positions, by the folds of the community modules. What a proof needs
of a sum (it takes its terms one by one, in any order; changing one term changes the sum by
the difference; terms that are zero do not count) follows from the definition of the fold
by smallest counterexample: among the subsets that violate a statement one has no smaller
such subset (`SmallestSet`, from the well-foundedness of strict inclusion on finite sets).
On that rest `PositionWritten`, `TotalsWritten` and `TradeBalances`: `handle_trade_executed`
applied to a balanced book gives a balanced book, cash moves by what the trade costs or
brings, and no other position is touched. The average-cost share of a partial close is a
division; that the whole position's share is the whole basis (`ShareOfPart`) is what leaves
no basis behind.

**TradeBookProofs.** The invariants speak of both views of the tables, because an aborted
pipeline puts back the committed one; they say that the two are equal while no pipeline is
open and that the open one has the longer trades table, so that a step that adds a trade
must be a fill. Whether all trades are of positive quantities is kept by every step but one
that adds a trade, so what the balance and the cash need is assumed of a view and used of the
view before. `BooksBalance` is inductive once each view is. `LedgerExplainsBook` adds that
trades name orders that exist, so that the number of the next order is new and its trade is
its only one, that what is filled grows by one term with each trade, and that before the
book is opened there are none. `NeverOverdrawn` needs `CommissionAssumption`.

**LedgerSessionsProofs** has two invariants. `WholeInv` is about any number of overlapping
sessions, whose updates may be lost. What a session sees is sound when the committed rows
and its own copies are. A column-wise update takes each column either from the row as it is
now or from what the session computed earlier, so units stay natural although the two may
come from different histories, and what is then written is either flat and removed or has
units and a row. What each session has in hand (a proper request, computed units, a
portfolio update without positions) is the rest of it. `AloneInv` is about the time until
two sessions have been open at once. The open session then sees the committed book with its
own operations done to it (`Done`, a replay by a fold, of which the proof needs that an
appended operation is done last); and what it has read or computed some awaits ago (the
clamped quantity, the payable trade, the new position, the lookup of the row, the pending
totals) is what `Done` would give now. In the states between the two flushes what it sees
is `Done` with the new position only, and the pending totals are the difference to
`HandleTrade` of `Done`. So a trade past the gate neither raises nor overdraws, each flush
of the portfolio row completes one operation, and a commit publishes the replay.
`SoundWhenAlone` and `CommitsAreSerial` need `SaleAssumption`, which is `TradeBook`'s
`CommissionAssumption` for this module's prices. The runs `sessions_half_filled` and `sessions_overdraft` show
that the restriction to sessions that do not overlap is not the proof's but the code's.

**EquitiesPipelineProofs** follows the supersteps: which nodes run together, which
analysts have reported, and that an analyst that has reported has a signal for every
screened stock and no call under way. The join fires in the one superstep at whose end
all three have. For the call cap, a stock is met by an analyst when its call begins or when
the cap answers in its place; the calls made are as many as the stocks met until they reach
the cap. Ranking calls touch neither count; an analyst makes its own before it reports, if there
is enough to rank, and none is made before the stocks are screened (`RankedOnce`). For the
order flow, the decision is followed from the signals to the plan: the
ranking gives each name one place, the ten rounds of the weight cap leave natural weights,
and the diff against the holdings makes at most one order for a name, sells whatever is
held and not wanted or reports why it does not (`ExitsSound`). From then on every fill has
its row (`Recorded`), the rows counted as filled move the positions (`Explained`), and a
finished run's counts are the cardinalities of a partition of the orders by how they ended.
What a dead transaction takes back is what `Explained` starts from (`RolledBackBooked`), while
`Recorded` and the exits are about runs that still stand (`Stands`). The exits
depend on one assumption: a held position weighs at least a basis point of the NAV, the
grain of the model's weights; the code's are floats.

**BacktestEngineProofs** is layered. `IInv` is about days and lists alone: a run that fails
or is cancelled stops at its mark or at its decision, and trades of a day exist only from
the execution step on, so a day without a snapshot has no trades either. `CashKept` adds the
book: it balances with the starting cash and the interest, it is long only, and the gate
holds it above zero, given that a sale brings in its commission (`BacktestAssumption`; the
backtest charges none, app/modules/backtest/config.py). `OrdersKept` adds that the orders in
hand are for different symbols not yet traded today, so that each trade is the only one of
its symbol and day, at an open found after its day. `MarksKept` adds that the positions are
what the trades add up to and that, from the mark on, a day without fills keeps its NAV.

**JobsAndCalculationsProofs, the jobs.** `JobsAssumption`. That a task which resumes from a pipeline
does not start another depends on the event, so the invariant says that during a pipeline
the event is set exactly when the record says `cancelled`, and that before there is a
context the record is `running` or `cancelled` and nothing else has been written.

**JobsAndCalculationsProofs, what a day may know.** The theorems about any input come first;
`LookAheadIsConfined` says of the cases tried that each is such an input. Of the filings that
repeat a period one is kept, which depends on filings to come. The step that carries the rest
is `KeptAsOf`: those kept of all the filings, as far as they are public on a day, are those kept
of the public ones, unless a later filing with more figures replaced a public one (`Replaced`,
the case the property excludes). On that day the two lists of filings are therefore equal, in
the order of their dates, and so is what is picked from them: the latest value, the earnings a
year apart, and the twelve months, which are a walk over the list from its end (`Walk`). The
walk is a fold, of which the proof needs that it exists and takes one quarter after the other;
it follows from the library's definition by smallest counterexample. It takes four quarters or
none (`TtmNeedsFourQuarters`). That theorem assumes that a company
files for a period at most once a day (`OneADay`), so that the list has one order. The universe
is chosen by the greatest date not after the day, so later snapshots cannot matter
(`UniverseOfTheReport`); without one that has holdings it is the branch's list as it is now, and
`UniverseIgnoresTheFuture` says so.

**JobsAndCalculationsProofs, the weights.** All sums are the community modules' folds, and the
lemmas say what a sum of a combination, of a multiple, of a part and of rounded-down shares
is. `ProjectionSound` follows `project_weights`: clipping puts each share between its bounds;
redistribution takes what is missing from the rooms in proportion, so that over a common
denominator the shares are exact and between their bounds; rounding changes each of the three
by at most half a unit, so the residual is -1, 0 or 1, and the analyst with the largest weight
can take it: if the three make more than one, the largest is above the floor. `BooksWithinLimits` follows `size_positions`: a round puts the names above the
cap at the cap and shares out what they lose, rounded down; a name at the cap stays there,
so after n rounds no name is above it or n names are at it (`RoundTaken`). The code makes ten
rounds, after which a name above the cap would be an eleventh next to ten at the cap. The
theorem's hypothesis excludes that: the book has at most ten names, or eleven times the cap
is more than the capital (true of the defaults, a cap of a half and thirty names). With a
smaller cap and more names the code's ten rounds are not shown to be enough. `CorrelationsBounded` is the inequality of
Cauchy and Schwarz for sums of integers.

**JobsAndCalculationsProofs, the scores.** Stocks that score the same get the mean of the
deciles of their places, rounded. `RanksFollow` says, for any universe, that this keeps the
order: deciles go down along the places (`DecilesFall`), so the mean of a group lies between
the deciles of its first and its last place (`ShareBetween`), and the group of a higher score
takes places before that of a lower one. Only the sizes of the groups enter the formula, so
the order in which the stocks come cannot matter. `RulesNeverLower` compares the rules case
by case; every score is what is clipped of an amount that does not fall when a figure rises.

**JobsAndCalculationsProofs, the results.** `DrawdownIsWorst` is about levels of any number of
days. The pass over them is a function defined by recursion, of which the proof needs that
it exists and goes from one day to the next (`HistoryExists`, by smallest counterexample).
What it has after a day is right about the days so far (`SoFar`): the peak is the greatest
level, the worst fall is over every other and was seen, the days counted are those since the
last new peak, and the longest count is that of a stretch without one. A new day can only make
a worse fall from the peak, since a fall to the same level from a lower one is less
(`LowerFallsLess`); of falls only the order is used, that of fractions with positive
denominators. `BenchmarkTracksItself` rests on a common factor cancelling in a division that
rounds down. `ProbesStayNoise` is an inequality about the spread of n values, n times the sum
of their squares less the square of their sum: replacing two of the values by their mean
leaves the sum and lowers the sum of the squares by half the square of their difference, and
a spread is never negative, so n times that square is at most twice the spread
(`DifferenceInSpread`). For three probes, or four with the correction, that is below the
threshold of a likely signal. It says nothing of five, for which it is false.

**DataPlatformProofs.** The rate bound is an account kept for every source: the ticks its
requests paid for and the ticks in its bucket never exceed a full bucket, the time of the
last refill and the time now. A refill moves time into the bucket; a wake-up pays a
request with time that has passed since the refill, which the next refill counts again:
hence "last plus now", and hence twice the rate. While the holder of the lock sleeps the
account is tighter by what it sleeps for, which is what lets it wake. The bound on a burst
is the same account opened again at every request: what was let through since, and what is
in the bucket, is covered by a full bucket, one token and the time since, counted twice up
to the last refill. A request that was slept for may come after the last refill, where that
account does not start; it is then the last request and the bucket is empty. That each
answer fits its question follows from every entry being kept under the key of its question.

Two definitions are written for the prover: `EquitiesPipeline` sorts by the place each
element takes (`Sorted`) and not by the library's sort, whose definition the prover does not
know; and a run's signals are read off the screened stocks in order (`HandedIn`).

Model-checked only:

- Liveness, everywhere: fairness is out of the prover's reach here.
- `SelectionSound` and `CountedOnce` of `calculations`: their operators filter and sort
  sequences, by library definitions that are recursive and that the prover does not know.
- The three expected violations, which are counterexamples and not theorems.

## 5. What is not modelled

- Prompts, parsing of the models' texts, provider clients, report formatting: no state.
- External adapters and HTTP clients: their failures appear as failing adapters, missing
  prices and missing figures.
- `upsert_instrument`: it checks and then inserts, and its unique key does not apply while
  the exchange is NULL, so two requests in the same instant can leave two rows, after
  which every later upsert of the symbol raises.
- Concurrent API triggers of one branch in one process, which share the service object and
  its `branch_name` (`equities/service.py:197`), and the in-memory change of the
  configuration during a run (`equities/api.py:42`).
- The attribution pass of the weekly command writes a table of its own; only what it
  computes is modelled (`AnalystWeights`).
- Hydration of the screener from the data sources, the loading of backtest prices, the two
  SQLite stores of LLM answers, the event log, dependency injection.
- Annualised ratios and regressions: real arithmetic.
- `STOP` orders: the code treats them as market orders.
- Floating point: the ledger's numbers are rounded by the database to fixed decimals, and
  the model uses integers with one explicit rounding, the average-cost split.
- Memory: finished backtest runs are never evicted from the registry (`backtest/api.py:39`).

## 6. Plan

Done: all modules of section 2.

Next, most important first:

1. `RequestsShareOneService`: the singleton equities service under several API triggers.
2. A conflict-serialisable variant of `LedgerSessions` (`SELECT ... FOR UPDATE` in the
   repository) to show that it restores `SoundAlone` with overlap, should the code adopt it.
