# TLA+ verification of quant_platform

`quant_platform` is a research and paper-trading platform: market data and
news are read as of a date, agents of a language model build and attack a
thesis, the resulting prediction snapshot is frozen, portfolios are built from
it, back-tested, walked forward, and - on a human's order - executed on an IBKR
paper account. This directory holds TLA+ models of the parts that keep state
across steps, processes or runs, the TLC configurations that check them on
small instances, and TLAPS proofs of their main invariants for every instance.

File names below are relative to `src/src/quant_platform/`.

## Inventory

| Component | State it keeps | Operations, and who calls them | What makes it correct |
|---|---|---|---|
| Paper execution: `execution/pipeline.py`, `ledger.py`, `kill_switch.py`, `ibkr_paper.py`, `cli/paper.py` | `ledger.jsonl`, the kill-switch file, the account at the broker; per run: intents, seen keys, turnover, open-order count, position values | `paper execute` builds delta intents from a frozen target, checks each, submits it, polls for an outcome, appends it to the ledger; a human engages the switch; the broker fills and cancels | an order twice only where a record is lost or a connection breaks, limits kept, the switch stops, outcomes true, a run ends |
| Model gateway: `models/kimi.py`, `models/provider.py`; orchestrator: `agents/orchestrator.py` | run tracker, daily usage file and its temporary file, response cache on disk; semaphore, outcomes | `complete()`, called by evidence extraction one call at a time and by the orchestrator concurrently; `run(tasks)` | budgets, complete books, no stored answer paid for again, failures isolated |
| Walk-forward: `backtest/walkforward.py`, `cli/backtest.py` | `state.json`, `result.json`, `equity.parquet` | `backtest walk-forward`, `backtest resume`; its `rebalance_dates` | a resumed walk equals an uninterrupted one; one last session per period |
| News: `data/newscatcher.py`, `research/news_intel.py`, steps 3a-3c of `research_runtime.py` | page cache on disk, counts of calls and articles, what was collected | query plan, date chunks, paging, deduplication, ranking, the walls at the cutoff | budgets, no page that is not an answer, no story lost |
| Market data: `data/bloomberg_desktop.py`, `data/barstore.py`, `cli/bloomberg.py` | the session and its event queue; one parquet file per ticker, the manifest and its temporary file | `bloomberg sync`, cache-first reads of research, backtest and evaluation | an answer belongs to its request; which days can be lost, and which gaps a read can leave |
| Decision: `research/thesis.py`, `components.py`, `validation.py`, `scoring.py`, `ranking.py`, `mapping.py`, `signals/engine.py`, `portfolio/builders.py`, `risk.py` | none beyond one run | steps 4 to 7 of a research run, composed also by the demo and the walk | only what was vetted is bought; the limits hold after the last step; cash is never an accident |
| Research run: `research_runtime.py`, `core/gatekeeper.py`, `data/repository.py`, `snapshots/freeze.py`, `core/store.py`, `cli/research.py` | the artifacts of a run, the gate of the test window, the open model client | `research run` | decide blindly, freeze, then look; failures leave nothing open |
| Outcome: `backtest/engine.py`, `backtest/metrics.py`, `analysis/failure.py`, `evaluation.py`, `cli/evaluate.py` | saved results | the backtest inside a research run, `evaluate snapshot` of what was frozen | bought after the decision; the money adds up |
| Position reconciliation, agent registry and prompts, mock provider, evidence extraction, retrieval, features, attribution, export reader and table validation, audit log, dashboard, demo, other commands | none that is read back to decide | - | - |

Components interact through files (`ledger.jsonl`, kill switch, usage files,
response and page caches, parquet files, `state.json`, artifacts), through awaits
inside one process (orchestrator and gateway), and with outside systems: the
IBKR account, the model gateway, the NewsCatcher service, the Bloomberg terminal.
Where it is hard: two CLI processes on one file; a process that dies between
an effect and its record, or inside a write; checks before an await and bookings
after it; an order, or a request, that outlives the wait for it; caches that age;
midnight; data that grows between a run and its resume or its evaluation; a
chain of stages each of which may come back empty. `PROJECT.json` lists these
hazards at their lines with the properties that cover them.

## Modules

    OrderPromise   <- PaperExecution <- PaperExecution_proofs  and Sums
                                     <- MCPaperExecution       4 configurations
                      KimiGateway    <- KimiGateway_proofs     and Sums
                                     <- MCKimiGateway          1 configuration
    Walk           <- WalkForward    <- WalkForward_proofs     and Sums
                                     <- MCWalkForward          2 configurations
    NewsIntel      <- NewsFeed       <- NewsFeed_proofs
                                     <- MCNewsFeed             1 configuration
                      MarketCache    <- MarketCache_proofs
                                     <- MCMarketCache          1 configuration
                      Decisions      <- Decisions_proofs       and Sums
                                     <- MCDecisions            1 configuration
    Backtest       <- ResearchRun    <- ResearchRun_proofs
                                     <- MCResearchRun          2 configurations

Left of an arrow is what the module to its right extends or instantiates; `Sums` holds
lemmas about sums and folds that four of the proof modules extend. Three
modules divide one research run between them: `ResearchRun` has its order, its
files, its failures and its backtest, with the news found or not and the book
any of a set; `NewsFeed` is what happens inside its news steps; `Decisions` is
what happens between the news and the book.

The MC modules give CONSTANTS their values and hold the claims of the
repository's documentation that a "violation" run refutes. Operators marked
`Variant` are plausible wrong versions of the definition that follows; nothing
uses them except to show that a property would notice the difference.

### PaperExecution

One trading day of `paper execute`. `pc` says where each process is in
`execute()`/`run_pipeline`: `Connect` (the client id is free at the gateway),
`ReadAccount` (snapshot, account values and positions; `AccountUnread` when the
connection is lost first), `BlockedByKillSwitch`/`NoPrices`/`Prepare` (delta
intents and the keys of the ledger), then for each intent, in ticker order,
`Rejected` or `Approved` (the whole `pre_trade_check`: all limits, kill switch,
duplicate key), `EnsureConnected`, `SubmitRaises` or `Place` (once the contract
is qualified), `Report` (the outcome read from whatever status the client then
sees) or `MonitorRaises`, `Record` (the ledger line), `Finish`. Whatever
`submit_and_monitor` raises becomes a REJECTED order without a broker's id:
before `placeOrder` nothing was sent, after it (`MonitorRaises`) the order goes
on at the broker. `link` is the connection to TWS: `Drop` loses it at any
moment, the process notices at its next submission and connects again, if no
other process has taken the client id in between. It goes on with the keys and
positions it read over the `first` connection; what it sends is marked `again`.
`Crash` may hit anywhere, also in the middle of a ledger append, which leaves a
partial line (`torn`) that swallows the next record. `orders` and `held` are
the broker's; `Fill`, `RequestCancel`, `Cancelled`, `BrokerRejects` happen
whenever the broker likes. `ledger` is the set of keys on readable lines;
`engaged` is the kill-switch file. An order carries where its record stands
(`inflight`, `recorded`, `dropped`, `fused`) and what happened to its connection
(`again`, `cut`), which no code stores: they let the properties say why a key is missing.

`OrderPromise` is the abstract specification of the ledger: a content key is
sent at most once at a time; once remembered, never sent again. `PaperExecution`
implements it with `sent` and `remembered` read from the records of the orders
whose connection held.

Abstractions: money and shares are whole units, weights percentages; targets
are frozen inputs; prices, net liquidation, daily P&L and ages are read at the
start of a run, as in the code; that two processes never hold one client id at
a time is TWS's doing (external); `Views` is what the client may believe of an order
it has not heard of lately. Not modelled: the exit of a snapshot that is all
cash, the mock broker, read-only commands.

### KimiGateway

Research runs (processes) whose calls go in batches: extraction calls alone, then
agents concurrently under the semaphore. `Hit`, `Refused`, `Post`, `AttemptFails`,
`GatewayRejects`, `Unparsable`, `Answered` are the ways through
`complete()` up to the answer; code between two awaits is one step. Booking
never awaits, so it occupies the process (`desk`), but its file operations -
`ReadUsage`, `WriteTmp`, `Replace`, `Keep` (which stores the answer, or
swallows the error of a file that cannot be written), or `ReplaceFails` when
another process has taken the temporary file - interleave with other processes.
`Midnight` moves `today`; `Crash` ends a run anywhere. `fate` tells what became
of each paid answer; no code stores it.

Abstractions: which slot of the semaphore comes next is nondeterministic (the
code is first come first served, so this has more behaviours); the in-memory
cache is left out because no run asks a key twice; the temporary file is
written in one step; a request that timed out but was billed is not visible to
the code and not modelled.

### WalkForward

One walk, started and resumed by processes one after the other. `Start` reads
the price data's sessions and the checkpoint; `Skip`, `Research`, `Complete`
treat the next rebalance date; `Publish` writes the result; `Stop` is a kill or
any of the exceptions; `Grow` adds a session to the data. A position, a balance
and an equity value are represented by the snapshot they come from: the model
keeps whose targets are held on which day and leaves the amounts out.
`RebalanceDates`, `IsEntry`, `ExitDate`, `Tradable` and `Drift` are the
calendar and feasibility arithmetic of `run_walkforward`, on real sets of
sessions. `state.splits` stands for the three parallel collections of
`state.json` (`splits`, `snapshot_ids`, `split_results`), which are always
saved together.

`Walk` is the abstract specification of the record: segments are added one at a
time, in time order and disjoint, each from the holdings the one before left.

Not modelled: a ticker without a price at the entry session (NaN passes the
`equity_at_entry <= 0` check and spreads over the rest of the curve); two
resumes at the same time; a changed configuration between runs; data that is
backfilled inside its range; rewriting of `result.json`, which is not atomic.

### NewsIntel and NewsFeed

`NewsIntel` is the deterministic part: `Plan` (one query per ticker, per sector
present and per theme), `ChunkEnd`, `Representatives` of duplicate clusters,
`Score` and `Rankings`, the records of the two sources, `VisibleAtCutoff` and
`CrossSourceDedup`. An instant is a half-day, so that an article of the as-of day
is before or after the decision time. How two articles are found to tell one
story (ids, URLs, titles) is a given relation, `Cluster`.

`NewsFeed` is any number of runs on one cache directory. `Start` begins the
plan; for each page `CacheHit`, `RefuseCall` (call budget), `PostFails` (an attempt),
`PostRejected`, `PostAnswers` (which truncates the cache file) and `WriteCache`;
`TakePage` and `Finished` are the paging and the step to the next chunk or
query, `SkipSearch` the spent article budget; `Select` is deduplication, ranking
and the wall at the cutoff; `Combine` merges the exported news. A run `Die`s
anywhere; a file being written stays torn, and a torn file is a miss. `Tick` moves
the clock, which makes recent pages stale. `whole`, `closed` and `posts` are
history the code does not keep: the chunks searched on pages retrieved after
their window had closed, and the requests sent.

Kept as in the code and worth knowing: a page fetched while its window was open
becomes permanent once the window is old enough, because an old window's page is
never stale whenever it was fetched (newscatcher.py:259-262); failed
and retried requests are not counted against the call budget; the ranking's
middle tier is never reached, nor its limit; an exported item is visible from
the start of its day.

### MarketCache

Processes that run `bloomberg sync` or a cache-first read, each with its own
terminal session, on one store. `Begin` picks the command and window; `Look`
finds the tickers that are not covered (`Covers`: first and last stored day
with their slack); `Send` opens or reuses the session and sends a chunk;
`Answer` is the terminal's, in order, whole, cut short or an error; `Receive`
collects events until the last; `Timeout` drops the session with all that may
still come on it and tries again or gives up; then per ticker `ReadOld`,
`Truncate` (the file is emptied, and its rows with it), `Flush` (the merge is
written in place), `UpdateManifest`, `Replace`
(one temporary file for all processes); `Serve` reads the window back. A sync
asks one ticker at a time and goes on after a failure. `stored`, `cut` and `raced` are
history: what was ever written for a ticker, tickers whose file was emptied by a
process that then died, and tickers whose file a process overwrote without
having read what it held. A request may also fail on an open session.

Not modelled: the values of bars, so a split adjustment that mixes two bases in
one file is not visible; `get_reference` and `diagnose`, which store nothing.
The write of the temporary manifest is one step. A torn parquet file makes every
later command on its ticker raise, also the sync that could repair it.

### Decisions

One pass from evidence to a portfolio, in fixed-point numbers: `AskMacro`, then
per sector `Argue` (specialists, each of whom may fail), `Debate` (bull, bear,
leakage), `Judge` (status, components, composite), then `Check` (tradability),
`BuildSignals`, `Build` (eight strategies) and `ApplyRiskConstraints`. The risk
limits are operators composed in the code's order: `NoShorts`, `Liquid`,
`Largest`, `TickerCapped`, `SectorCapped`, `GrossCapped`, `NetCapped`, and
`AtVolTarget` for each of three volatility estimates. Shared companies are
scored once per sector and bought once, at their best signal. `signals` is the set
of the actionable ones, each with its place (`at`) in the code's list, which
decides between equal scores. A universe without sectors goes straight to `Check`.

Kept as in the code and worth knowing: a leakage agent that fails counts as one
that found nothing (validation.py:72); leaving out a missing risk component
raises the composite (scoring.py:73-80); a company's factor is the last one any of
its sectors measured, and one half where none did, which is three quarters of
its sector's composite, where a docstring says it keeps it (signals/engine.py:64); `long_short` never shorts,
because no signal to avoid is actionable; the volatility is estimated
from the history of returns, also where a realised volatility is missing, else
from the realised ones, and the target is not applied when neither is there; the limit of positions (15) is wider than
what any builder buys (10).

### Backtest and ResearchRun

`Backtest` has the pure functions: `RunBacktest` (entry day, what has a price,
cash, costs, money per day, drawdown, class of failure) and `EvaluateSnapshot`.
`ResearchRun` is runs and evaluations on one data directory: `Start` fetches the
whole history, the future with it; `ReadVisible` is the repository's clamp and
filter; `SaveFeatures`, `GatherNews` (which opens the model client), `Decide`,
`Freeze` (file truncated, then written, in place), `OpenTestWindow` (the gate
verifies whatever snapshot of this id is on disk), `Backtested`, `Close`,
`SaveManifest`; `Raise` in every phase, `Die` anywhere; either one inside a
write leaves a torn file (`TornOrKept`). Ids are the as-of date and the second of the start, so two runs can have
the same one. `Load` and `Evaluate` are `evaluate snapshot`; `NewSession` adds a
day to the source.

Kept as in the code and worth knowing: with equal ids the second freeze
overwrites the first run's file, and the first run's gate opens on it; the
snapshot hashes the features file as it is on disk, not as it was read; the
tradability loop catches only validation errors, so a source that raises there
ends a run after its model calls were paid (research_runtime.py:557-561); the
momentum baseline is never computed, since its prices are cut at the start of the test window;
`evaluation.py:94` may buy later than the entry date it reports; `run_backtest`
delays by calendar days, the evaluation by sessions.

Left out: interest, borrow, Sharpe and Sortino ratios, horizons, both baselines.

## Runs

| Run | Distinct states | What it shows |
|---|---|---|
| `exec_runs` | 346 thousand, with symmetry | orders repeated only after a lost record or a broken connection; outcomes true; the ledger keeps `OrderPromise` |
| `exec_gate` | 39 thousand | kill switch, turnover within a run, a run ends |
| `gateway` | 56 thousand | budgets, books, no stored answer paid for again, every run ends |
| `walk` | 35 thousand | resumed walks, complete and disjoint segments, refinement of `Walk` |
| `news` | 118 thousand | budgets, truthful pages, complete chunks, no story lost, gatherings end |
| `market` | 210 thousand | answers to their tickers, where gaps are, how days can be lost, commands end |
| `decisions` | 711 thousand | only vetted holdings, limits, no accidental cash |
| `research` | 147 thousand | outcomes follow decisions, clients closed |
| `exec_crash_duplicate`, `exec_kill_switch`, `walk_repaid`, `research_unbought` | - | refuted by TLC, see Findings |

`exec_runs`: two processes with one client id, two runs, the target renewed from
Monday to Tuesday, one ticker, one crash, one lost connection. Two targets make
one content key occur again and another appear; two runs are the least that
repeat an order, whether after a crash or because one connection was lost and
the other process took the client id; with both failures each can befall either
run. A third run would only show the repetition after a fused record, which the
proofs cover.

`exec_gate`: one run with two tickers, limits so tight that every rejection
reason occurs, missing prices and account values, dry runs, the switch thrown
and released, one crash, one lost connection. These limits are per run, so one
run is enough.

`gateway`: two runs of three calls over two days, two attempts per call, two
slots, answers of cost one, both budgets one. A run that pays for its extraction
has reached both budgets; a run that finds it cached on the next day has not, so
both its agents pass the check together and the bounds of `RunSpendBounded` and
`DaySpendBounded` are met exactly. Two runs are the least that race on the usage
file and share a cached extraction.

`walk`: weekly and monthly walks over seven days, delays of one and two days,
three histories (complete, ending inside a week, with holidays), two stops. Four
weeks give three segments, so that the middle one has a segment before it and
one after; two stops allow a walk to be interrupted, resumed and interrupted again.

`news`: two runs with one plan - a company query and a sector query of two
chunks that overlap - over a day and a half, so that the second can find the first's pages fresh,
stale, torn or absent and the window of the as-of day open or closed. Five articles: two copies of one story on either side of
the cutoff, one story with an export, one unreadable article, one of the day
before. Three articles to a page make the company query need two pages; four
articles and two calls make both budgets run out.

`market`: two processes, two commands in all, two tickers of which one is listed
late, windows of one day and of five, one retry, chunks of two. Slack is scaled
to one day at each end. Two commands are the least for a race, for a second
sync beside a first, and for a read after a sync; a chunk of two makes an answer come in two
events.

`decisions`: two sectors that share a company and a fund, one company without
features, agents who agree, object or fail, every builder, every estimate of
volatility; limits at which each of the caps binds in some behaviour.

`research`: two runs that start in the same second (one id), one evaluation, a
company with a missing price on the day it would be bought, a candidate outside
the run's tickers, one new session during the runs.

Runs, crashes, stops, switches, commands, days and instants are bounded by
`MaxRuns`, `MaxCrashes`, `MaxDrops`, `MaxStops`, `MaxSwitches`, `MaxStarts`, `NumDays`,
`MaxDay` and `MaxInstant`, so the systems stop: the configurations do not check
deadlock. That a walk, a run or a call does not stop halfway is what the liveness
properties say where the code promises it.

## Fairness

`PaperExecution!FairSpec`: weak fairness of each process's own steps, except
while it waits for TWS about the account or a contract: those requests
(ibkr_paper.py:82-88, 104; qualifyContracts, 165) have no timeout, and TWS may leave them unanswered for ever. `RunsEnd`
names that exception (`Awaiting`); the poll loop after `placeOrder` has a
deadline and file operations return, so that every other wait is bounded.
Nothing is assumed of the broker, the human, the connection or crashes.

`KimiGateway!FairSpec`: weak fairness of each run's steps. The event loop runs
what is ready, the HTTP client has a timeout and attempts are bounded, so
a posted call ends. Nothing is assumed about which way it ends.

`NewsFeed!FairSpec`: weak fairness of the steps of a started run: one process,
one await at a time, each with the client's timeout. Neither the clock nor the
service is assumed to do anything.

`MarketCache!FairSpec`: weak fairness of the steps of a process; `nextEvent`
returns within its timeout, with or without an event. Terminals may be silent for ever.

`ResearchRun!FairSpec`: weak fairness of the steps of a started run; nothing
makes a run start, and nothing is assumed of evaluations or new sessions.

WalkForward and Decisions state no liveness: a walk advances only when somebody
starts it, and a decision is one pass of a finite program.

## Proofs

All safety properties that the runs check, invariants and action properties,
and both refinements are theorems. They hold for every value of the constants
that satisfies the named assumptions (`ExecutionAssumption`, `GatewayAssumption`,
`WalkAssumption`, `WindowAssumption`, `ArticleAssumption`, `FeedAssumption`,
`PlanAssumption`, `MarketAssumption`, `DayAssumption`, `DecisionAssumption`,
`UniverseAssumption`, `BacktestAssumption`, `ResearchAssumption`); TLC evaluates
them on the runs. Most say no more than the kinds of the constants. Those that
say more: `PlanAssumption`, that a run has a query; `MarketAssumption`, that the
universe names each ticker once, as `sync_universe` makes it;
`DecisionAssumption`, that the weights of the score add up to one, as
`ScoringConfig` demands (scoring.py:32), and that a book has no more lines than half the units a weight is
counted in: the code buys at most ten, so that an equal share, even halved, does
not round to nothing. Two further hypotheses, `SharedClient` and `KeysInBlocks`,
are stated in the theorems that need them; see below.

Sums: a fold of the community modules is a sum over a finite set, and a sum
depends only on its entries, grows by an entry that is added, is monotone, and
scales. TLAPS cannot instantiate the library's induction theorems, whose
parameter is an operator; the induction is done by a smallest counterexample
instead (`Smallest`): the set of the subsets where a fact fails is a set, and
has a minimal member because strict inclusion is well founded on the subsets of
a finite set.

PaperExecution_proofs:

* `TypeCorrect`: `TypeInv` adds to `TypeOK` that a process that is submitting
  points at an order of its own (`CursorOK`), without which writing the outcome
  into `orders` could leave its domain.
* `KillSwitchHalts`: `SlipInv` - a process that has placed an order since the
  switch was engaged is past its submission; so a second needs another check,
  which fails.
* `DuplicateNeedsLoss`: `SessionInv` (with one client id only one process is
  connected at a time; one that still has its first connection has seen the key
  of every recorded order whose connection held, because nobody else can have
  sent one since) and `RecordsInv` (a recorded key is in the ledger, an order in
  flight belongs to a process) make the duplicate check see every remembered
  key. `SessionFrame` is the argument for the steps of other processes: one that
  adds an order is connected, so nobody else is on a first connection. The
  theorem assumes `SharedClient`: with different client ids two processes may
  submit the same key, which is why the gateway's client id is part of the design.
* `ImplementsPromise`: every step of the specification is `Send`, `Remember`,
  `Forget` or a stutter of `OrderPromise`, from the same invariant.
* `FinalOutcomes`: `OutcomeInv` ties each outcome reported on the broker's word
  to the fills at the broker, over every stale view the client may have. Orders
  whose submission raised are excluded by what the run's result shows of them,
  the missing broker id.
* `TurnoverBounded`: the invariant `LimitsInv`. A run's books count at least what
  it has sent plus what is approved and not sent yet (`BooksOK`), runs have
  different numbers (`RunsApart`), so that no other process adds to a run's
  orders, and what a process that is gone has sent stays within the limit
  (`WithinLimits`).
* `SettledConverges`, for one client id: the invariant `SettledInv`. As long as
  every run began settled and sent nothing over a re-established connection,
  each working order leads its ticker to an end - the first position or a count
  of shares nearest to a target - and no two work on one ticker; each intent not
  yet sent leads to one too (`Pending`) and nothing that works can move its
  ticker. Why an intent leads to an end is arithmetic:
  a quotient moves by the multiple of the divisor that is added (`QuotientShift`),
  so rounding the difference from a position is the difference from the rounded
  target. At a tie a sale and a purchase round to different counts, and the
  property allows both.

KimiGateway_proofs:

* `TypeCorrect`.
* `RunSpend`: the invariant `Within(r)` - no more calls in flight than slots, and
  spent plus what the posted calls may still cost is at most
  `RunBudget - 1 + MaxConcurrency * CallCost` - holds when a call is posted because
  the check saw less than the budget, and an answer moves cost from one term to
  the other.
* `DaySpend`, `FilesAddUp`, `PaidOnce`: the invariant `ApartInv`, whose parts say
  what holds as long as no two runs have overlapped. Only one process is up and
  the others' desks are empty (`OneUp`); the booking on the desk carries the
  total it read plus its own cost, to the temporary file (`DeskAgrees`). So no
  booking races, the files sum to the cost of the booked calls (`AddsUp`), the
  present day's file has room for every call in flight (`RoomFor`), also after
  midnight, when a call posted on one day is booked on the next; and an
  extraction answer that was stored is on disk, one that is awaited is not
  (`KeysAgree`). An answer whose cache file could not be written is received and
  not stored; `PaidOnce` says nothing of it.

WalkForward_proofs:

* `ImplementsWalk`: the walk implements `Walk`, assuming `KeysInBlocks` - days
  with one period key are not separated by a day with another. Months satisfy
  it; (calendar year, ISO week), the key of walkforward.py:64, does within a year
  and not at its turn: the last days of December can share a key with the first
  week of January. The invariant `WalkInv` has three parts. `Walking`:
  every decision date a process has passed is done or cannot trade.
  `Frontier`: no undone decision before the last recorded one can trade, and the
  last segment ends no later than the next decision date. `HoldingsOfBook`: the
  checkpoint's holdings are its last split's. The step that needs an argument is
  growth of the data under a checkpoint (`FrontierGrows`): new sessions may
  remove only the newest decision date and add later ones, so what could not
  trade still cannot (`TradableBefore`), and nothing has to be inserted before a
  recorded segment. `LeastDay` and `GreatestDay`, that `Min` and `Max` exist, come
  from the well-foundedness of strict inclusion on finite sets.
* `TypeCorrect`: what `Research` returns is a snapshot of a date that can trade.
* `PaidPerSplit`: `PaidInv` - research paid for is at most the recorded splits,
  the stops, and the one in hand. It needs no calendar.
* `CurveKept`, given `KeysInBlocks`: the checkpoint's rows ascend, each is a
  session of a segment held by its snapshot, and each session of a segment has
  one (`CurveOf`). `Drift` is a fold over the sessions of a segment; the lemmas
  about it come from those of `Sums`.
* `PublishedGrows`, given the same: what was published begins the checkpoint's
  curve.
* `NoHole`, given the same: with next-session execution and data that did not
  grow, the last segment ends with the last session or on a decision date, so
  the next segment starts with the session after it (`Covered`).

NewsFeed_proofs: one invariant, `FeedInv`, over every run's state, and four
theorems from it; `SearchInv` for the fifth.

* `TypeCorrect`: the counters stay within their budgets; that what a finished search adds fits
  is `FirstFoundCount`, that the first n articles of a list are at most n.
* `RequestsBounded`: `WithinBudget` - requests sent are at most `MaxAttempts` for
  each answered call plus the attempts of the call under way, and an attempt
  is only under way while a call is left.
* `PagesTruthful`: `Truthful` - a run that is about to write holds the answer to
  its own request at the instant it will stamp.
* `StoriesSurvive`: a run has collected at most what it counted (`Counted`), which
  is at most `MaxArticles`, so the ranking's limit removes no representative
  (`RankingKeepsAll`); and the representative of a cluster is no later than any
  member (`Represented`), so it passes the cutoff when a member does.
* `SearchesComplete`: on pages of a window that had closed, a search has found
  every readable article of the pages before the present one (`Searching`).
  The places of a window's articles are consecutive, which is what makes a short
  page the last one: an article in a later page would need as many articles
  before it as fill this one.

MarketCache_proofs: the invariant `StoreInv`.

* `TypeCorrect`.
* `TickersApart` (`FilesHoldTheirTicker`): a sync stores what it received under
  the ticker it asked for, so the proof has to show that it received nothing else.
  `OneAsked`: while it waits, one security is unanswered or one event is
  undelivered, and it is the one it asked for. A timeout drops the session with
  both, which is what makes the next request start from silence.
* `OnlyDeathsAndRacesLose` (`StoredDaysKept`): `KeptInv` - outside races a file
  that can be read has all that was ever stored, a file being rewritten is in
  the hands of one process only, which holds what was stored, and without a
  death a file is torn only while it is open.
* `NoGapAtTheEnds` (`GapsAreInside`): `ReadsInv`, what each phase of a read knows
  of the files. A ticker not found missing has its window's ends stored, and
  outside races and deaths files only grow, so it still has them when it is read back
  (`Found`). For the missing ones, what is received, queued and pending is the
  chunk in its order, and only its last event is marked as the last
  (`Answering`): an answer without an error is complete when the marked event
  arrives (`Collected`), and what was collected is in the files once written
  (`Stored`). The days lacking are then between two stored ones.

Decisions_proofs: the invariant `DInv` says of each stage what was made so far:
evidence and scores in their ranges, so that `compute_score` has nothing to
raise about; tradability of every mapped candidate; signals that are vetted, and
not empty if a candidate is tradable; a book of signals; limits.

* `TypeCorrect`.
* `VettedThroughout` (`OnlyVetted`): every position comes from a signal, and no
  limit adds a position.
* `LimitsKept` (`LimitsHold`): each limit only shrinks positions (`Shrunk`), and
  shrinking keeps the limits applied before, roundings included - which is true
  only because no signal to avoid is actionable: in a book without shorts gross
  and net exposure and a sector's share are sums of nonnegative weights.
* `NeverSilentlyCash` (`NotSilentlyCash`): a builder given a signal buys
  something. For the score-weighted ones this is a pigeonhole: one of at most
  ten shares is at least their mean (`AtLeastMean`), which does not round to
  nothing.

ResearchRun_proofs: the invariant `BlindInv`.

* `TypeCorrect`.
* `OutcomesFollow`: a run sees nothing after its as-of date from `ReadVisible` on
  (`RunsBlind`); what was ever whole on disk, what is on disk now and what an
  evaluation has loaded are frozen decisions (`FrozenBlind`, `FilesFrozen`,
  `LoadedFrozen`), so it does not matter that a run of the same id may have
  overwritten the file; and both `RunBacktest` and `EvaluateSnapshot` enter at a
  day after the as-of date (`BacktestBuysLater`, `EvaluationBuysLater`). That minima of sets of days
  exist (`LeastDay`) comes from the well-foundedness of strict inclusion.

Only model-checked: liveness (`RunsEnd`, `RunsComplete`, `GathersEnd`,
`CommandsEnd`, `RunsClose`), since TLAPS 1.4.5 does not reason about ENABLED and
fairness.

## Findings

Each is a run that TLC refutes, with the sentence it refutes; see `findings` in
`PROJECT.json`.

* `exec_crash_duplicate`: a restarted process can duplicate an order, because the
  key is recorded only after the wait for its outcome (ledger.py:5-7).
* `exec_kill_switch`: one order is placed while the kill-switch file exists,
  because nothing looks at it between the check of an intent and `placeOrder`
  (kill_switch.py:1, "If the file exists, no new orders - period."). What the
  switch does promise, that no process places a second one, is `KillSwitchSlip`.
* `walk_repaid`: a walk that stops between the research for a date and the
  checkpoint of its split does the research again, although its snapshot is on
  disk (walkforward.py:5-6). What the checkpoint does promise, one repetition for
  each stop, is `RepaidOnlyAfterStop`.
* `research_unbought`: the weight of a position without an entry price is neither
  bought nor kept as cash; the first day books it as a loss (engine.py:10, 162).

### Differences

The models also reach the following, where the code does not do what its
documentation or its limits suggest. They are not runs of their own; each
property that has to leave one of them out says so in its comment.

* Execution. A run that reconnects goes on with the keys and positions it read
  before, while another process may have traded and recorded (ibkr_paper.py:96-101):
  the ledger can hold one key twice without a crash. An exception after
  `placeOrder` makes a live order REJECTED in the result and the ledger
  (pipeline.py:380-386, "never faked"). A run that begins while orders still
  work orders again what they would buy (pipeline.py:135), under another key
  if the price has moved (pipeline.py:141). The turnover limit is per run
  (pipeline.py:300), and the concurrency cap counts SUBMITTED orders of this run
  only (pipeline.py:323): partially filled ones, those whose submission raised
  and those of earlier runs are not counted. A torn line loses two records. The
  age of the snapshot is never passed to the gate (cli/paper.py:228); a missing
  net liquidation becomes 1.0 and sells the account; PendingCancel is reported
  as CANCELLED.
* Gateway. An answer booked and not stored - a death in between, or a cache file
  that cannot be written (kimi.py:206-207) - is paid for again by the next run,
  against kimi.py:15-18. An answer that is paid for and cannot be parsed is in
  no book (kimi.py:248). Two processes at once lose bookings.
* Walk. A finished walk resumed over longer data leaves the sessions between its
  last segment and the next decision date unpriced.
* News. A page fetched on the last day of its window becomes permanent and lacks
  what was published afterwards (newscatcher.py:255-262). An exported item is
  stamped with the start of its day, so news from after the decision time of
  the as-of day passes the gatekeeper (research_runtime.py:184, 195-197).
* Market data. `_covers` compares the first and last stored day only, so two
  disjoint windows leave a hole that is served as complete (barstore.py:160-166,
  against 122-124). `to_parquet` empties the file it rewrites: one process that
  dies there loses every stored day of the ticker (barstore.py:87). Two
  processes that both read before either writes leave the rows of the later one
  (barstore.py:78-87).
* Research. Two runs for one as-of date that start in the same second share a
  snapshot id, and the later one rewrites what the earlier one froze
  (research_runtime.py:327, core/store.py:48-51; "immutable", freeze.py:52).
* Decisions: see "worth knowing" above.

## Plan

Done: PaperExecution with OrderPromise, KimiGateway with the orchestrator,
WalkForward with Walk, NewsIntel and NewsFeed, MarketCache, Decisions, Backtest
and ResearchRun; every safety property and refinement of them proved.

Next, in this order: an abstract store for MarketCache (a read returns every day
the vendor answered inside the window) with its refinement; prices and money in
WalkForward, where a missing bar at the entry session turns the curve into NaN.

## Not modelled

Statistics on floating-point tables (features, ratios, attribution, the
covariance estimate), text handling (prompts, extraction, canonical titles and
URLs), file parsing and table validation, dashboards and demo drivers: they have
no protocol and no state that is read back. The mock model provider and the mock
broker are test doubles. Retrieval and the thesis registry are used by no
command. `components` in `PROJECT.json` has the reason for each.
