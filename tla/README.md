# TLA+ models of trade_gcp

`trade_gcp` is a batch trading-signal system: Airflow ingests market data once
a day into BigQuery (bronze), Beam stages derive validated candles, RSI
features and signals from it (silver, gold), and a second strategy turns weekly
returns into a portfolio. It places no orders; its correctness is the
correctness of its tables after every legal history of daily runs, re-launches,
back-fills and cleanups. Those histories are what these modules are about.

Contents: [inventory](#1-inventory), [modules](#2-modules-and-how-they-correspond-to-the-code),
[runs](#3-runs), [bounds](#4-bounds), [fairness](#5-fairness), [proofs](#6-proofs),
[findings](#7-findings), [limits](#8-what-is-not-modelled), [plan](#9-plan).

## 1. Inventory

Paths are relative to `src/`.

| component | state | operations | interacts with |
|---|---|---|---|
| daily DAG (`orchestration/dags/daily_btc_signal_dag.py`, `pipeline_launch.py`) | logical date, task states, tries | fire once a day (no catch-up, one run at a time), run 12 ingests (those of the ETFs are not among them), gate the launch on the Binance one, launch the pipeline driver, time out, re-launch once | ingests, pipeline driver |
| candle ingest (`orchestration/ingest/ccxt_candle_common.py`, `binance_btc_ingest.py`) | bronze table | fetch the candles of `[ds - 3, ds]`, or by hand of any range, MERGE on the candle's key | exchange, bronze |
| context ingests (FRED, M2 vintages, CoinMetrics, MVRV, DXY, ETFs) | one bronze table each | fetch the end of the series, drop missing values and open bars, MERGE in chunks, symbol by symbol | external APIs; best effort, gate nothing; the ETF ingests are run by hand |
| Google Trends ingest (`google_trends_btc_ingest.py`) | bronze, one set of rows per request window | refresh the newest window daily; back-fill overlapping windows or load a range by hand | Google, the view that stitches the windows |
| pipeline driver (`dataflow/pipeline.py`) | the stage it is at | conform, rsi 1d, rsi 1w, signals, in order, each run to its end; by hand over any range, and one stage alone (`--stage`) | the three stages |
| conform (`dataflow/stages/conform.py`) | `ohlcv_validated` | MERGE the bronze window, the best source of each day on one split basis, into 1d candles; re-aggregate 1w candles from the week of the window's start onward | bronze, silver |
| RSI (`dataflow/stages/rsi.py`) | `rsi_features`, its staging table | bootstrap, or continue Wilder's recursion from the last stored row over the later candles | silver |
| signals (`dataflow/stages/signals.py`) | `fact_signals` | walk the weekly RSI into a trend state per week, join the daily RSI of the window, MERGE | silver, gold, strategy parameters |
| cleanup (`dataflow/cleanup.py`) | none | delete by layer, temporality and range, one DELETE per table | silver, gold |
| strategy 3 (`dataflow/strategy/*.py`, `stages/tsmom_signal_stage.py`, `stages/portfolio_weights_stage.py`) | `fact_signals`, `fact_portfolio_weights` | time-series momentum sign and size per asset and week; two books per week with caps | silver view, gold |
| backtest (`backtest/*.py`) | in memory | walk-forward splits with purge and embargo, the engine with costs, metrics | strategy 3's pure functions |
| research scripts, DDL, infrastructure, diagrams | - | sequential scripts over the above; table definitions | - |

**Components share tables, not memory.** The only calls between them are "run
to the end"; everything else goes through a MERGE on a key. So a hazard here is
never a lost update of a variable. It is a *history* nobody wrote a test for: a
candle that comes after the run that looked for it, a range re-run out of
order, one stage run without the others, a symbol whose week comes after its book
was stored, an answer that is empty, a driver that dies between two MERGEs, a Beam job that outlives the
driver that was waiting for it, a weekly row computed while its week is still
open. Each such hazard is listed at its line in `PROJECT.json`.

What makes each component correct:

* conform: silver equals bronze, and weekly candles equal the aggregate of their
  days, between runs, for every range processed in any order; prices of all
  sources are on one split basis, and the source of highest priority wins;
* RSI: all stored rows belong to one recursion; a row depends on no later candle;
  a hole in the candles stops nothing; the write protocol is atomic;
* signals: a signal depends on nothing of its own week or later weeks, agrees
  with the stored feature, and is never repainted; it follows from the
  parameters it is stamped with and from a trend opened before its week;
* Google Trends: every window overlaps the one before it, holds one scale, and is
  asked for at a length Google answers by week;
* DAG: the look-back repairs what comes late; a re-launch is safe;
* strategy 3: gross exposure is 1 (or the cap), no leg exceeds its cap, a run of
  stage B brings what is stored up to date, and new weeks change no old signal;
* backtest: no observation is in both sides of a fold, purge and embargo hold at
  every boundary, every trade is charged once.

## 2. Modules and how they correspond to the code

| module | models |
|---|---|
| `SignalPipeline` | the whole strategy-1 pipeline over a calendar of days: exchange, ingest, conform, RSI, signals, DAG, ingests and runs by hand, cleanup |
| `MCSignalPipeline` | its instance for TLC |
| `SignalPipeline_proofs` | theorems about it |
| `UpsertTable` | the abstract promise of a stage: an attempt upserts exactly its batch, at once, or does nothing |
| `StagingMerge` | the write protocol of the RSI stage step by step: fetch, truncate, Beam job, MERGE, with drivers that die and jobs that do not |
| `MCStagingMerge` | its instance for TLC |
| `StagingMerge_proofs` | theorems about it, the refinement of `UpsertTable` included |
| `SignalRules` | what the signals stage decides on RSI values: trend walk, rule, active parameters and promotions |
| `MCSignalRules` | its instance for TLC (three parameter versions, one of another RSI period) |
| `SignalRules_proofs` | theorems about it |
| `SilverSources` | the bars of an ETF from Yahoo and Tiingo through conform to the weekly candle: priorities, gaps, splits |
| `MCSilverSources` | its instance for TLC |
| `SilverSources_proofs` | theorems about it |
| `WeightBook` | strategy 3: momentum signals, the two weight books of a week, parameter promotions, partial runs |
| `MCWeightBook` | its instance for TLC (two ETFs and a coin over two weeks, two parameter versions) |
| `WeightBook_proofs` | theorems about it, and what sums and products over finite sets need |
| `Backtest` | the walk-forward evaluation of strategy 3: the engine's walk over the weeks, the folds, the weeks each fold pools |
| `MCBacktest` | its instance for TLC (two symbols, every small split configuration) |
| `Backtest_proofs` | theorems about it |
| `TrendsWindows` | Google Trends: refresh, back-fill and range as concurrent jobs over overlapping request windows |
| `MCTrendsWindows` | its instance for TLC |
| `TrendsWindows_proofs` | theorems about it |
| `ContextIngest` | the best-effort ingests: windows, vintages, the loop over symbols, chunked MERGEs |
| `MCContextIngest` | its instance for TLC (a feed of each kind, one with two symbols) |
| `ContextIngest_proofs` | theorems about it |

### SignalPipeline

*State.* `exchange` is what the exchange would answer now; `bronze`,
`ohlcv["1d"]`, `ohlcv["1w"]`, `rsi["1d"]`, `rsi["1w"]` and `fact_signals` are
the tables, each a function from its MERGE key (a day; a Monday for a week) to a
row or `NoRow`; `ds`, `stage`, `only` (`--stage`), `start`, `end`, `tries` are the DAG
run and the driver.

*The main abstraction: provenance for numbers.* An RSI value is a fold over
closes, and what goes wrong with it is never the arithmetic of one step but
*which candles were folded, with which values*. So an RSI row carries `hist`,
the closes it folded by day, and `null`, whether it publishes a value (the warm
up). A signal carries the `hist` of its daily RSI row and the `hist` of every
weekly row its trend state was walked over. Two rows are equal in the model iff
they would be computed from the same inputs, so "was never repainted", "matches
the feature" and "depends on nothing later" are statements about these records.
The BUY/SELL/NEUTRAL rule is a pure function of what a signal records; it is
`SignalRules`' subject.

*Actions.* `NextDay` (a calendar day ends; the exchange publishes or is late),
`PublishLate`, `Revise`: the environment. `HandIngest`: the candle ingest's own
command, over any range at any time, also while a run is under way. `DailyRun`: the
DAG's ingest of `[ds - Lookback, ds]` and the start of the launch. `LaunchByHand`: the
pipeline's command, over any range, all stages of it or one; it ingests nothing.
`Launch` is what the two have in common, and `EntryStage`, `LastStage` and `Goto` are
the guards of the driver. `Conform`, `Bootstrap`, `Incremental`, `Signals`: the stages,
one step each (why one step is right is what `StagingMerge` establishes).
`Die` and `DieInConform`: the driver dies before a stage, or between the two
MERGEs of conform, and is re-launched from the first stage, or the run is
abandoned. `Cleanup`: DELETE by range and temporality of a prefix of the layer's
tables, as a failure between two DELETEs leaves it. The disturbances a run allows
are the constant `Env`.

### StagingMerge and UpsertTable

The RSI stage writes both temporalities through one staging table: it truncates
staging, runs a Beam job which *replaces* staging when it has at least one row,
and MERGEs whatever staging holds. The driver is a subprocess under an Airflow
timeout and one re-launch; the Beam job is on Dataflow, and nothing cancels it
when the driver is killed. `Kill` therefore leaves `jobs` alone, and `JobEnds`
may happen under a later attempt. `upsets` is a history that is not in the code:
whether a job has outlived its driver ("orphan") and whether rows were deleted by
hand ("cleanup"). With it one run allows everything, and each property says itself
what it needs: `AtomicUpsert` (the protocol implements `UpsertTable`, which
justifies the one-step stages of `SignalPipeline`) and `CompleteAtSignals` hold
until there is an orphan, `NoHole` and `Healed` also after.

### SignalRules

`daily` and `weekly` are RSI values, chosen freely as days go by; `active` is the
active parameter version; `fact_signals` keeps the signal, the trend and the version
whose thresholds the code writes into `trigger_params`. `NextDay` stands for the
stages before (rows after the last row only, a week's row from its first day; late
features and days whose run died are allowed); `DailyRun` and `Backfill` are the
signals stage over a window; `Promote` flips the active row between runs. The stage
reads features of the *active* version's RSI period, which the pipeline may not
compute (`Read`). `StandsOnItsTrend` restates the walk without walking: there is an
opening week before the day's week, and no closing week since. The model assumes
`trend_start < trend_end`, which the DDL's "window" implies and nothing validates.

### SilverSources

A price is the set of splits it is divided by, each named by its ex-date: a model
of the *basis* of a price, which is what can be wrong with it. Yahoo's bars carry
the splits known at the fetch (`StoreYahoo`); Tiingo's are raw, with the factor on
the ex-date's bar (`StoreTiingo`), and `SplitFactors` is conform's lookup in the
whole Tiingo table. `Winner` is the priority, `WeeklyClose` the weekly aggregate.
`published` lets a source gap or come late. The ETF ingests are commands of their own,
not tasks of the DAG: `IngestLatest` may happen before or after the launch
(`DailyRun`), or not at all. Three
histories serve the properties: `settled` (both ingests were in time and Tiingo has
the ex-dates' bars), `refreshed` (sources back-filled since the last split),
`rebased` (days conformed since both were).

### TrendsWindows

A row is keyed by its window's start and its week; its content is the end of the
request that brought it, since start and end determine the scale Google used. Two
jobs, the DAG's and one by hand, request (`Fetch`) and MERGE (`Store`) their windows
one at a time and may fail at each (`Fail`). An answer may also lack weeks (`Gaps`, per
job `lacks`): the code drops them (`Prepared`), and if none is left it skips the
window and goes on, which is `Store` with nothing to store. `faults` bounds both.
`WindowBounds`, `RangeWindow`, `RefreshWindow` and `FirstWindow` are the windows of the entry points. `Grid` is what
the module's documentation says of Google: days, weeks or months by length. Of the
stitching view the model has the numbering of windows and the pairs it joins
(`IsPrevious`, `Rescaled`), not its arithmetic. `whole`, `ranged` and `lost` (the weeks
some stored answer lacked) are histories.
A request is one MERGE: its rows, one per week, are far fewer than a chunk.
`crossed` bounds how long a job by hand lasts: at most one week ends while it is
under way. A back-fill is a few requests, each of seconds or of some backoffs
(`_fetch_with_backoff`) with a pause in between, so minutes and not weeks; without the
bound a back-fill could take longer than a window covers, and then `WholeHistory`
fails, because the windows it planned end before the one the DAG has opened since.

### WeightBook

`silver`, `fact_signals` and `weights` are the view of weekly returns and the two
tables; `active` is the version of the active parameter row, which each stage
fetches for itself; `pc` and `only` are the driver and its `--stage`. `TsmomSignal`
and `PortfolioWeights` are the two stages. `NextWeek` is the calendar. `WeekRow` is a
symbol's own newest row: it appears when that symbol's bars have been ingested and
conformed, long before or after the other symbols' (BTC's by the DAG, the ETFs' by
hand), and changes as long as no later one exists. `Revise` is a row in the midst of
a symbol's history that appears or changes. `Promote` flips the active row at any
time, also between the stages. Weights are exact fractions and volatilities integers
(their inverses), so that "the gross is 1" is an equation and not a tolerance. `upsets` bounds promotions
and revisions. `changed` is a history that is not in the code: by symbol, the first
week of which a row has changed since stage A last ran (the first of all after a
promotion), which is what a run may have reason to rewrite.

### Backtest

`run_walk_forward` is sequential, so its control is one counter after another:
`Load` (the holdout guard), `EngineWeek` (one iteration of the engine's loop, with
any book, the flat one included), `Split` (the splitter's guards), `Fold` and
`SkipFold` (one iteration of the splitter and of the pooling), `Finish`. Index
arithmetic is kept exactly as the splitter's, half-open slices included. What the
engine earns is left out and what it trades is kept; each baseline is reduced to the
weeks it has a return on, since a fold pools only the weeks all four strategies
have. `book`, the book of every week, is a history the code does not keep: the code
remembers one book (`prev`), and `ChargedForItsTrades` says that this is enough.
It also shows what a flat week does: the trades that close the book before it are
charged to no week, because a flat week is not recorded.

### ContextIngest

Five families of modules are one protocol, so one module models them, with the
feed it is about chosen in `Init`. `kind` tells them apart: `"values"` (FRED's plain
series, CoinMetrics), `"bars"` (DXY, the ETFs of Yahoo and Tiingo: the bar of the
running day is dropped), `"last"` (MVRV, whose daily run asks for the newest datum
alone, `NewestDates`: one that has no value is alerted and nothing is stored) and
`"vintages"` (M2). A value is named by the day the provider published it, which is what
the properties compare. `StartDaily` and `StartByHand` open a
run over `[from, to]`; per symbol there is one `Fetch` (request, drop, filter), one
`MergeChunk` per chunk, and `NextSymbol`; `RunDies` may come between any two of
them, and the days and the provider go on meanwhile. `reach` is a history: the day
of the last fetch, by date, whose MERGEs were all done. ALFRED's answer is
external: the vintages that overlap the requested realtime period, cut off at its
start. That the code may send a moving `realtime_start` at all is because it sends
the same day as `observation_start`, and no observation is published before its
date: `AsOfUnambiguous` fails without it.

## 3. Runs

| run | question | properties |
|---|---|---|
| `pipeline_faults` | can late candles, missed days, ingests by hand, back-fills, single stages, cleanups, dying and abandoned runs leave rows of two recursions in one table? | `TypeOK`, `OneRecursion` |
| `pipeline_backfill` | do back-fills and single stages in any order, mixed with ingests by hand, daily runs and re-launches, look ahead, repaint, or leave derived rows inconsistent? | `RsiFoldsSilver`, `NoLookAhead`, `SignalMatchesFeature`, `WeeklyMatchesDaily`, `NoRepaint` |
| `pipeline_live` | is the daily window enough when candles are late and revised and launches are re-launched, and what does the daily run eventually achieve? | `SilverMatchesBronze`, `LateCandleReachesSilver`, `OnTimeCandleGetsSignal` |
| `weekly_rsi_frozen` | *violated*: is incremental weekly RSI a full bootstrap's? | `WeeklyRsiMatchesBootstrap` |
| `staging_attempts` | is truncate, write, MERGE one atomic upsert with killed drivers, re-launches, zero-row runs and cleanups, and what survives jobs that outlive their driver, even their day? | `TypeOK`, `NoHole`, `CompleteAtSignals`, `AtomicUpsert`, `Healed` |
| `signal_rules` | does every stored signal follow from its version's parameters and an earlier trend, whatever is late, abandoned, back-filled or promoted, and is it what one run over the history would write? | `TypeOK`, `StandsOnItsTrend`, `BackfillAgrees` |
| `silver_sources` | with gaps, late ingests, a split and back-fills in any order, is what a launch processed on one basis, is the rest repaired by a back-fill, does the best bar arrive? | `TypeOK`, `RecentOnOneBasis`, `RebaseRestores`, `BestBarReachesSilver` |
| `silver_split` | *violated*: is the conformed close a clean split-adjusted level? | `CleanSplitAdjustedLevel` |
| `weight_books` | with legs that join a week late, revisions, promotions, partial and cut runs: are both books of a week sound, does stage B bring what is stored up to date, and does stage A leave signals alone whose past stands? | `TypeOK`, `BooksSound`, `StoredIsCurrent`, `HistoryIsStable` |
| `backtest_folds` | do folds leak, overlap, lose weeks or touch the holdout, and is every recorded week charged for its trades? | `TypeOK`, `NoLeak`, `PooledOnce`, `NothingLost`, `ChargedForItsTrades` |
| `trends_windows` | with refresh, back-fill and range at once, failing or answered in part or not at all, is the chain of windows whole but for what an answer lacked, each refreshed window on one scale, and does every new week land while the window is young? | `TypeOK`, `WholeHistory`, `RefreshUnifies`, `NewestWeekLandsInYoungWindow` |
| `context_feeds` | what do the best-effort ingests leave in bronze, whatever fails and whatever the provider revises? | `TypeOK`, `AsOfUnambiguous`, `UpToDate`, `NeverGoesBack` |

Each property of a passing run has a mutant in `PROJECT.json`: a definition of
the model replaced by the form a plausible bug would give it (a window one day
short, a recursion by calendar date, a recomputation of the whole history on
every run, a trend that reads its own week, a staging table left to
WRITE_TRUNCATE, re-launches not counted), under which the property fails.

Deadlock is checked in `context_feeds` alone: elsewhere the calendar is finite, and
a model that has reached its last day with nothing left to disturb may stop.

## 4. Bounds

* `LastDay` 3 to 5 days with `DaysPerWeek` 2. The code's week has 7 days; what
  matters is that a week has a first day, a later day, and a next week. With
  weeks of two days, five days are the shortest history in which a signal has a
  non-empty trend: two earlier weeks, the first of them in the warm-up. The run on
  trends (`pipeline_backfill`) therefore uses `LastDay = 5`, with late candles, ingests
  by hand, back-fills and single stages; the ones about recursions and windows need
  less, and with three days all disturbances but revisions are there together
  (`pipeline_faults`).
* `Lookback` 1 (3 in the code): shorter than the calendar, so that candles
  arrive late inside the window and also fall out of it.
* `RsiPeriod` 1 (14 in the code): one warm-up row, then published rows.
* `MaxRetries` 1, the DAG's value for `launch_dataflow`.
* `Close` one value where prices are only present or absent, two where a
  revision or a mixture of prices is the point.
* `StagingMerge`: three runs of two attempts of two temporalities; the
  last run is undisturbed (`Kill` requires `day < LastDay`), since otherwise
  `Healed` would be refuted by a disturbance with no later run to heal it; and a
  job does not outlive the day before the last (`NextRun`), for the same reason.
* `SignalRules`: five days in weeks of two, so that a week, the one that opened its
  trend and the one that closes it all exist; two daily RSI values (buy or sell)
  and three weekly ones (open, neither, close); one promotion, also to a version
  whose RSI period nobody computes.
* `SilverSources`: three days, a look-back of one, one split on any of them, so that
  a split is in the window, on its edge and before it; four days in `silver_split`,
  so that two whole weeks have a close. `SourceLookback` (10 in the code) is taken at
  the least value the assumption allows, the launch's, in `silver_sources`.
* `TrendsWindows`: seven weeks, windows of three overlapping by one, and a limit of
  five for weekly answers: a back-fill has one, two or three windows, a refreshed
  window outgrows the limit, a refresh starts the table or continues it; one job by
  hand beside the DAG's, during which at most one week ends; one fault, a failure, an
  empty answer or one without week 3, which is the start of a window and inside another.
  With three windows and an empty answer for the middle one the chain really breaks, so
  `WholeHistory` is checked there too. What a second back-fill or more faults do is
  shown by the theorem alone. The first day is a window's length after week 1, as
  `HISTORY_START` is years before the first ingest.
* `WeightBook`: two ETFs and a coin, the fewest legs of which the cap could disturb a
  proportion, and two weeks, so that horizons of one and two rows, legs that join late,
  flat signals and the volatility's warm-up (two rows) all occur; one promotion or
  revision. One ETF has every history of returns of -1 and 1, with gaps and in any
  order of arrival; the constraint `OneFreeSymbol` lets the other two symbols only rise
  and lets no second week begin before they have the first. The cap binds under both schemes.
* `ContextIngest`: three days, a look-back of one, up to three values published in
  all, chunks of one row. So a date falls out of the window and is revised after
  that, a date has three vintages, a batch takes several chunks, and a run dies
  between chunks and between the two symbols.
* `Backtest`: up to seven weeks, the seventh sealed, so that the holdout guard both
  passes and fails; one to three folds, one or two training weeks, purge and
  embargo of zero or one week, both modes. So the last fold absorbs a remainder,
  purge or embargo may empty a side, and the guards raise; every configuration
  is checked with every number of weeks and every sequence of three books.

The proofs (section 6) have none of these bounds.

## 5. Fairness

`SignalPipeline!FairSpec` assumes weak fairness of `NextDay` and `DailyRun`
(Airflow fires the schedule every day) and of `StageStep` (a stage that runs
ends: every task has a timeout, and after `MaxRetries` deaths the attempt under
way is seen through unless `"abandon"` is allowed, which no liveness run allows).
Nothing is assumed of the exchange: a candle may never be published; nor of
operators or failures. `StagingMerge!FairSpec` assumes the same of the schedule,
of a live driver's steps, and that a Dataflow job ends. `SilverSources!FairSpec`
assumes only that days pass and that the launch runs in each; nothing of the ETF
ingests or their sources, which are best effort. `TrendsWindows!FairSpec` assumes
that weeks pass and that the DAG's job is started and goes on; nothing of jobs by
hand. A failed refresh is not retried by assumption: the next one is simply the
next week's.

Liveness is stated as leads-to from what the system can see (a candle published
while some later run still looks back to its day), never from what it cannot.

## 6. Proofs

Checked by TLAPS for every value of the constants that satisfies the named
assumptions.

`SignalPipeline_proofs`:

* `TypeCorrect`: `TypeOK` is invariant. It is inductive; the work is in the
  lemmas that merges and recursions yield rows of their schema.
* `OneRecursionHolds`, `NoLookAheadHolds`: `OneRecursion` and `NoLookAhead` under
  **every** disturbance. The induction runs over `RsiInv`, the conjunction of two
  facts about each stored temporality: rows agree on what they have in common
  (`IsRecursion`) and fold nothing later than themselves (`IsCausal`). Neither is
  inductive alone: a continuation from the last row extends it, and so agrees with
  every earlier row, only because the last row folds nothing beyond itself. Both
  survive deletion, since they quantify over stored rows.
* `SignalMatchesFeatureHolds`, assuming no cleanups: rows of `rsi` are only ever
  added, never rewritten, since an incremental run writes strictly after the last
  row; hence a signal's feature stays what it was.
* `SilverMatchesBronzeHolds`, assuming no cleanups, no abandoned runs and no ingests by
  hand, which put candles into bronze that no run has been told of. Back-fills and
  single stages are allowed. The invariant `SilverInv` says where the two may differ in
  the middle of a run: only inside the range of the run that has not passed conform.
* `WeeklyMatchesDailyHolds`, assuming no cleanups and no abandoned runs. `WeeklyInv` is
  the same idea for weeks: a run that has yet to conform may leave them behind from the
  week of its start on, and what conform then re-aggregates is exactly those weeks. That it reads
  all daily rows from that week's Monday on, and not from the start of its range, is
  what makes the week the range cuts in two right.
* `RsiFoldsSilverHolds`, assuming no cleanups and no revisions: a candle of silver
  then keeps its price, so every close that was ever folded is still the one silver
  holds. Abandoned runs are allowed.
* `NoRepaintHolds`, an action property, assuming no cleanups, and not both abandoned
  runs and single stages (finding below); late candles, revisions, missed days,
  ingests by hand and back-fills are allowed. TLC checks it with single stages
  and one price; that abandoned runs and revisions do no harm is shown by the theorem
  alone. `PublishedIsFinal` says that a stored signal is what the stored
  features give, and that the weekly recursion has passed the weeks its trend reads, so
  that it can write no earlier one any more. What that needs of a run about to publish
  is `WeeksArePassed`: the weekly recursion has reached the week of every day of its
  range that has a feature. There are two ways to it. If every run goes through all
  stages, it has its weeks from conform and its weekly RSI before its signals
  (`WholeRunInv`), whatever earlier runs left undone. If every run is seen through, a
  day's feature never stands without its week's (`FeatureHasWeek`), whichever stage
  runs next.
* `LaunchDeliversHolds`, under every disturbance but ingests by hand (which may change
  bronze after the run has read it), cleanups and abandoned runs included: what is
  true when the signals stage ends a run of all stages. Its range is in silver,
  daily and weekly; both recursions have reached their last candle; and a run up to
  today, whose candle it has, leaves that day an RSI row and outside the warm-up a
  signal. `LaunchInv` says what each stage leaves to the next (`StagesDone`), and that no
  table has a row of a day that is not over (`NothingEarly`), so that a recursion
  which has reached today's candle has a row of today and not of a later day. This is
  the safety half of `LateCandleReachesSilver` and `OnTimeCandleGetsSignal`.

`StagingMerge_proofs`:

* `StagingTypeCorrect`.
* `AtomicUpsertHolds`: until a job outlives its driver, every step of the protocol
  maps to a step of `UpsertTable` or a stutter. Its invariant `StagingInv` ties
  staging to the attempt's own job: from the end of the job to the MERGE, staging is
  exactly the job's rows; with a zero-row job that holds only because staging was
  truncated before.
* `NoHoleHolds`, orphans allowed. Its invariant `HoleInv` says that what staging
  holds, and what any running job will put there, continues from rows the table
  already has: so merging the wrong attempt's rows is still harmless.
* `CompleteAtSignalsHolds`: its invariant combines the two above with what the
  driver has seen. Without orphans the fetched `prior` is still the last row when
  the job's rows are merged; without holes the last row means all rows before it; so
  after the 1d MERGE, and again after the 1w one, every candle has its row. Nothing
  writes silver or features in between, whichever attempts died before.

None of the three assumes anything of `Env`: what must not have happened is part of
the property (`upsets`).

`Backtest_proofs`, for any number of weeks, folds, and weeks of purge and embargo:

* `NoLeakHolds`, `PooledOnceHolds`: `FoldInv` says that each fold is the one its
  index gives and has two non-empty sides. That is what makes purge and embargo
  whole: `max` and `min` in the splitter cut them short only where a side is then
  empty, and such a fold is skipped (`FoldAroundBoundary`). Disjointness rests on
  the positions being multiples of one length (`Multiples`, `Positions`).
* `ChargedForItsTradesHolds`: `ChargeInv` says that `prev` is the book of the week
  before the one the engine is at, flat or not, and that records only reach that
  week, so nothing recorded is ever rewritten.
* `BacktestTypeCorrect`: its work is to show that a turnover, a sum over symbols, is a
  number, and that the engine stays inside the weeks.
* `NothingLostHolds`: `KeptInv` says that a fold is passed over only if a side of it is
  empty, which under the hypotheses of `NothingLost` none is; so the test windows are
  all there, and their sizes add up by induction over the folds (`TestedWeeks`).

`SilverSources_proofs`, for every look-back of the launch up to the ingests'
(`SourcesAssumption`):

* `SourcesTypeCorrect`.
* `RecentOnOneBasisHolds`, `RebaseRestoresHolds`: both follow from one notion, a row
  that is *right* (divided by every split after its day). `BronzeInv` says which bars
  are right: Yahoo's as far back as an ingest of today looks, or all of them after a
  back-fill since the last split; Tiingo's raw bars where the ex-dates' bars are
  stored. `SilverInv` says that conform has passed that on. Rows that are all right
  are on one basis.

`SignalRules_proofs`:

* `RulesTypeCorrect`.
* `BackfillAgreesHolds`: `RulesInv` says that a stored signal is the one its own version
  gives of the features of *now*. It survives new features because they are of later
  days and later weeks, and a day has no feature before its week has one.
* `StandsOnItsTrendHolds`: the walk over the weeks, a recursive function, decides
  exactly "opened by an earlier week and closed by none since". It uses
  `trend_start < trend_end` (`RulesAssumption`): no week both opens and closes.

`TrendsWindows_proofs`, for every window length, overlap, limit and number of jobs:

* `TrendsTypeCorrect`: that no request ends in the future and none is too short.
* `WholeHistoryHolds`, whichever answers lack weeks or are empty, with no bound on how
  many: `ChainInv` follows a back-fill from its start to its end. Its
  windows are those of a plan that reaches today or the week before, and each is
  stored or still asked for (`HandAsks`); so once it has ended all are stored
  (`WholeTo`). Any other start is one the DAG gave a full window to, before the plan's
  end (`StartsKnown`), which is where "at most one week ends during a job by hand" is
  needed. Rows under a start have no hole but lost weeks (`Intervals`), and the
  DAG only lengthens the newest of them (`DagAsks`). Throughout, "stored" is `Covered`: a
  row, or a week that an answer lacked. The arithmetic is that of multiples of a step
  (`StepBounds`, `Multiples`).
* `RefreshUnifiesHolds`, an action property, but for the weeks the answer lacks: a refresh requests from its start to today,
  and `Intervals` leaves no row under that start which its MERGE could miss, whatever
  a job by hand stored between the request and the MERGE.

`WeightBook_proofs`, for any universe, prices and parameter versions:

* `WeightTypeCorrect`: a weight is a sum and product over a finite set of legs, so its
  type rests on lemmas about folds (`TotalStep`, `TotalNat`, `ProductNat`, ...), which are
  proved there from the definition of the fold.
* `BooksSoundHolds`: at heart about arithmetic and not about histories. `CappedSizes`
  shows that what the cap takes from the coins is what the others receive;
  `BookWithinCap` that no coin is left over the cap; `BookProportions` that the
  others keep their proportions.
* `StoredIsCurrentHolds`, `HistoryIsStableHolds`, two action properties with no
  assumption on `Env`: legs may join a stored week, returns be revised and versions
  promoted between any two stages. Stage B rewrites a stored leg exactly if the leg is
  still one the scheme can hold, so `HeldInv` says that a stored leg has a signal, belongs
  to its book and has the volatility its scheme asks for, and `WarmInv` that a volatility,
  once there, stays: rows behind it never become fewer. `StableInv` says that before the
  first changed week of a symbol (`changed`) a run would write what is stored; a signal
  depends on rows up to its week alone (`PastSignals`).

`ContextIngest_proofs`, for every kind of feed, look-back and chunk size:

* `ContextTypeCorrect`.
* `AsOfUnambiguousHolds`, `NeverGoesBackHolds`, `UpToDateHolds`: their invariant,
  `FetchInv`, speaks of the table *and* of what is left of the batch, since a run may
  die between two chunks. `Ordered`: a fetched vintage comes in no earlier chunk than
  the one that closes its predecessor (`ChunkFacts`: a chunk is a beginning of the
  batch). `Later`: a fetched row never undoes a stored one. `Coming`: what the
  provider knew at the fetch is in the table or in the rest of the batch; `Kept`: of a
  finished fetch it is in the table. `RowsInv` ties them to the provider: a row stands
  for a value it published, is not closed before that value was superseded, and is
  the only one of its key. That the provider goes on publishing does no harm, because
  it publishes under the running day, after every day a finished or running fetch speaks
  of (`Books`).

All invariants, and all action properties, of the passing runs are proved.

**Only model-checked:** the liveness properties (`LateCandleReachesSilver`,
`OnTimeCandleGetsSignal`, `Healed`, `BestBarReachesSilver`,
`NewestWeekLandsInYoungWindow`), because liveness under fairness is out of the prover's
reach. What Wilder's arithmetic computes is a recursion over data and is not proved;
the models do not depend on it.

Six theorems of `SignalPipeline_proofs` assume that a disturbance (of `NoRepaint`: one of
two) is not in `Env`. Each of these assumptions is needed: with the disturbance added
TLC finds the property violated within a few days (for `RsiFoldsSilver` and `"revise"`,
with two prices).

## 7. Findings

Places where the code does something other than its documentation says. Two are
runs that TLC refutes; the others were found the same way, most with a property
that TLC refuted, and are told here.

1. **Weekly RSI is frozen at the first day of its week** (`weekly_rsi_frozen`).
   `README.md:208` asks that incremental RSI match a full bootstrap, and
   `conform.py:362` that partially filled weeks stay up to date. The weekly
   candle does, but the incremental read (`rsi.py:80`) takes only candles dated
   after the last RSI row, so the RSI of a week is computed when its first daily
   candle arrives and never again. No failure is needed: it happens every week.
2. **A split leaves silver on two bases** (`silver_split`).
   `ml_strategy_docs/strategy_3_analysis.md:102` counts on a "clean
   **split-adjusted** price level", and `conform.py:47-48` says that both sources
   "share one basis". They do inside the window of a launch (`RecentOnOneBasis`).
   What lies before the window keeps its old basis, so the weekly return across the
   boundary is wrong by the split factor. `RebaseRestores` says what repairs it:
   back-fill both sources, then conform the history; a back-fill of one source is
   not enough, since Yahoo's stored bars stay on the old basis while Tiingo's are
   re-adjusted by the read.

Not runs of their own:

* **Signals alone after half a run repaint.** A pipeline run that is given up halfway,
  for example after the daily and before the weekly RSI, on the first day of a week,
  followed by `--stage signals` (`pipeline.py:93-97`), publishes that day on the trend of
  an earlier week (`signals.py:235-238`); the next whole run stores the week and rewrites
  the signal. Nothing forbids it and no document mentions it; `NoRepaintHolds` excludes
  just that pair and shows that neither half repaints by itself.
* **An empty answer breaks the chain of Trends windows.** `sql/DDL.sql:611` describes
  the view as a "stitched, continuous" series, and `google_trends_btc_ingest.py:332` the
  back-fill as "the full weekly history". An empty answer yields no rows (`:297-298`),
  `if rows:` (`:348`) skips the window without a warning, and the back-fill ends as
  complete (`:357`). The weeks only that window has are missing, the next window shares
  none with the one before it, and the view leaves it on its own scale. `WholeHistory`
  says what does hold: nothing is missing or unscaled but by weeks some answer lacked.
* **A late candle stops at silver.** The DAG widens its window "so a late candle
  propagates to silver/gold on a later run" (`daily_btc_signal_dag.py:149-150`). It
  reaches silver; but once a later day has its RSI row, the late candle is never
  folded and never gets a signal (`rsi.py:80`). `OnTimeCandleGetsSignal` says what
  does hold.
* **A re-launch can lose a MERGE.** "MERGE is idempotent, so a single re-launch is
  safe" (`daily_btc_signal_dag.py:160`). The killed driver's Dataflow job goes on and
  replaces the shared staging table under the re-launch, whose MERGE then takes the
  orphan's rows; the launch succeeds without its own. `CompleteAtSignals` holds
  until that happens, `NoHole` and `Healed` say why the damage does not last.
* **A leg that leaves a book stays in the table.** Stage B upserts and never deletes
  (`portfolio_weights_stage.py:92`). A leg whose signal becomes exactly zero, or whose
  volatility a newly promoted scheme needs and its row does not have, keeps its weight of
  before beside the new ones, so a book may hold legs of two computations and a gross
  above 1, where `sql/DDL.sql:908` says gross 1. `StoredIsCurrent` says that all other
  legs are brought up to date.
* **A leg may join a week whose book is stored.** BTC's week comes with the DAG, an
  ETF's when somebody has ingested and conformed its bars. Until stage B runs again after
  that, the stored book is the one without the leg; a run of stage A alone changes the
  signals and not the book.
* **The newest Trends window outgrows weekly answers.** The refresh re-uses
  `MAX(window_start)` (`google_trends_btc_ingest.py:398`) "so the newest completed
  week lands" (`:20-21`), though a window "should be < ~5 years" (`:285`). The window
  grows until Google answers by month; from then on the new weeks are not stored,
  and the months enter the weekly table under the same window. With the
  configured start and lengths, the newest window of a back-fill made now starts on
  2022-12-29, and the limit is reached at the end of 2027. `NewestWeekLandsInYoungWindow` is therefore conditional. The comment at
  `:59-61` describes a look-back that the refresh does not use.
* **The trend opens below the lower bound.** `signals.py:8-12` and `sql/DDL.sql:789`
  say the trend is active while the weekly RSI is at least `weekly_rsi_trend_start`;
  the code opens it when the RSI of the week before is *at most* that bound
  (`signals.py:163`). `signals.py:18` also announces a SELL when the "trend just
  ended", which no branch emits.
* **A version with another RSI period stops the signals.** `sql/DDL.sql:788` says the
  period of the active version is "applied to both daily and weekly"; the pipeline
  computes features with `--rsi_period`, 14 by default (`pipeline.py:101`), and the
  signals stage then reads none, without an error.
* **Weekly candles of the past are touched.** `conform.py:194-196` says that only the
  current week is recomputed; every week from the range's first on is. That is what
  `WeeklyMatchesDaily` needs.
* **Revisions of older observations.** `fred_m2_ingest.py:231-233` says of the daily
  refresh that "any newly published or revised vintage is captured". It asks for
  observations of the last 60 days, so `UpToDate` holds for those and no others: a
  later revision of an older week never arrives, and its superseded row stays open.
  The feature view reads weeks 13 and 52 back "in the vintage current at d"
  (`sql/DDL.sql:1054-1068`) and so uses the old value until the next `--backfill`.
  The newest week, which the view reads first, is always inside the window.

## 8. What is not modelled

* Numbers: RSI arithmetic, OHLC fields other than the close, returns, statistics,
  the factors of the Trends view. `SilverSources` keeps which splits divide a price,
  not their product.
* Several symbols in the strategy-1 pipeline: the DAG runs one, and no stage relates
  two.
* Two pipeline runs at once (a run by hand beside the DAG's): one is modelled at a time,
  which is all the DAG guarantees. An ingest by hand may come at any time. Nor are two runs
  of strategy 3 at once.
* Exchange paging, client retries, HTTP, BigQuery quotas, Beam's own retries of a
  bundle: the libraries' business.
* Silver and weekly candles after an abandoned run: `pipeline_faults` and the theorems
  cover what becomes of RSI rows and signals there, not of candles. A day whose launch
  was abandoned leaves its window's oldest candle in bronze only (a hazard with no
  property).
* A split whose ex-date Tiingo has no bar of, and a Trends range loaded by hand
  between windows it shares no week with: both histories are in the models, but no
  property claims that they come out right, because they do not.
* Context ingests: two runs of one feed at once (the DAG runs one, but nothing stops
  a run by hand beside it; for Trends, where a back-fill takes minutes, it is
  modelled), and the CSV import of MVRV.
* Performance metrics, feature views, infrastructure, diagrams, research scripts.

## 9. Plan

The properties of the runs are modelled, checked and, liveness aside, proved. What is
left, in this order:

1. The safety halves of the other liveness properties, as that of the daily launch is
   (`LaunchDeliversHolds`): for `Healed`, that an undisturbed attempt which reaches the
   MERGE completes the table; for `BestBarReachesSilver` and
   `NewestWeekLandsInYoungWindow`, what a run or refresh that ends has brought in.
   TLC then has to be trusted only for the fairness itself.
2. Sharper hypotheses: `SilverMatchesBronze` and `WeeklyMatchesDaily` outside the ranges
   of abandoned runs and ingests by hand, instead of in histories without any; `NoRepaint`
   for days whose week has its RSI, instead of without single stages after abandoned runs.
3. Properties for the hazards that have none because the code does not come out right
   there, stated as what *does* hold (which rows of silver a launch without its
   second MERGE leaves behind, and for how long).
