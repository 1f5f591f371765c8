# TLA+ models of the Mantle / Bybit backtest

The repository's program is `src/mba`: six batch stages that scan a chain, quote
two pools, download an exchange's tape, and report whether an arbitrage between
them would have paid. This directory holds TLA+ models of those stages, the TLC
configurations that check them, and TLAPS proofs about all of them.

    tlc -config MCScan_settled.cfg MCScan.tla      # a run
    tlapm ScanEvents_proofs.tla                    # a proof

## 1. The system

| component | state it keeps | operations | what is hard about it |
|---|---|---|---|
| RPC client, `rpc.py` | pace, backoff, time of the last post | `call`, `batch`, `_post`, `safe_head`, `get_logs`, `block_timestamps` | throttling inside 200 responses, answers in any order, short or in part; retries and pacing share one clock; a load-balanced pool of nodes that are at different blocks |
| M1 scan, `m1_scan_events.py` | rows in memory; `raw_logs`, checkpoint, `state_changes` | `scan` | kills between the writes of a flush, torn files, resuming against another head, nodes that silently answer short |
| M2 quotes, `m2_quotes.py` | rows in memory; two part files per pool; `dex_state`, `dex_quotes` | `pass1_state`, `pass2_quotes`, `run` | an RPC error an hour into the job, part files shared by different windows, blocks that cannot be read, now or ever |
| M3 tape, `m3_bybit.py` | cache of daily files; tape, quotes, depth, book | `_fetch_day`, `download`, `build_quotes`, `_vwap`, `fetch_depth` | four threads and one exception, a file torn in the cache, a book inferred from prints of different age |
| M4 alignment, `m4_align.py` | `opportunities`, `intervals` | `slip_table`, `run` | a join that must not look ahead, rows that drop out, one condition written as two formulas |
| M5 report, `m5_report.py` | `windows`, summary, `report.md` | `assign_prints`, `find_windows`, `took_it`, `_summarise`, `_carry_table`, `_resolution`, `_write_md` | series with holes, edges of windows, two spans of time in one ratio, which file was there first |
| M6 attribution, `m6_attribution.py` | `swaps_decoded`, `attribution.md` | `decode_swaps`, `realized_profit`, `_cost_by_bucket` | two log formats, several swaps in one block |
| venue adapters, configuration, charts | none | encode and decode, constants, drawing | nothing concurrent |
| `src/monitor`, dispatch script, git hook | none | | an empty package; process tooling |

The stages are processes run one after the other by an operator, in the order of
`src/README.md`: M1, M2, M3, M6, M4, M5. They meet in the Parquet files under
`data/` only. Inside a stage there is one thread, but for M3's download; the
interleavings that matter are those of a process with the nodes of the RPC pool,
with the exchange's book, with the four threads, and with its own earlier runs
through the files they left. No file is written atomically.

What would make each component correct:

- RPC client: answers are paired with their calls; posts keep their distance;
  every request ends.
- M1: the published list is exactly the price-moving blocks of the window; a
  checkpoint is true of the rows beside it; a fresh run repairs what others left.
- M2: a delivery has every block that can be read; little is lost when a request
  fails; a job begun again is completed in the end.
- M3: no gap in the tape that is not reported; a quote bounds the book for as
  long as its age says; the walk over the book is the best execution there is.
- M4 and M5: a mid is past the breakeven just when the row makes a profit, which
  rows of both directions do at once only over two pools that are apart; a window is
  open when its pair is profitable, and where no two prints share a millisecond it
  counts no moment twice and a swap takes at most one; what the report concludes in
  different places tells one story.
- M6: a decoded direction agrees with how the mid moved; a swap costs at least
  the fee against the mid before it; what counts as profitable was an arbitrage.
- all of them: the two reports rest on the same data, and it is known what of it is old.

## 2. Modules

| module | models | abstract or composed of |
|---|---|---|
| `NodePool` | the nodes behind the RPC endpoint (external) | extended by `ScanEvents` |
| `ScanEvents`, `ScanProperties` | M1 `scan` and the part of `rpc.py` under it: a run is a process whose program counter follows the code from `safe_head` to the write of `state_changes`; a kill at any step, torn files | composed with `NodePool` |
| `RpcClient` | class `Rpc`: throttle, post, the look at the body, retry, backoff; time in ms | |
| `ResumableJob` | what a checkpointed job promises | abstract specification |
| `QuotePasses`, `QuoteProperties` | M2 `run` with both passes | implements `ResumableJob` twice |
| `TickArchive` | M3 `download` and `_fetch_day`: main thread, workers, cache, archive, calendar | |
| `BybitQuotes` | M3 `build_quotes`, as a fold that runs beside the exchange's book, and M4's as-of join of its rows | |
| `BookWalk` | M4 `slip_table`: the walk of `slip_fraction` over both sides for each rung, and where M3 `_vwap` differs | |
| `NetProfit` | M4 `run`'s legs, breakeven and net profit, M5's comparison | extends `BookWalk`: over every complete slip table |
| `ProfitWindows` | M4's interval rows, M5 `assign_prints`, `find_windows`, `took_it` over both sources of swaps | |
| `Verdict` | M5 `_summarise`, `_carry_table`, `_rungs`, `_resolution` and the conclusions of `_write_md` | extends `ProfitWindows`: over every table of windows |
| `Sums` | the sum over rows that the loops and columns of M4 and M5 take | extended by `BookWalk` and `ProfitWindows` |
| `Attribution` | M6 `decode_swaps`, `realized_profit` and `_cost_by_bucket` | |
| `Pipeline` | the stages, the order they are run in and the files they hand over | |
| `ScanEvents_proofs`, `RpcClient_proofs`, `QuotePasses_proofs`, `TickArchive_proofs`, `BybitQuotes_proofs`, `Attribution_proofs`, `Pipeline_proofs` | proofs about the module of that name | |
| `Reports_proofs` | proofs about the numbers of the reports: `BookWalk`, `NetProfit`, `ProfitWindows`, `Verdict` | two specifications side by side, on disjoint variables: `BookSpec` and `Spec` |

`MC*.tla` give the constants small values. `PROJECT.json` maps every definition
to its lines of code.

### How state and actions correspond to the code

- *ScanEvents*. `pc` is the next statement that touches the network or a file;
  `rows` counts copies of each log, since a resumed run may append a page twice;
  `raw`, `ck`, `changes` are the three files, each missing, torn or whole. One
  page of the loop is one action; the flush every tenth page is two writes, and
  so two actions. `lin` is a history variable: the run that last began from
  nothing, carried through every resume, and 0 once rows of one run have been
  combined with the checkpoint of another.
- *RpcClient*. One action per statement that waits: `throttle`, `post`, the
  answer, the backoff. The clock is the time since the last post, capped where no
  decision depends on it. A body is a list of items with ids, or one object.
- *QuotePasses*. Both passes have one shape in the code and share their actions;
  a row stands for all rows of a block. A block is skipped if its state calls fail,
  which they do in every run (`Undecodable`), or if the header comes back null, which
  may happen to any block in one run and not in the next (`missed`).
- *TickArchive*. A worker's step is a statement of `_fetch_day`; `result` is what
  `pool.map` yields; leaving the `with` blocks waits for the threads.
- *BybitQuotes*. The code folds a sorted table. The model advances the fold
  together with the exchange, whose `book` and `moved` no action of the code
  reads, so that a row can be compared with what was really there. Prints of one
  millisecond are read in every order, because the sort is by timestamp alone; and
  since M4 sorts the rows once more by timestamp alone, `latest` holds all rows of the
  last millisecond and `Join` takes any.
- *BookWalk*. One action per turn of the loop and one per return: for each rung
  the bids are walked, then the asks. `qty` is a whole number of 1/`Unit` lots, so
  nothing is rounded; the tolerances 1e-9 and 1e-6 of the float code have no
  counterpart. Its names begin with `Book` where the proofs read it beside
  `ProfitWindows`.
- *NetProfit*. Operators on a complete table, in exact fractions, not reduced. A row of M2 is
  the pool's mid and what the pool charges; gas and the Bybit mid are inputs.
- *ProfitWindows*. M4 and M5 are pure functions of two tables. The tables grow
  in time, and the SQL's result is an operator on them; a property is checked of
  every prefix. LAG, LEAD, SUM and first() of `find_windows` are four windows of the
  query, each `ORDER BY ts`, and SQL leaves open in which order each takes the prints
  of one millisecond. So a print carries its place among them, `tie`, for each pair
  and each of the four (`Orders`), any of `Ties`; `Before` puts two prints in the
  order of one of them. A sum over windows (`TotalMs`, `UncapturedActionable`) runs
  over the prints that open one.
- *Verdict*. Operators on the windows. A size is counted in MNT at one price, so
  that profits and carries are whole numbers; `CarryRate` is the capital multiple
  and the yearly rate, for one millisecond.
- *Attribution*. The same form: the pool's life fills the tables, M6 is an
  operator on them. The book M6 walks is a depth of each side and one slippage
  (the walk itself is `BookWalk`), the Bybit mid at a swap may be any.
- *Pipeline*. A file is the run that wrote it and everything it rests on. Most files
  are made anew from what the stage reads. Two stages also go by files of their own:
  M1 by its checkpoint and rows, which it adds to if the head has not moved and stops
  over if they are torn (`LacksOwn`), and M2 by its part files (`parts`), which keep
  the rows of every month and lose them only by being torn. `Kept` is what a run finds
  there. A month is one round of the operator through the six stages.

## 3. Runs

Every passing run explores its whole state space. Each property is paired in
`PROJECT.json` with a slip of the code (defined in the module, under "Slips the
code could contain and does not") that makes TLC find it violated.

| run | question | bounds and why they are enough |
|---|---|---|
| `scan_settled` | is the published list exact under kills, torn files and resumes, and does a fresh run repair the files? | 2 nodes, skew = lag = 1; windows of 3 and 6 blocks in pages of 2, flushed every 2: a window has a last page that is cut and a flush that is not the last. 3 runs: one to leave a pair of files, one to spoil it, one to trust it |
| `scan_skewed` | and with nodes further apart than the lag, and does every run end? | skew 3, lag 1; 2 candidates, so that `safe_head` walks back and gives up; 3 runs |
| `rpc_client` | pacing and pairing under throttling; does every request end? | the real intervals; batches of 2 with bodies of up to 3 items: swapped, short, repeated, refused in part; delays below, between and beyond the intervals |
| `quote_passes` | are deliveries complete, is loss bounded, is it a resumable job, is it delivered in the end? | 2 pools, 2 windows that overlap, a limit, one block that can never be read, one batch whose headers come back null in part or in whole, 1 kill and any number of failed runs; batches of 2 and a flush every 2 batches, so that a pass has batches that are flushed and batches that are not |
| `tick_archive` | is a gap always reported, do threads stay apart, does every run end? | 2 threads on 3 of 4 days, a window that slides, 2 kills with torn files below and above 1024 bytes |
| `bybit_quotes` | what does a reconstructed quote bound, and a match with it? | 4 ticks, 3 ms of trading and a fourth to match a block at, at most 2 prints read in one ms: room for a book to move between the two sides, cross, and come back; a row whose other side is older than itself, matched later still, so that lag and age are both positive and only their sum bounds anything; a lag limit of 0, so that rows fall on both sides of it |
| `book_walk` | is the walk the best execution, and does the breakeven decide the profit? | every book of up to 3 levels a side at 5 prices, of 1 or 2 lots; 4 rungs, from less than a level to more than any book; every fill of the same notional is compared. On each table: pool mids amid the book, a pool that charges and one that does not, with gas and without, Bybit mids below and above the breakevens, a fee of a tenth |
| `windows` | are windows exact, and disjoint and taken once but at shared milliseconds, and do the verdicts agree? | 3 ms, 4 prints, 3 blocks, pairs of both directions; blocks that are full, partial and failed; prints and blocks that share a millisecond, and prints that LAG, LEAD and SUM then take in different orders; a floor of 2 ms, so that windows fall on both sides of it, and a carry that some profits reach, some double and some miss |
| `attribution` | do decoded trades, their costs and their profits agree with the mids? | both kinds of pool, 3 blocks, 3 swaps, several in one block, blocks M2 has no mid of; bids that absorb the smaller swaps only; Bybit mids below, amid and above the pool's |
| `pipeline` | do the two reports rest on one version of every file, what of it is old, and what does a stage find? | each month in the README's order or in the numerical one; two months and 10 runs of stages: the first month up to M6 and a full second one after it, or months with failures in them |

CHECK_DEADLOCK is FALSE where the modelled activity ends: the tape or the
month is over, the walk is done, the bound on runs is reached, or an operator
stops starting runs.

What the code does not keep is not asked of it: with as many undecodable blocks at
the head of a pass as a batch holds (`MCUndecodable == <<{2, 4}, {}>>` in `MCQuotes`)
`DeliveredAgain` is violated, as every run spends its one batch on them.

Every state machine has a type invariant. `scan_skewed` checks that of the scan;
the others are not in the configurations, which are kept to the properties that
say something of the code. They hold when added there, and the proofs below
establish every one of them. `HeadMargin`
says more than `HeadServedByAll` does in `MCScan_settled`, where it holds too.

### Claims the models refute

Sentences of the code's own documentation that the code does not keep. Two of
them have a run that expects the violation:

| run | claim | what happens |
|---|---|---|
| `full_claim` | `m1_scan_events.py:24`, "full 29-day scan, resumable" | killed between the rows and the checkpoint, a later run trusts a pair of two runs and publishes a gap |
| `pipeline_thin_book` | `m4_align.py:106`, unfillable sizes are marked | M5 takes `max()` of a `None` and writes no report |

The others are stated in the modules beside the properties that do hold. Added
to the INVARIANTS (`ResumeKeepsPages`: PROPERTIES) of the configuration named
here, each is violated within seconds.

| definition, configuration | claim | what happens |
|---|---|---|
| `HeadServedByAll`, `MCScan_skewed` | `rpc.py:138`, "a head block every node in the pool can actually serve" | one node resolves the candidate, another does not have it |
| `ResumeKeepsPages`, `MCScan_settled` | `m1_scan_events.py:24`, "full 29-day scan, resumable" | the head has moved, the start with it, and all pages are fetched again |
| `NeverTighter`, `MCBybit` | `m3_bybit.py:14`, "it can only ever be wider than the true book, never tighter" | the book moves after a print; also stated in the report M5 writes |
| `UnflaggedIsFresh`, `MCBybit` | `config.py:170`, rows past the limit are flagged | only the newer of the two prints is compared with the limit |
| `OpenOnlyIfQuoted`, `MCWindows` | `m5_report.py:101`, boundaries "are IDENTICAL across all 12 combinations" | M4 drops a partial quote, the inner join its prints, and a window spans the hole |
| `MissedBelowFloor`, `MCWindows` with `LastMs = 4`, `MaxPrints = 2` | `m5_report.py:699`, intervals without a print are "short by construction" and "below the actionable floor anyway" | nothing bounds how long the tape is silent: an interval of two floors holds no print |
| `FlickersAreSinglePrints`, `MCWindows` | `m5_report.py:596`, the windows below the floor are "single-print flickers" | two prints within the floor make one such window |
| `NamedRungsSurvive`, `MCWindows` | `m5_report.py:413`, "Only ... survives halving the profit" | rungs that survive need not be neighbours, and `_rungs` names a range |
| `UnpricedHasNoFigure`, `MCAttribution` | `m6_attribution.py:189`, a swap the book cannot absorb "gets no realized figure" | "priced" asks both sides, the figure is taken from the one that closes the swap |
| `CostAgainstPreSwapMid`, `MCAttribution` | `m6_attribution.py:278`, "the pool's own PRE-swap mid" | the second swap of a block is measured against the mid before the first |
| `AlwaysResumable`, `MCScan_settled` | `m1_scan_events.py:24`, "resumable" | a kill while the checkpoint is written: `json.loads` raises on every resume until `--no-resume` |
| `WindowsApart`, `MCWindows` | `m5_report.py:136`, "Maximal runs of profitability" | two prints of one millisecond that LAG and SUM take in different orders: two runs of one pair interleave, and their windows overlap |
| `ReportsOfThisMonth`, `MCPipeline` | `src/README.md`, the question is of "the past ~29 days" | M2 delivers its part files whole, rows of earlier months included |
| `SwapsOfThisMonth`, `MCPipeline` | `m5_report.py:71`, falls back "rather than quietly overstating" | in the order that docstring names, a second month counts the first month's swaps |
| `SixNeedsOneAndThree`, `MCPipeline` with `Orders <- EarlyOrder` | `src/README.md:73`, "M6 only needs M1 and M3" | it reads M2's `dex_quotes` for the hurdle |

### Fairness

Liveness is checked under weak fairness of steps that cannot be refused: a
process goes on when it can (`RunStep`, `ClientStep`, `Main`, a worker), and the
endpoint answers or times out, as the code sets a timeout on every request
(`EndpointStep`, `RpcGivesUp`). A kill is never fair, nor is the growth of the
chain. `DeliveredAgain` also assumes that the operator starts the job again, and
that of the runs that ask for the first batch of a pass some get an answer
(strong fairness of `FirstBatch`); without that no job can be promised, since
every run may fail before it has anything to save. All later batches may fail in
every run.

## 4. Proofs

TLAPS proves, for all values of the constants that meet the named assumptions
(`ScanAssumption`, `ClientAssumption`, ...: the numbers are natural, the sets
finite where the code's are):

| theorem | of | along |
|---|---|---|
| **`ScanEvents_proofs`** | | |
| `Typing` | `TypeOK` | inductive as it stands |
| `SafeHeadMargin` | `HeadMargin` | `MarginInv`: the pool is within its skew, and a candidate has the margin from the moment `eth_blockNumber` is answered. Tips only grow, so the margin is kept |
| `SafeHeadServedByAll` | `HeadServedByAll`, if `Settled` | from the margin |
| `SettledPoolServes` | `NeverNotFound`, if `Settled` | `ServedInv`: every row, in memory and on file, is of a block that all nodes serve, so the timestamps of resumed rows can be asked of any |
| `CheckpointIsHonoured` | `CheckpointHonoured`, if `Settled` | `LineageInv` and `CoverInv`: rows in memory cover the window up to the cursor, the checkpoint of the same lineage is never ahead of it, and between the two writes of a flush the file holds what memory holds |
| `CopiesAreBounded` | `CopiesBounded` | `CopiesInv`: past the cursor there is one copy less |
| `ListIsExact` | `PublishedExact`, if `Settled` and `DayBeyondLag` | `CoverInv` gives that nothing is missing; `WindowInv` that nothing is too much: see below |
| `OnlyTheTailIsLost` | `PublishedSettledPart`, if `OneWindow` and `Lag <= Skew` | `SettledPartInv`: as `CoverInv`, of the blocks that the margin of `safe_head` puts on every node; runs over one number of days that share a start share the head |
| `FreshRunHealsFiles` | `FreshRunHeals` | `FreshInv`: a run that does not resume has a lineage from its start; between the two writes of a flush the rows on file are its own, and after the last flush, which ends the loop, so is the checkpoint |
| **`RpcClient_proofs`** | | |
| `ClientTyping`, `PostsArePaced`, `BatchesKeepOrder` | `TypeOK`, `Paced`, `BatchInOrder` | one invariant: a request under way has no outcome, and a call is a batch of one whose body is one item with its id |
| **`QuotePasses_proofs`** | | |
| `QuoteTyping`, `DeliveriesAreComplete` | `TypeOK`, `DeliveryComplete` | `Progress`: what a pass still wants is among its rows or to do; pools done before have on file just what the process holds of them; pass 2 starts from all states |
| `LossesAreBounded` | `LossBounded` | `LossInv`: with `batch_i` batches since the last flush, at most so many batches of rows are in memory only |
| `PassesImplementJobs` | `ImplementsJobs` | step simulation of `ResumableJob`, one instance for each pass |
| **`TickArchive_proofs`** | | |
| `ArchiveTyping`, `ThreadsStayApart`, `TapesAreComplete` | `TypeOK`, `ThreadsApart`, `TapeComplete` | `Known`: a day that was taken as whole is whole in the cache, one taken as missing was not served, and all days before the next one are taken |
| **`BybitQuotes_proofs`** | | |
| `Typing` | `TypeOK` | with the typing of unread prints |
| `EnvelopeBoundsBook`, `CrossedMeansMoved`, `MatchBoundsBook` | `EnvelopeHolds`, `CrossedIsStale`, `MatchHolds` | below |
| **`Reports_proofs`**, the walk | | |
| `TableTyping`, `SpreadIsIncluded` | `BookTypeOK`, `NoBetterThanTouch` | `BookInv`, with the order of the snapshot's sides: what a level adds is no better than the first level, and neither is the sum |
| `WalkIsHonest` | `FillIsHonest` | `Totals`: the totals are the sums over the levels passed, of the last of them what was left to spend. A walk that ended has filled the order or passed every level |
| `WalkIsBest` | `BestExecution` | `Exchange`: below |
| **`Reports_proofs`**, the economics | | |
| `BreakevenDecides` | `BreakevenExact` | `TableSoFar`: what a finished walk left in the table is the whole notional, or nothing just where the side is too thin. Then both formulas are one comparison of products |
| `OneDirectionPays` | `NeverBothWays` | the best bid is below the best ask, so what the bids pay is below what the asks cost: A needs Bybit above the price of its pool by more than that, B below that of its own. Both at one moment put the price of A's pool below that of B's, and in one pool what it takes for an MNT is no less than what it gives |
| **`Reports_proofs`**, the month | | |
| `MonthTyping` | `TypeOK` | `Month`: rows lie in the past, prints in order, changes in strict order |
| `OneWindowEach`, `TakersAreCounted`, `NoTakerIsLost` | `TookOnceUnlessShared`, `TakerCounted`, `TakersKept` | a window is open just while one of its prints is held, and a moment is held by one print only unless the last prints share a millisecond: below |
| `WindowsAreExact` | `ExactBetweenChanges` | the same, and that the change in force is the block the last print was assigned to |
| `NoMomentTwice` | `TimeCountedOnceUnlessShared` | by induction over the prints that open a window: each adds as many moments as it lasts, and a moment is open in two windows at most, and in two only if it is shared; what is open lies in the span |
| `VerdictsTellOneStory` | `VerdictsAgree` | a profit to weigh needs a window of the floor's length, and that the prints, and so the blocks around them, span some time: the carry is not 0. Profits of windows are positive, so their sum is 0 just where there is none to reach. `_rungs` goes from the least to the greatest rung that passes, which exist because the ladder is finite |
| **`Attribution_proofs`** | | |
| `TradeTyping`, `FeeIsTheFloor`, `SwapsMoveTheMid`, `ProfitIsArbitrage` | `TypeOK`, `FeeFloor`, `DirectionMovesMid`, `ProfitNeedsGap` | `Recorded` (a log stands for its trade), `Paid` (a trade pays the fee on top of a price no better than the mid it met), `Carried` (until somebody swaps, a block has the mid the last one ended with), `Pushed` (a lone swap moved it its own way) |
| **`Pipeline_proofs`** | | |
| `PipelineTyping` | `TypeOK` | with the order a list of stages, which needs that there are finitely many; in any order, not only the README's |
| `InputsAreReady`, `ReportsAlwaysAgree`, `OnlyPartsOutlive` | `InputsReady`, `ReportsAgree`, `OnlyPartsAreOld` | `MonthInv` and `OwnRows`: below |

Seven arguments in more detail:

- `PublishedExact` needs that no row is of a block outside the window, also when
  the rows come from a run with another `--days`. Such a run had the same start,
  or its checkpoint would not be recognised; if it had more days, its head was a
  day beyond, all nodes had reached it, and a later run settles on a head at most
  `Lag` blocks before it. So a day must be longer than the lag (`DayBeyondLag`):
  43,200 blocks against 60 in `config.py`, and TLC publishes rows past the head
  when it is not.
- `EnvelopeHolds` is not inductive: it speaks of the last row, but the next row is
  made from one new print and one carried price. The invariant adds that each
  carried price bounds its side of the book unless the book has moved since its
  print (`SideInv`), that an unread print bounds the book unless the book moved in
  this very millisecond (`TapeInv`), and that a row's age leads back to the older
  of the two prints (`QuoteInv`). `MatchInv` says the same of a matched row and
  the history of the book at its block.
- `LossBounded` counts blocks, so its invariant carries that all sets at hand are
  finite and that a batch, the least blocks to do, has at most `Batch` of them.
- `BestExecution` compares the greedy walk with every other choice of amounts.
  Prices fall away from the best level, so a unit of notional buys more from each
  further bid and less from each further ask. `Exchange` measures every unit by
  its distance from the level the walk ended at: taking less than all of an earlier
  level, or anything of a later one, can only move the sum the wrong way.
- A window is defined by SQL over rows, and the properties are about moments.
  `Holds` relates the two: a kept print holds the time until the next kept one, by
  LEAD, which gives every moment to one print at most (`HeldOnce`). A run has the
  changes LAG saw up to it, counted in SUM's order, and of two such sets one contains
  the other (`RunsAre`). A window that is open holds the moment by one of its prints,
  or straddles it with prints before and after (`InsideIsHeld`); two runs that
  straddle one moment are one (`OneStraddles`). So at most two windows of a pair are
  open at once, and then the last prints share a millisecond, or LAG and SUM would
  agree that the run ended there (`OpenTwice`, `UntiedIsExact`). `BlockOf` the last
  print is the change in force because the first kept print proves it joined.
- `Pipeline`'s order. `Rank` is the place at which the README's order first writes a
  file, `Here` that of the next one, and `Made` the files ranked before it. `MonthInv`:
  in that order they are whole, rest on each other as they are now, and on runs of
  this month or on what the parts have kept (`FromParts`). M1's rows are the exception
  that needs care: they are added to if the checkpoint fits, so the rows a fitting
  checkpoint leads to must be of this month (`FittingRows`), and they are written once
  more after the checkpoint. `OwnRows` says what the kept rows can rest on in any
  order, so that nothing the two reports share comes by way of old parts in two
  versions (`BehindIs`).
- `ProfitNeedsGap` is of products: slippage and taker fee only worsen the close,
  so a profit at them is one without, and the trade paid the mid and the fee.

`Settled` (the skew is within `HEAD_LAG_BLOCKS`) is what `config.py:72-76` hopes
for and nothing in the code can know. Without it `HeadServedByAll` is refuted and
`PublishedSettledPart` is what remains: the list may lack the last `Skew - Lag`
blocks of its window, and no others.

Sums and the numbers of levels, prints and windows have no bound in these theorems,
so some of their lemmas are inductions. The library's induction rule takes an
operator; instead the set of numbers a claim holds for is shown to be all of `Nat`
(`NatIsLeast`, from `WFMin` and the well-foundedness of `<`), and `SumEquation` shows
by the same means that the recursion of `SumTo` has a solution.

Assumptions that only these proofs need are ones the code keeps: the taker fee is
not all of a trade (`FeeUnits` > 1, 1000 in `config.py`), a null is not a number,
and a month has a first millisecond. `VerdictAssumption` has a floor, a carry rate
and a finite ladder of sizes above 0, as `config.py` does; with a rate of 0 the
inventory table would divide by 0.

Only model-checked: liveness (`RunEnds` of the scan and of the download,
`RequestEnds`, `DeliveredAgain`), which like anything with ENABLED is out of the
prover's reach. Every other property of a passing run is a theorem. There are no
RECURSIVE operators.

## 5. What is not modelled

- Venue adapters (what a quoter call encodes and decodes), the multicall codec of
  `rpc.py`, charts, formatting of both reports, command lines: no state.
- Floats. Prices are ticks, sums and fractions exact, so nothing here says how
  rounding accumulates.
- What the pools quote (the liquidity curve) and how gas is computed from the base
  fee: inputs of `NetProfit`. The hurdle in bps is printed only.
- M5's quantiles, medians and cost tables; that `assign_prints` raises on a pool
  without a print in its span (`m5_report.py:129`).
- M6's addresses, roles and report.
- The fate of single quotes inside a block of M2 (`m2_quotes.py:166`). A block
  whose quotes failed in part enters `ProfitWindows` as a block without some of
  its pairs.
- Reorganisations of the chain: the scan stays `HEAD_LAG_BLOCKS` behind and does
  not look for them.
- `src/monitor` is empty; the dispatch script and the git hook are not part of
  the program.

## 6. Plan

Done: scan and node pool, client, quoting passes, download, quotes, book walk and
slip table, economics, windows, verdict, attribution with realized profit,
pipeline; proofs of every invariant and action property the passing runs check.

Left, in order of what the reports depend on most:

1. `RpcClient` under `QuotePasses`: what a batch may leave unanswered, so that
   quotes of a block can fail one by one.
2. An abstract `Scan`, a list that is published once and exact, with `ScanEvents`
   as its implementation; an abstract window, the set of moments a pair was
   profitable at, with `ProfitWindows`.
3. M6's addresses: one sample transaction per beneficiary, and what a bucket says
   of the rest.
