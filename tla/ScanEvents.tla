----------------------------- MODULE ScanEvents -----------------------------
(***************************************************************************)
(* M1, src/mba/m1_scan_events.py: the resumable eth_getLogs scan that      *)
(* builds the list of price-moving blocks, together with the part of       *)
(* src/mba/rpc.py it stands on (safe_head, get_logs, block_timestamps).    *)
(*                                                                         *)
(* A run is one process.  Its memory is lost when it ends, for whatever    *)
(* reason; the three files it writes survive.  The nodes of the pool       *)
(* advance between any two steps of a run and between runs.                *)
(***************************************************************************)
EXTENDS NodePool

CONSTANTS
    Pools,          \* config.POOLS
    Logs,           \* every log of these pools on the chain (see LogsAssumption)
    BlocksPerDay,   \* config.BLOCKS_PER_DAY
    DaysSet,        \* the values of --days an operator uses
    Lag,            \* config.HEAD_LAG_BLOCKS
    HeadTries,      \* candidates safe_head tries (10)
    Span,           \* config.GETLOGS_MAX_SPAN
    FlushEvery,     \* pages between two flushes (10)
    TornWrites,     \* whether a kill may leave a half-written file behind
    MaxRuns         \* bound: how many times the scan is started

PRICE_MOVING == {"Swap", "Mint", "Burn", "DepositedToBins", "WithdrawnFromBins"}

EventNames == PRICE_MOVING \cup {"Collect", "unknown"}

ASSUME ScanAssumption ==
    /\ BlocksPerDay \in Nat \ {0}
    /\ DaysSet \subseteq Nat \ {0}
    /\ Lag \in Nat
    /\ HeadTries \in Nat \ {0}
    /\ Span \in Nat \ {0}
    /\ FlushEvery \in Nat \ {0}
    /\ TornWrites \in BOOLEAN
    /\ MaxRuns \in Nat

\* A log is known by its block and its index in it (log_index); of the rest of
\* it the scan uses the pool it comes from and the name its topic0 decodes to.
ASSUME LogsAssumption ==
    Logs \subseteq [pool: Pools, block: Nat, log_index: Nat, name: EventNames]

VARIABLES
    pc,         \* what the running process does next, or "idle"
    days,       \* --days of the run
    resume,     \* not --no-resume
    head,       \* candidate, then head
    tries,      \* candidates safe_head has rejected
    cursor,     \* first block not fetched yet
    page,       \* pages fetched in this run, modulo FlushEvery
    rows,       \* rows[l]: how often log l stands in the row list
    raw,        \* raw_logs.parquet
    ck,         \* m1_checkpoint.json
    changes,    \* state_changes.parquet
    exit,       \* how the last run ended
    \* History variables: nothing in the code reads them.
    runs,       \* runs started
    kills,      \* runs killed
    lin         \* the run whose row list this run continues; 0: two runs' mixed

memory  == <<days, resume, head, tries, cursor, page, rows, lin>>
files   == <<raw, ck, changes>>
history == <<runs, kills>>
vars    == <<tip, pc, memory, files, exit, history>>

-----------------------------------------------------------------------------
(* Slips that the code could contain and does not.  The specification uses  *)
(* none of them: put in place of the definition they vary, each must break *)
(* a property of ScanProperties.                                           *)

HeadCandidateNoLag(t) == t
RetryOnceMore == tries < HeadTries
PageEndUncapped(from) == from + Span - 1
NextCursorOverlaps(to_blk) == to_blk
NextCursorSkips(to_blk) == to_blk + 2
ConsideredAlways == ck.st # "missing" /\ raw.st # "missing"

-----------------------------------------------------------------------------
(* The pure parts of the scan. *)

start == head - days * BlocksPerDay

HeadCandidate(t) == t - Lag

StepBack == IF Lag = 0 THEN 30 ELSE Lag

RetryLeft == tries + 1 < HeadTries

PageEnd(from) == IF from + Span - 1 <= head THEN from + Span - 1 ELSE head

NextCursor(to_blk) == to_blk + 1

FlushDue(p, c) == p % FlushEvery = 0 \/ c > head

NoRows == [l \in Logs |-> 0]

\* What node n answers to eth_getLogs over [from, to].
GetLogs(n, from, to) ==
    {l \in Logs : l.block \in from..to /\ Serves(n, l.block)}

Append(page_logs) == [l \in Logs |-> rows[l] + IF l \in page_logs THEN 1 ELSE 0]

HasSwaps(pool) == \E l \in Logs : rows[l] > 0 /\ l.pool = pool /\ l.name = "Swap"

\* One point per (pool, block) among the price-moving logs of a set.
PointsOf(S) == {<<l.pool, l.block>> : l \in {k \in S : k.name \in PRICE_MOVING}}

Points == PointsOf({l \in Logs : rows[l] > 0})

Missing == "missing"
Torn    == "torn"
Ok      == "ok"

NoRaw     == [st |-> Missing, rows |-> NoRows, lin |-> 0]
NoCk      == [st |-> Missing, start |-> 0, cursor |-> 0, head |-> 0, lin |-> 0]
NoChanges == [st |-> Missing, start |-> 0, head |-> 0, points |-> {}, lin |-> 0]

RawFile     == [st |-> Ok, rows |-> rows, lin |-> lin]
CkFile      == [st |-> Ok, start |-> start, cursor |-> cursor, head |-> head,
                lin |-> lin]
ChangesFile == [st |-> Ok, start |-> start, head |-> head, points |-> Points,
                lin |-> lin]

-----------------------------------------------------------------------------
Init ==
    /\ PoolInit
    /\ pc = "idle"
    /\ days = 0 /\ resume = FALSE /\ head = 0 /\ tries = 0
    /\ cursor = 0 /\ page = 0 /\ rows = NoRows /\ lin = 0
    /\ raw = NoRaw /\ ck = NoCk /\ changes = NoChanges
    /\ exit = "none"
    /\ runs = 0 /\ kills = 0

\* The process ends; its memory is gone.
Leave(code) ==
    /\ pc' = "idle"
    /\ exit' = code
    /\ days' = 0 /\ resume' = FALSE /\ head' = 0 /\ tries' = 0
    /\ cursor' = 0 /\ page' = 0 /\ rows' = NoRows /\ lin' = 0

\* main(): the operator starts a run.
Start ==
    /\ pc = "idle"
    /\ runs < MaxRuns
    /\ pc' = "number"
    /\ days' \in DaysSet
    /\ resume' \in BOOLEAN
    /\ runs' = runs + 1
    /\ UNCHANGED <<tip, head, tries, cursor, page, rows, lin, files, exit, kills>>

\* safe_head: eth_blockNumber, answered by node n, minus the lag.
BlockNumber(n) ==
    /\ pc = "number"
    /\ head' = HeadCandidate(tip[n])
    /\ tries' = 0
    /\ pc' = "resolve"
    /\ UNCHANGED <<tip, days, resume, cursor, page, rows, lin, files, exit, history>>

\* safe_head: node n resolves the candidate, or safe_head steps back and asks
\* again, or it has tried HeadTries candidates and raises.
ResolveHead(n) ==
    /\ pc = "resolve"
    /\ \/ /\ Serves(n, head)
          /\ pc' = "head_ts"
          /\ UNCHANGED <<memory, exit>>
       \/ /\ ~Serves(n, head)
          /\ RetryLeft
          /\ head' = head - StepBack
          /\ tries' = tries + 1
          /\ UNCHANGED <<pc, days, resume, cursor, page, rows, lin, exit>>
       \/ /\ ~Serves(n, head)
          /\ ~RetryLeft
          /\ Leave("not_found")
    /\ UNCHANGED <<tip, files, history>>

\* block_timestamps([head]) raises when the node that answers lacks the block.
HeadTimestamp(n) ==
    /\ pc = "head_ts"
    /\ \/ /\ Serves(n, head)
          /\ pc' = "load"
          /\ UNCHANGED <<memory, exit>>
       \/ /\ ~Serves(n, head)
          /\ Leave("not_found")
    /\ UNCHANGED <<tip, files, history>>

\* Both files exist, so the checkpoint is parsed.
Considered == resume /\ ck.st # Missing /\ raw.st # Missing

SameStart == ck.start = start

Lineage == IF raw.lin = ck.lin THEN ck.lin ELSE 0

\* The scan continues from the files, or begins at start, or fails to read one
\* of them: a torn checkpoint always, torn rows only when they are wanted.
Load ==
    /\ pc = "load"
    /\ \/ /\ Considered => ck.st = Ok /\ ~SameStart
          /\ cursor' = start /\ rows' = NoRows /\ lin' = runs
          /\ page' = 0 /\ pc' = "page"
          /\ UNCHANGED <<days, resume, head, tries, exit>>
       \/ /\ Considered /\ ck.st = Ok /\ SameStart /\ raw.st = Ok
          /\ cursor' = ck.cursor /\ rows' = raw.rows /\ lin' = Lineage
          /\ page' = 0 /\ pc' = "page"
          /\ UNCHANGED <<days, resume, head, tries, exit>>
       \/ /\ Considered
          /\ ck.st = Torn \/ (SameStart /\ raw.st = Torn)
          /\ Leave("bad_file")
    /\ UNCHANGED <<tip, files, history>>

\* One turn of the loop, up to the decision to flush.
FetchPage(n) ==
    /\ pc = "page"
    /\ cursor <= head
    /\ rows' = Append(GetLogs(n, cursor, PageEnd(cursor)))
    /\ cursor' = NextCursor(PageEnd(cursor))
    /\ page' = (page + 1) % FlushEvery
    /\ pc' = IF FlushDue(page + 1, cursor') THEN "flush" ELSE "page"
    /\ UNCHANGED <<tip, days, resume, head, tries, lin, files, exit, history>>

\* A flush writes the rows first, then the checkpoint.
FlushRaw ==
    /\ pc = "flush"
    /\ raw' = RawFile
    /\ pc' = "checkpoint"
    /\ UNCHANGED <<tip, memory, ck, changes, exit, history>>

FlushCheckpoint ==
    /\ pc = "checkpoint"
    /\ ck' = CkFile
    /\ pc' = "page"
    /\ UNCHANGED <<tip, memory, raw, changes, exit, history>>

\* After the loop the rows are written once more.
FinalRaw ==
    /\ pc = "page"
    /\ cursor > head
    /\ raw' = RawFile
    /\ pc' = "check"
    /\ UNCHANGED <<tip, memory, ck, changes, exit, history>>

\* Every pool must show swaps, or the run aborts.  (With no row at all the code
\* stops a few lines earlier, on a missing column, with the same files.)
CheckSwaps ==
    /\ pc = "check"
    /\ \/ /\ \A p \in Pools : HasSwaps(p)
          /\ pc' = "stamp"
          /\ UNCHANGED <<memory, exit>>
       \/ /\ \E p \in Pools : ~HasSwaps(p)
          /\ Leave("abort")
    /\ UNCHANGED <<tip, files, history>>

\* block_timestamps of every point's block.
StampBlocks(n) ==
    /\ pc = "stamp"
    /\ \/ /\ \A pt \in Points : Serves(n, pt[2])
          /\ pc' = "publish"
          /\ UNCHANGED <<memory, exit>>
       \/ /\ \E pt \in Points : ~Serves(n, pt[2])
          /\ Leave("not_found")
    /\ UNCHANGED <<tip, files, history>>

Publish ==
    /\ pc = "publish"
    /\ changes' = ChangesFile
    /\ Leave("published")
    /\ UNCHANGED <<tip, raw, ck, history>>

\* An RPC request fails through all its retries and RpcError ends the run.
RpcGivesUp ==
    /\ pc \in {"number", "resolve", "head_ts", "stamp"} \/ (pc = "page" /\ cursor <= head)
    /\ Leave("gave_up")
    /\ UNCHANGED <<tip, files, history>>

\* The process is killed, perhaps in the middle of writing a file.
Kill ==
    /\ pc # "idle"
    /\ kills' = kills + 1
    /\ Leave("killed")
    /\ \/ UNCHANGED files
       \/ /\ TornWrites
          /\ pc = "flush" \/ (pc = "page" /\ cursor > head)
          /\ raw' = [NoRaw EXCEPT !.st = Torn]
          /\ UNCHANGED <<ck, changes>>
       \/ /\ TornWrites
          /\ pc = "checkpoint"
          /\ ck' = [NoCk EXCEPT !.st = Torn]
          /\ UNCHANGED <<raw, changes>>
       \/ /\ TornWrites
          /\ pc = "publish"
          /\ changes' = [NoChanges EXCEPT !.st = Torn]
          /\ UNCHANGED <<raw, ck>>
    /\ UNCHANGED <<tip, runs>>

NodeStep(n) ==
    BlockNumber(n) \/ ResolveHead(n) \/ HeadTimestamp(n) \/ FetchPage(n) \/ StampBlocks(n)

LocalStep ==
    Load \/ FlushRaw \/ FlushCheckpoint \/ FinalRaw \/ CheckSwaps \/ Publish

\* What a run does when nothing interrupts it.
RunStep == LocalStep \/ \E n \in Nodes : NodeStep(n)

Advance(n) == Ingest(n) /\ UNCHANGED <<pc, memory, files, exit, history>>

Next == RunStep \/ Start \/ RpcGivesUp \/ Kill \/ \E n \in Nodes : Advance(n)

Spec == Init /\ [][Next]_vars

\* Every request is answered or given up on: each has a timeout and a bounded
\* number of retries, and the rest of a run is local work.
FairSpec == Spec /\ WF_vars(RunStep \/ RpcGivesUp)

=============================================================================
