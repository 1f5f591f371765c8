--------------------------- MODULE ScanProperties ---------------------------
(***************************************************************************)
(* What the scan of ScanEvents promises: the properties its runs check and *)
(* its proofs establish.                                                   *)
(***************************************************************************)
EXTENDS ScanEvents

\* A pool as config.py hopes for: no node is further behind than the lag.
Settled == Skew <= Lag

HeadFound == {"head_ts", "load", "page", "flush", "checkpoint", "check", "stamp", "publish"}
Loaded    == HeadFound \ {"head_ts", "load"}
Running   == HeadFound \cup {"number", "resolve"}

Copies == [Logs -> Nat]

FileStates == {Missing, Torn, Ok}

\* Every log of the blocks from..to-1 is among the rows.
Covers(r, from, to) == \A l \in Logs : l.block \in from..(to - 1) => r[l] > 0

LogsIn(from, to) == {l \in Logs : l.block \in from..to}

\* Types of the process's memory, of the files and of the history variables.
TypeOK ==
    /\ PoolTypeOK
    /\ pc \in Running \cup {"idle"}
    /\ days \in DaysSet \cup {0}
    /\ resume \in BOOLEAN
    /\ head \in Int
    /\ tries \in 0..(HeadTries - 1)
    /\ cursor \in Int
    /\ page \in 0..(FlushEvery - 1)
    /\ rows \in Copies
    /\ lin \in Nat
    /\ raw \in [st: FileStates, rows: Copies, lin: Nat]
    /\ ck \in [st: FileStates, start: Int, cursor: Int, head: Int, lin: Nat]
    /\ changes \in [st: FileStates, start: Int, head: Int,
                    points: SUBSET (Pools \X Nat), lin: Nat]
    /\ exit \in {"none", "killed", "gave_up", "not_found", "bad_file", "abort", "published"}
    /\ runs \in Nat
    /\ kills \in Nat

\* safe_head leaves a margin: every node is at most Skew - Lag blocks short of
\* the block it settles on, whichever nodes answered its requests.
HeadMargin == pc \in HeadFound => \A n \in Nodes : tip[n] >= head + Lag - Skew

\* "A head block every node in the pool can actually serve" (rpc.py, safe_head).
HeadServedByAll == pc \in HeadFound => \A n \in Nodes : Serves(n, head)

\* A run touches settled blocks only: no request of a run is refused because the
\* node that answers has not ingested the block yet (config.py, HEAD_LAG_BLOCKS).
NeverNotFound == exit # "not_found"

\* A checkpoint that a later run would trust is true of the rows beside it: all
\* logs of the blocks it calls done are there, however the writer ended.  It is
\* silent on a pair written by two different runs.
CheckpointHonoured ==
    (raw.st = Ok /\ ck.st = Ok /\ raw.lin = ck.lin /\ ck.lin # 0)
        => Covers(raw.rows, ck.start, ck.cursor)

\* The published list is exactly the price-moving (pool, block) pairs of the
\* window, however often the scan was killed and resumed and whichever nodes
\* served its pages, as long as it never took up a pair of files of two runs.
PublishedExact ==
    (changes.st = Ok /\ changes.lin # 0)
        => changes.points = PointsOf(LogsIn(changes.start, changes.head))

\* The same without the exception: "full 29-day scan, resumable".
PublishedFull ==
    changes.st = Ok => changes.points = PointsOf(LogsIn(changes.start, changes.head))

\* What a lag shorter than the skew can cost is the tail of the window: all points
\* up to Skew - Lag blocks below the head are published.  (For one value of
\* --days: then two runs have the same start only if they have the same head.)
PublishedSettledPart ==
    (changes.st = Ok /\ changes.lin # 0)
        => PointsOf(LogsIn(changes.start, changes.head + Lag - Skew)) \subseteq changes.points

\* A resumed scan may append a page twice (the rows are written before the
\* checkpoint), but only a kill costs a copy: at most one each.
CopiesBounded == \A l \in Logs : raw.rows[l] <= 1 + kills

\* Whatever the runs before it left behind, torn or of two runs, a run started with
\* --no-resume that gets past its loop leaves rows and a checkpoint that are its
\* own: no later run stops over them or takes up a mixed pair, even if this one
\* goes on to abort or to be killed.
FreshRunHeals ==
    pc \in {"check", "stamp", "publish"} /\ ~resume =>
        raw = RawFile /\ ck = CkFile /\ lin # 0

\* "resumable", of every file a run can leave: no run stops over the files of an
\* earlier one.
AlwaysResumable == exit # "bad_file"

\* "resumable": a run that is told to resume, over the same number of days,
\* starts from the pages on file.
ResumeKeepsPages ==
    [][(pc = "load" /\ pc' = "page" /\ Considered /\ ck.st = Ok /\ raw.st = Ok
            /\ ck.head - ck.start = days * BlocksPerDay)
        => cursor' >= ck.cursor]_vars

\* A run that nothing interrupts for ever ends: safe_head gives up or settles,
\* the loop runs out of pages.
RunEnds == (pc # "idle") ~> (pc = "idle")

-----------------------------------------------------------------------------
(* Inductive invariants: what the safety properties above rest on. *)

Looking == HeadFound \cup {"resolve"}

\* The candidates of safe_head already have the margin of HeadMargin.
MarginInv ==
    /\ WithinSkew(tip)
    /\ pc \in Looking => \A n \in Nodes : tip[n] >= head + Lag - Skew

\* A row, in memory or on file, is of a block that every node serves.
RowsServed ==
    \A l \in Logs : rows[l] > 0 \/ raw.rows[l] > 0 => \A n \in Nodes : Serves(n, l.block)

ServedInv == Settled => RowsServed /\ NeverNotFound

\* A fresh run's lineage is on no file until the run has written one.
LineageInv ==
    /\ lin <= runs /\ raw.lin <= runs /\ ck.lin <= runs
    /\ pc \in {"number", "resolve", "head_ts", "load"} => raw.lin < runs /\ ck.lin < runs

\* The rows in memory cover what the cursor says, the checkpoint is at most as
\* far, and between the two writes of a flush the rows on file are those of memory.
CoverInv ==
    /\ pc \in Loaded /\ lin # 0 =>
          /\ Covers(rows, start, cursor)
          /\ ck.st = Ok /\ ck.lin = lin => ck.start = start /\ ck.cursor <= cursor
    /\ pc = "checkpoint" => raw = RawFile
    /\ pc \in {"check", "stamp", "publish"} => cursor > head
    /\ CheckpointHonoured

\* As Covers, but of the blocks that every node has when a run works with end.
CoversSettled(r, from, to, end) ==
    \A l \in Logs : l.block \in from..(to - 1) /\ l.block <= end + Lag - Skew => r[l] > 0

\* The same with nodes further apart than the lag, of runs over one number of days:
\* runs of one start then have one head.
SettledPartInv ==
    /\ pc # "idle" => days \in DaysSet
    /\ ck.st = Ok => \E d \in DaysSet : ck.head = ck.start + d * BlocksPerDay
    /\ pc \in Loaded /\ lin # 0 =>
          /\ CoversSettled(rows, start, cursor, head)
          /\ ck.st = Ok /\ ck.lin = lin =>
                ck.start = start /\ ck.cursor <= cursor /\ ck.head = head
    /\ pc = "checkpoint" => raw = RawFile
    /\ pc \in {"check", "stamp", "publish"} => cursor > head
    /\ (raw.st = Ok /\ ck.st = Ok /\ raw.lin = ck.lin /\ ck.lin # 0)
          => CoversSettled(raw.rows, ck.start, ck.cursor, ck.head)
    /\ PublishedSettledPart

\* Past the cursor there is a copy less to come: kills copies at most.
CopiesInv ==
    /\ \A l \in Logs : rows[l] <= 1 + kills /\ raw.rows[l] <= 1 + kills
    /\ pc \in Loaded => \A l \in Logs : l.block >= cursor => rows[l] <= kills
    /\ pc = "checkpoint" => raw = RawFile
    /\ (pc # "checkpoint" /\ raw.st = Ok /\ ck.st = Ok) =>
          \A l \in Logs : l.block >= ck.cursor => raw.rows[l] <= kills
    /\ (pc = "page" /\ cursor > head) => ck.st = Ok /\ ck.cursor = cursor

\* Every row of r is of the blocks from..to.
Within(r, from, to) == \A l \in Logs : r[l] > 0 => l.block \in from..to

\* The rows on file lie in the window of m days that begins where the checkpoint
\* does.  Every node has reached the end of that window, so no later run settles
\* on a head more than Lag blocks before it.
FitsDays(m) ==
    LET end == ck.start + m * BlocksPerDay IN
    /\ Within(raw.rows, ck.start, end)
    /\ \A n \in Nodes : end <= tip[n]
    /\ pc \in Looking => end <= head + Lag

\* No row, in memory or beside a checkpoint of its lineage, is of a block outside
\* the window that its run scans.
WindowInv ==
    /\ pc \in Loaded => cursor >= start
    /\ (pc \in Loaded /\ lin # 0) => Within(rows, start, head)
    /\ ck.st = Ok => ck.cursor >= ck.start
    /\ (raw.st = Ok /\ ck.st = Ok /\ raw.lin = ck.lin /\ ck.lin # 0)
          => \E m \in DaysSet \cup {0} : FitsDays(m)
    /\ PublishedExact

\* A run that does not resume takes nothing from the files, and its last flush
\* writes both of them.
FreshInv ==
    /\ pc # "idle" => runs # 0
    /\ pc \in Loaded /\ ~resume => lin # 0
    /\ pc = "checkpoint" => raw = RawFile
    /\ (pc = "page" /\ cursor > head) /\ ~resume => ck = CkFile
    /\ FreshRunHeals

=============================================================================
