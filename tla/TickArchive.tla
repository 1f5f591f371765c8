----------------------------- MODULE TickArchive -----------------------------
(***************************************************************************)
(* M3 download and _fetch_day: a pool of threads that fetches the daily    *)
(* files of the trailing window through a cache on disk.  The results are  *)
(* taken in the order of the days: the first failed one cancels what no    *)
(* thread has begun, and the run ends when the others are done.            *)
(***************************************************************************)
EXTENDS Integers, FiniteSets, FiniteSetsExt

CONSTANTS
    Days,       \* --days: the window is today - Days .. today
    LastDay,    \* bound: the last day there is
    Workers,    \* the threads (4)
    TornWrites, \* whether a kill may leave a half-written file
    MaxKills    \* bound: how often a run is killed

ASSUME ArchiveAssumption ==
    /\ Days \in Nat /\ LastDay \in Nat /\ Days < LastDay
    /\ IsFiniteSet(Workers)
    /\ TornWrites \in BOOLEAN
    /\ MaxKills \in Nat

VARIABLES
    today,
    published,  \* the days the archive serves
    cache,      \* data/bybit by day: "none", "small" (1024 bytes or less), "torn"
                \* (cut off later than that), or "whole"
    trades,     \* the days of bybit_trades.parquet
    pc,         \* "idle", "running", "failed" or "deliver"
    job,        \* job[w]: the day thread w works on and its step
    result,     \* result[d]: of this run's task for day d
    next,       \* the day whose result the main thread waits for
    served,     \* published when the run began; history
    kills

run  == <<pc, job, result, next, served>>
vars == <<today, published, cache, trades, run, kills>>

AllDays == 1..LastDay
Wanted  == (today - Days)..today
NoJob   == [day |-> 0, step |-> "none"]
NoResult == [d \in AllDays |-> "none"]

Queued == {d \in Wanted : result[d] = "queued"}
Busy   == {w \in Workers : job[w] # NoJob}

-----------------------------------------------------------------------------
(* Slips the code could contain and does not. *)

Salvaged(d) == "whole"
ErrorLost(d) == IF cache[d] = "whole" THEN "whole" ELSE "begun"
AtOnce == TRUE

-----------------------------------------------------------------------------
\* A file of more than 1024 bytes is taken for a day's file.
Hit(d) == cache[d] \in {"torn", "whole"}

\* gzip finds out that a file was cut off.
Unpacked(d) == IF cache[d] = "whole" THEN "whole" ELSE "failed"

Frames == {d \in Wanted : result[d] = "whole"}

Cancelled == [d \in AllDays |-> IF result[d] = "queued" THEN "none" ELSE result[d]]

\* Leaving the pool waits for its threads.
Drained == Busy = {} /\ Queued = {}

Init ==
    /\ today = Days + 1
    /\ published \in SUBSET (1..Days)
    /\ cache = [d \in AllDays |-> "none"]
    /\ trades = {}
    /\ pc = "idle" /\ job = [w \in Workers |-> NoJob]
    /\ result = NoResult /\ next = 0 /\ served = {}
    /\ kills = 0

Leave ==
    /\ pc' = "idle"
    /\ result' = NoResult /\ next' = 0 /\ served' = {}

\* pool.map hands every day to the pool at once.
Start ==
    /\ pc = "idle"
    /\ pc' = "running"
    /\ result' = [d \in AllDays |-> IF d \in Wanted THEN "queued" ELSE "none"]
    /\ next' = Min(Wanted)
    /\ served' = published
    /\ UNCHANGED <<today, published, cache, trades, job, kills>>

\* A free thread takes the oldest day no one has begun.
Take(w) ==
    /\ pc \in {"running", "failed"}
    /\ job[w] = NoJob /\ Queued # {}
    /\ job' = [job EXCEPT ![w] = [day |-> Min(Queued), step |-> "look"]]
    /\ result' = [result EXCEPT ![Min(Queued)] = "begun"]
    /\ UNCHANGED <<today, published, cache, trades, pc, next, served, kills>>

Finish(w, res) ==
    /\ job' = [job EXCEPT ![w] = NoJob]
    /\ result' = [result EXCEPT ![job[w].day] = res]

\* The cached file, if there is one.
Look(w) ==
    /\ job[w].step = "look"
    /\ \/ /\ Hit(job[w].day)
          /\ Finish(w, Unpacked(job[w].day))
       \/ /\ ~Hit(job[w].day)
          /\ job' = [job EXCEPT ![w].step = "get"]
          /\ UNCHANGED result
    /\ UNCHANGED <<today, published, cache, trades, pc, next, served, kills>>

\* The request: 404, a file, or an exception.
Get(w) ==
    /\ job[w].step = "get"
    /\ \/ /\ job[w].day \notin published
          /\ Finish(w, "missing")
       \/ /\ job[w].day \in published
          /\ job' = [job EXCEPT ![w].step = "write"]
          /\ UNCHANGED result
       \/ Finish(w, "failed")
    /\ UNCHANGED <<today, published, cache, trades, pc, next, served, kills>>

Write(w) ==
    /\ job[w].step = "write"
    /\ cache' = [cache EXCEPT ![job[w].day] = "whole"]
    /\ Finish(w, "whole")
    /\ UNCHANGED <<today, published, trades, pc, next, served, kills>>

\* The main thread takes the results in order.
Collect ==
    /\ pc = "running" /\ next \in Wanted
    /\ \/ /\ result[next] \in {"whole", "missing"}
          /\ next' = next + 1
          /\ pc' = IF next' \in Wanted THEN "running" ELSE "deliver"
          /\ UNCHANGED result
       \/ /\ result[next] = "failed"
          /\ pc' = "failed"
          /\ result' = Cancelled
          /\ UNCHANGED next
    /\ UNCHANGED <<today, published, cache, trades, job, served, kills>>

\* The exception leaves the pool when its threads are done.
GiveUp ==
    /\ pc = "failed" /\ Drained
    /\ Leave
    /\ UNCHANGED <<today, published, cache, trades, job, kills>>

\* Concatenate and write, or abort when there is nothing.
Deliver ==
    /\ pc = "deliver"
    /\ trades' = IF Frames = {} THEN trades ELSE Frames
    /\ Leave
    /\ UNCHANGED <<today, published, cache, job, kills>>

\* A kill may cut off the files that are being written.
Kill ==
    /\ pc # "idle"
    /\ kills < MaxKills
    /\ kills' = kills + 1
    /\ LET written == {job[w].day : w \in {v \in Workers : job[v].step = "write"}}
       IN  \E left \in [written -> IF TornWrites THEN {"small", "torn", "old"} ELSE {"old"}] :
              cache' = [d \in AllDays |-> IF d \in written /\ left[d] # "old" THEN left[d]
                                          ELSE cache[d]]
    /\ Leave
    /\ job' = [w \in Workers |-> NoJob]
    /\ UNCHANGED <<today, published, trades>>

Publish ==
    /\ \E d \in 1..(today - 1) : d \notin published /\ published' = published \cup {d}
    /\ UNCHANGED <<today, cache, trades, run, kills>>

Midnight ==
    /\ pc = "idle"
    /\ today < LastDay
    /\ today' = today + 1
    /\ UNCHANGED <<published, cache, trades, run, kills>>

Worker(w) == Take(w) \/ Look(w) \/ Get(w) \/ Write(w)

Main == Collect \/ GiveUp \/ Deliver

Next == Start \/ Main \/ Kill \/ Publish \/ Midnight \/ \E w \in Workers : Worker(w)

Spec == Init /\ [][Next]_vars

\* Threads run, and requests are answered or time out.
FairSpec == Spec /\ WF_vars(Main) /\ \A w \in Workers : WF_vars(Worker(w))

-----------------------------------------------------------------------------
(* Properties. *)

Steps == {"none", "look", "get", "write"}
Results == {"none", "queued", "begun", "whole", "missing", "failed"}

\* Types of the run's memory, the cache and the archive; a day being fetched is
\* known to be.
TypeOK ==
    /\ today \in (Days + 1)..LastDay
    /\ published \in SUBSET AllDays /\ served \in SUBSET AllDays
    /\ cache \in [AllDays -> {"none", "small", "torn", "whole"}]
    /\ trades \in SUBSET AllDays
    /\ pc \in {"idle", "running", "failed", "deliver"}
    /\ job \in [Workers -> [day: 0..LastDay, step: Steps]]
    /\ result \in [AllDays -> Results]
    /\ \A w \in Busy : result[job[w].day] = "begun"
    /\ next \in 0..(LastDay + 1)
    /\ kills \in 0..MaxKills

\* A run that delivers has every day the archive served when it began, from whole
\* files only: no failure, kill or half-written file of any run leaves a gap in the
\* tape that the run does not report.
TapeComplete ==
    pc = "deliver" =>
        /\ served \cap Wanted \subseteq Frames
        /\ \A d \in Frames : cache[d] = "whole"

\* No thread uses the client after the run has closed it, and no two threads write
\* one day's file.
ThreadsApart ==
    /\ pc = "idle" => Busy = {}
    /\ \A v, w \in Busy : v # w => job[v].day # job[w].day

\* Every run ends: the main thread never waits for a task nobody does.
RunEnds == pc # "idle" ~> pc = "idle"

=============================================================================
