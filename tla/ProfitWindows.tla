---------------------------- MODULE ProfitWindows ----------------------------
(***************************************************************************)
(* M4's interval table and M5's windows, for one pool: the tape of Bybit   *)
(* mids is laid over the pool's state changes, and maximal runs of         *)
(* profitable prints become windows.                                       *)
(*                                                                         *)
(* The behaviour is the month that fills the two tables, in order of time; *)
(* the reports may be run on any prefix of it, and what they compute is    *)
(* defined on the tables as M4's joins and M5's SQL define it.             *)
(*                                                                         *)
(* The SQL orders prints by ts alone, and four times over: for LAG, for    *)
(* LEAD, for SUM and for first.  In each of them, and in the query of each *)
(* pair, prints of one millisecond stand in an order of their own.         *)
(***************************************************************************)
EXTENDS Integers, FiniteSets, FiniteSetsExt, Sequences, SequencesExt, Sums

CONSTANTS
    Combos,     \* the (direction, size) pairs: [direction, size_usd]
    Mids,       \* Bybit mids, in the unit of the breakeven mids
    Blocks,     \* the state changes there may be: [swap, breakeven], where
                \* breakeven is a function on the pairs whose quote is full
    Ties,       \* the places a print may take among those of its millisecond
    LastMs,     \* bound: the last millisecond
    MaxPrints,  \* bound: the length of the tape
    MaxBlocks   \* bound: the number of state changes

\* What the SQL puts prints in order for.
Orders == {"lag", "lead", "sum", "first"}

ASSUME WindowsAssumption ==
    /\ \A c \in Combos : c.direction \in {"A", "B"}
    /\ Mids \subseteq Nat
    /\ \A b \in Blocks : /\ b.swap \in {"A", "B", "none"}
                         /\ DOMAIN b.breakeven \subseteq Combos
                         /\ \A c \in DOMAIN b.breakeven : b.breakeven[c] \in Nat
    /\ \A tie \in Ties : tie \in [Combos -> [Orders -> Int]]
    /\ LastMs \in Nat \ {0} /\ MaxPrints \in Nat /\ MaxBlocks \in Nat

VARIABLES
    now,
    tape,       \* bybit_quotes.parquet: [ts, mid], and [tie] for the SQL's orders
    changes     \* dex_quotes.parquet by block: [ts, swap, breakeven]

vars == <<now, tape, changes>>

Prints == DOMAIN tape

-----------------------------------------------------------------------------
(* Slips the code could contain and does not; those of find_windows follow   *)
(* the definitions they need.                                               *)

InsideClosed(w, ts) == w.open_ts <= ts /\ ts <= w.close_ts
DecodedAfterAPrint == {b \in DOMAIN changes : /\ changes[b].swap # "none"
                                              /\ \E i \in Prints : tape[i].ts < changes[b].ts}

-----------------------------------------------------------------------------
(* M4 *)

\* A block needs a print at or before it, or its rows are dropped.
Joined(b) == \E i \in Prints : tape[i].ts <= changes[b].ts

\* The rows of intervals.parquet: full quotes only (quote_ok, nothing left over).
Rows(c) == {b \in DOMAIN changes : c \in DOMAIN changes[b].breakeven /\ Joined(b)}

-----------------------------------------------------------------------------
(* M5 assign_prints *)

\* The pool's blocks, over all its directions and sizes.
PoolBlocks == UNION {Rows(c) : c \in Combos}

PrintsWithin(ts) ==
    IF ts = {} THEN {} ELSE {i \in Prints : Min(ts) <= tape[i].ts /\ tape[i].ts <= Max(ts)}

Observed == PrintsWithin({changes[b].ts : b \in PoolBlocks})

AtOrBefore(i, S) == {b \in S : changes[b].ts <= tape[i].ts}

\* The block each print falls into.
Asg ==
    LET blocks == PoolBlocks
    IN  [i \in Observed |-> Max(AtOrBefore(i, blocks))]

BlockOf(i) == Asg[i]

SpanOf(S) == IF S = {} THEN 0 ELSE Max({tape[i].ts : i \in S}) - Min({tape[i].ts : i \in S})

Span == SpanOf(Observed)

-----------------------------------------------------------------------------
(* M5 find_windows, for one pair: the SQL's j, f and g *)

\* The inner join drops the prints of blocks that have no row of this pair.
Kept(c) ==
    LET asg  == Asg
        rows == Rows(c)
    IN  {i \in DOMAIN asg : asg[i] \in rows}

Pays(c, mid, b) ==
    IF c.direction = "A" THEN mid > changes[b].breakeven[c] ELSE mid < changes[b].breakeven[c]

Good(c) ==
    LET asg == Asg
    IN  {i \in Kept(c) : Pays(c, tape[i].mid, asg[i])}

\* ORDER BY ts.
Before(c, order, i, j) ==
    LET key(k) == tape[k].tie[c][order]
    IN  \/ tape[i].ts < tape[j].ts
        \/ /\ tape[i].ts = tape[j].ts
           /\ key(i) < key(j) \/ (key(i) = key(j) /\ i < j)

\* LAG: the kept print before, if there is one.
LagOf(c, kept, i) ==
    LET before == {j \in kept : Before(c, "lag", j, i)}
    IN  {j \in before : \A k \in before : k = j \/ Before(c, "lag", k, j)}

\* chg = 1: prof IS DISTINCT FROM that of the print before.
Starts(c) ==
    LET kept == Kept(c)
        good == Good(c)
    IN  {i \in kept : \A j \in LagOf(c, kept, i) : i \in good <=> j \notin good}

\* The changes SUM has counted at each print, of which grp is the number: of two prints'
\* changes one set contains the other.
Grp(c) ==
    LET starts == Starts(c)
    IN  [i \in Kept(c) |-> {k \in starts : k = i \/ Before(c, "sum", k, i)}]

\* WHERE prof GROUP BY grp
Runs(c) ==
    LET good == Good(c)
        grp  == Grp(c)
    IN  {{j \in good : grp[j] = grp[i]} : i \in good}

\* Slips: LEAD before the tape is bounded; no LEAD.
NextOnTape(c, i) == IF i = Len(tape) THEN tape[i].ts ELSE tape[i + 1].ts
LastTs(c, run) == Max({tape[i].ts : i \in run})

\* LEAD(ts) over the kept prints; the last one is held for no time.
NextTs(c, i) ==
    LET later == {tape[j].ts : j \in {k \in Kept(c) : Before(c, "lead", i, k)}}
    IN  IF later = {} THEN tape[i].ts ELSE Min(later)

CloseTs(c, run) == Max({NextTs(c, i) : i \in run})

Window(c, run) ==
    [open_ts  |-> Min({tape[i].ts : i \in run}),
     close_ts |-> CloseTs(c, run),
     prints   |-> run]

Windows(c) == {Window(c, run) : run \in Runs(c)}

\* The same as a table, a row at one print of each window.
ByPrint(windows) ==
    [i \in {Min(w.prints) : w \in windows} |-> CHOOSE w \in windows : i = Min(w.prints)]

WindowAt(c) == ByPrint(Windows(c))

\* swaps_decoded.parquet: M6's join with the tape is an inner one, so that swaps
\* before the first print are not in it.
DecodedSwaps == {b \in DOMAIN changes : changes[b].swap # "none" /\ Joined(b)}

\* M5 took_it: a swap inside a window, in its direction.
Inside(w, ts) == w.open_ts <= ts /\ ts < w.close_ts

Took(c, w) == {b \in DecodedSwaps : changes[b].swap = c.direction /\ Inside(w, changes[b].ts)}

\* The same when M6 has not run: every swap of the raw logs, in either direction.
TookBlind(w) == {b \in DOMAIN changes : changes[b].swap # "none" /\ Inside(w, changes[b].ts)}

Duration(w) == w.close_ts - w.open_ts

\* total_ms of _summarise
TotalMs(c) ==
    LET at == WindowAt(c)
    IN  SumTo([i \in Prints |-> IF i \in DOMAIN at THEN Duration(at[i]) ELSE 0], Len(tape))

-----------------------------------------------------------------------------
Init ==
    /\ now = 1
    /\ tape = <<>>
    /\ changes = <<>>

\* The first print of a millisecond has nothing to be placed among.
Alone == [c \in Combos |-> [order \in Orders |-> 0]]

Places == IF \E i \in Prints : tape[i].ts = now THEN Ties ELSE {Alone}

BybitPrint ==
    /\ Len(tape) < MaxPrints
    /\ \E m \in Mids, tie \in Places :
          tape' = Append(tape, [ts |-> now, mid |-> m, tie |-> tie])
    /\ UNCHANGED <<now, changes>>

\* A block of the pool, at most one in a millisecond.
StateChange ==
    /\ Len(changes) < MaxBlocks
    /\ changes # <<>> => Last(changes).ts < now
    /\ \E b \in Blocks :
          changes' = Append(changes, [ts |-> now, swap |-> b.swap, breakeven |-> b.breakeven])
    /\ UNCHANGED <<now, tape>>

Tick ==
    /\ now < LastMs
    /\ now' = now + 1
    /\ UNCHANGED <<tape, changes>>

Next == BybitPrint \/ StateChange \/ Tick

Spec == Init /\ [][Next]_vars

-----------------------------------------------------------------------------
(* Properties. *)

\* From the first print the pair was evaluated at to the last.
Moments(c) == {t \in 1..LastMs : \E i, j \in Kept(c) : tape[i].ts <= t /\ t < tape[j].ts}

\* The last print of the pair, as LEAD sees it, and the state change in force.
LastPrint(c, t) ==
    {i \in Observed : /\ tape[i].ts <= t
                      /\ \A j \in Observed : tape[j].ts <= t => j = i \/ Before(c, "lead", j, i)}
InForce(t) == Max({b \in DOMAIN changes : changes[b].ts <= t})

Quoted(c, t) == c \in DOMAIN changes[InForce(t)].breakeven

Covered(c, t) == \E w \in Windows(c) : Inside(w, t)

\* The pair's prints of a stretch of time have a millisecond each.
Untied(c, from, to) ==
    \A i, j \in Kept(c) :
        tape[i].ts = tape[j].ts /\ from <= tape[i].ts /\ tape[i].ts <= to => i = j

\* Of the pair's prints up to a moment, the last ones share a millisecond.
Shared(c, t) ==
    LET past == {i \in Kept(c) : tape[i].ts <= t}
    IN  \E i, j \in past : /\ i # j /\ tape[i].ts = tape[j].ts
                           /\ \A k \in past : tape[k].ts <= tape[i].ts

\* Types of the two tables, which are sorted by time, and of the windows.
TypeOK ==
    /\ now \in 1..LastMs
    /\ \A c \in Combos : \A w \in Windows(c) :
          1 <= w.open_ts /\ w.open_ts <= w.close_ts /\ w.close_ts <= now
    /\ \A i \in Prints : tape[i].ts \in 1..now /\ tape[i].mid \in Mids
    /\ \A i, j \in Prints : i <= j => tape[i].ts <= tape[j].ts
    /\ \A i, j \in DOMAIN changes : i < j => changes[i].ts < changes[j].ts

\* The windows are exact between state changes: at a moment whose state has not
\* changed since the last print, and was quoted for this pair, a window is open if
\* the pair was profitable at that print, in whatever order the SQL takes the prints
\* of a millisecond; and one that has met no shared millisecond is open only then.
ExactBetweenChanges ==
    \A c \in Combos : \A t \in Moments(c) : \A i \in LastPrint(c, t) :
        LET b    == InForce(t)
            good == IF c.direction = "A" THEN tape[i].mid > changes[b].breakeven[c]
                                         ELSE tape[i].mid < changes[b].breakeven[c]
        IN  changes[b].ts <= tape[i].ts /\ Quoted(c, t)
            => /\ good => Covered(c, t)
               /\ \A w \in Windows(c) : Inside(w, t) /\ Untied(c, w.open_ts, t) => good

\* The time the report adds up for a pair is the number of moments at which one of
\* its windows is open, which is no more than the time observed; and what it counts
\* beyond them, it counts where the last prints share a millisecond, and once more.
TimeCountedOnceUnlessShared ==
    \A c \in Combos :
        LET open == UNION {{t \in 1..LastMs : Inside(w, t)} : w \in Windows(c)}
        IN  /\ Cardinality(open) <= TotalMs(c)
            /\ TotalMs(c) <= Cardinality(open) + Cardinality({t \in open : Shared(c, t)})
            /\ Cardinality(open) <= Span

\* A swap took one window of its direction and size, unless the last prints before it
\* share a millisecond; then it is counted for two at most.
TookOnceUnlessShared ==
    \A c \in Combos : \A v, w \in Windows(c) : \A b \in Took(c, v) \cap Took(c, w) :
        v # w => /\ Shared(c, changes[b].ts)
                 /\ \A u \in Windows(c) : b \in Took(c, u) => u \in {v, w}

\* A swap that lands while its direction is profitable is counted as taking a
\* window, unless a print of its own millisecond has closed it already.
TakerCounted ==
    \A c \in Combos, b \in DOMAIN changes :
        LET s == changes[b].ts
        IN  /\ changes[b].swap = c.direction
            /\ s \in Moments(c)
            /\ \A i \in Prints : tape[i].ts # s
            /\ LastPrint(c, s) \cap Good(c) # {}
            => \E w \in Windows(c) : b \in Took(c, w)

\* Reading M6's table instead of the raw logs loses no taker, and without M6 the
\* report's count of taken windows is the "upper bound" it says it is.
TakersKept ==
    \A c \in Combos : \A w \in Windows(c) :
        Took(c, w) = {b \in TookBlind(w) : changes[b].swap = c.direction}

\* A claim of assign_prints: "they are IDENTICAL across all 12 (direction x size)
\* combinations", so that a window is open only while the pair has a quote.
OpenOnlyIfQuoted ==
    \A c \in Combos : \A t \in Moments(c) : Covered(c, t) => Quoted(c, t)

\* A claim of find_windows: its windows are "maximal runs of profitability", so that two
\* of one pair are never open at once.
WindowsApart ==
    \A c \in Combos : \A v, w \in Windows(c) : \A t \in 1..LastMs :
        Inside(v, t) /\ Inside(w, t) => v = w

=============================================================================
