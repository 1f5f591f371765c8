------------------------------- MODULE Verdict -------------------------------
(***************************************************************************)
(* What M5 concludes from the windows: the summary of each pair, the carry *)
(* table of the ladder, the rungs that clear their carry, the verdicts the *)
(* report prints, and the time its evaluation misses.  One pool.           *)
(*                                                                         *)
(* The size is held in MNT at one price, so that a profit is the size      *)
(* times the distance of the mid from the breakeven, and a carry the size  *)
(* times the span times CarryRate.                                         *)
(***************************************************************************)
EXTENDS ProfitWindows

CONSTANTS
    ActionableMs,   \* ACTIONABLE_MS
    CarryRate       \* INVENTORY_CAPITAL_MULT * INVENTORY_APR, for a millisecond

ASSUME VerdictAssumption ==
    /\ ActionableMs \in Nat \ {0} /\ CarryRate \in Nat \ {0}
    /\ Combos \subseteq [direction: {"A", "B"}, size_usd: Nat \ {0}] /\ IsFiniteSet(Combos)

-----------------------------------------------------------------------------
(* find_windows' profit columns, and _summarise *)

ProfitUsd(c, i) ==
    LET breakeven == changes[BlockOf(i)].breakeven[c]
    IN  c.size_usd * (IF c.direction = "A" THEN tape[i].mid - breakeven ELSE breakeven - tape[i].mid)

\* The profit at the first print of the window, and at its best one.
AtOpen(c, w) ==
    ProfitUsd(c, CHOOSE i \in w.prints : \A j \in w.prints : j = i \/ Before(c, "first", i, j))
AtPeak(c, w) == Max({ProfitUsd(c, i) : i \in w.prints})

\* Windows a bot could have reached.
Actionable(c) == {w \in Windows(c) : Duration(w) >= ActionableMs}

Profits(c, at) ==
    LET reached(i) == i \in DOMAIN at /\ Duration(at[i]) >= ActionableMs
    IN  [i \in Prints |-> IF reached(i) THEN AtOpen(c, at[i]) ELSE 0]

UncapturedActionable(c) == SumTo(Profits(c, WindowAt(c)), Len(tape))

\* Each of them that already holds somebody's swap was a race.
Contested(c) == {w \in Actionable(c) : Took(c, w) # {}}

-----------------------------------------------------------------------------
(* _carry_table: one row for each size that has a window *)

Rungs == {c.size_usd : c \in {d \in Combos : Runs(d) # {}}}

\* Of one direction, and of both.
Uncaptured(direction, size) ==
    LET c == [direction |-> direction, size_usd |-> size]
    IN  IF c \in Combos THEN UncapturedActionable(c) ELSE 0

U(size) == Uncaptured("A", size) + Uncaptured("B", size)

\* A slip: whole days only, of which these months have none.
WholeDays == 0

\* span_days of _write_md: over all rows of intervals.parquet, seen or not.
IvSpan == LET ts == {changes[b].ts : b \in PoolBlocks}
          IN  IF ts = {} THEN 0 ELSE Max(ts) - Min(ts)

Carry(size) == size * CarryRate * IvSpan

\* Comparisons of the column ratio, which is u / carry, or 0 where nothing is carried.
RatioAtLeast(u, carry, k) == carry > 0 /\ u >= k * carry
RatioAbove1(u, carry)     == carry > 0 /\ u > carry

Clears == {s \in Rungs : RatioAbove1(U(s), Carry(s))}
Robust == {s \in Rungs : RatioAtLeast(U(s), Carry(s), 2)}

\* The last column of the inventory table; below carry it prints 1 / ratio.
Judged(u, carry) ==
    IF u <= 0 THEN "no profit at all"
    ELSE IF RatioAtLeast(u, carry, 2) THEN "clears"
    ELSE IF RatioAbove1(u, carry) THEN "marginal"
    ELSE IF carry > 0 THEN "short" ELSE "division by zero"

VerdictOf(s) == Judged(U(s), Carry(s))

BottomLine == IF Clears = {} THEN "No" ELSE "Not as a standalone business"

\* _rungs: the sizes the phrase for a set of rungs names, of those in the table.
Named(sizes) ==
    LET rungs == Rungs
    IN  IF Cardinality(sizes) <= 1 THEN sizes
        ELSE IF Min(sizes) = Min(rungs) THEN {s \in rungs : s <= Max(sizes)}
             ELSE {s \in rungs : Min(sizes) <= s /\ s <= Max(sizes)}

-----------------------------------------------------------------------------
(* _resolution: intervals no print falls into *)

Seen == {BlockOf(i) : i \in Observed}

\* The pool's blocks whose interval has an end, and how long it is.
Ended == {b \in PoolBlocks : \E k \in PoolBlocks : k > b}
IntervalMs(b) == changes[Min({k \in PoolBlocks : k > b})].ts - changes[b].ts

Missed == Ended \ Seen

-----------------------------------------------------------------------------
(* Properties. *)

\* Every rung in the inventory table gets its verdict: a profit to weigh means time
\* that was carried, though the profit is measured over the tape and the carry over
\* the chain, so that the table never divides by a ratio of 0 and the report is
\* written.  "No profit at all" is said of the rungs without a window a bot could
\* have reached, and of no others, as a profit of one direction is never eaten up by
\* the other.  The bottom line and the verdicts then tell the same story, and its
\* phrase for the rungs that pass leaves none out and adds none beyond them.
VerdictsAgree ==
    LET rungs    == Rungs
        robust   == Robust
        named    == Named(robust)
        reached  == UNION {{c.size_usd : w \in Actionable(c)} : c \in Combos}
        verdicts == {<<s, VerdictOf(s)>> : s \in rungs}
        given(v) == {s \in rungs : <<s, v>> \in verdicts}
    IN  /\ given("division by zero") = {}
        /\ given("no profit at all") = rungs \ reached
        /\ BottomLine = "No" <=> given("clears") \cup given("marginal") = {}
        /\ robust \subseteq named
        /\ \A s \in named \ robust : \E x, y \in robust : x < s /\ s < y

\* A claim: intervals no print falls into "are short by construction ... and therefore
\* below the actionable floor anyway".
MissedBelowFloor == \A b \in Missed : IntervalMs(b) < ActionableMs

\* A claim: the windows below the floor "are single-print flickers".
FlickersAreSinglePrints ==
    \A c \in Combos : \A w \in Windows(c) \ Actionable(c) : Cardinality(w.prints) = 1

\* A claim: "only [these rungs] survive halving the profit".
NamedRungsSurvive == Named(Robust) = Robust

=============================================================================
