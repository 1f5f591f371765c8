------------------------------ MODULE BookWalk ------------------------------
(***************************************************************************)
(* M4 slip_table over slip_fraction, and M3 _vwap, whose walk over one     *)
(* side of the order book is the same: what a market order of a given      *)
(* notional pays.  The table walks the bids and then the asks for each     *)
(* rung of the ladder; one step is one turn of the loop.                   *)
(*                                                                         *)
(* Prices are ticks, sizes lots, notionals ticks times lots.  The quantity *)
(* bought is a sum of fractions take / px; qty counts it in units of       *)
(* 1 / Unit lot, where Unit is a multiple of every price, so that nothing  *)
(* is rounded.  (The code's floats round; it allows 1e-9 for that.)        *)
(***************************************************************************)
EXTENDS Integers, Sequences, FiniteSets, FiniteSetsExt, SequencesExt, Sums

CONSTANTS
    Prices,     \* the ticks a level may be at
    Sizes,      \* the lots a level may hold
    MaxLevels,  \* bound: levels of a side (200)
    Ladder,     \* config.SIZE_LADDER_USD
    Unit        \* a common multiple of the prices

ASSUME BookAssumption ==
    /\ Prices \subseteq Nat \ {0} /\ Sizes \subseteq Nat \ {0}
    /\ Ladder \subseteq Nat \ {0} /\ IsFiniteSet(Ladder) /\ Ladder # {}
    /\ MaxLevels \in Nat
    /\ Unit \in Nat \ {0} /\ \A px \in Prices : Unit % px = 0

VARIABLES
    bids, asks, \* orderbook_snapshot.parquet by side, best price first: [px, sz]
    usd,        \* the rung being priced, 0 when the table is complete
    is_bid,     \* the side being walked
    at,         \* the level the loop is at
    spent, qty, \* running totals
    slips       \* slips[usd]: the outcome of both walks, [sell, buy]

book == <<bids, asks>>
book_vars == <<book, usd, is_bid, at, spent, qty, slips>>

levels == IF is_bid THEN bids ELSE asks

Smaller(x, y) == IF x < y THEN x ELSE y

\* slip_fraction returns None; no order has bought nothing.
Unpriced == [spent |-> 0, qty |-> 0]

-----------------------------------------------------------------------------
(* Slips the code could contain and does not. *)

QtyOfLevel(l, take) == l.sz * Unit
StopEarly(s) == s > 0
PriceWhatThereIs == qty = 0

-----------------------------------------------------------------------------
\* What the loop takes from a level; never nothing, as levels hold something and
\* the loop has not got enough.
Take(l) == Smaller(l.px * l.sz, usd - spent)

Bought(l, take) == take * (Unit \div l.px)

Enough(s) == s >= usd

\* The loop ends with the book, or after the level that filled the order.
Walked == at > Len(levels) \/ Enough(spent)

\* slip_fraction gives up on a size the book cannot absorb; _vwap prices what
\* there is.
Unfillable == qty = 0 \/ spent < usd

NextRung ==
    LET larger == {u \in Ladder : u > usd}
    IN  IF larger = {} THEN 0 ELSE Min(larger)

Complete == usd = 0

\* A side of a snapshot: strictly from the best price outwards.
Sorted(s, bid) == \A j, k \in DOMAIN s : j < k => IF bid THEN s[j].px > s[k].px
                                                         ELSE s[j].px < s[k].px

Sides(bid) == {s \in SeqOf([px: Prices, sz: Sizes], MaxLevels) : s # <<>> /\ Sorted(s, bid)}

BookInit ==
    /\ bids \in Sides(TRUE) /\ asks \in Sides(FALSE)
    /\ bids[1].px < asks[1].px
    /\ usd = Min(Ladder) /\ is_bid = TRUE
    /\ at = 1 /\ spent = 0 /\ qty = 0
    /\ slips = [u \in Ladder |-> [sell |-> Unpriced, buy |-> Unpriced]]

Level ==
    /\ ~Complete /\ ~Walked
    /\ LET take == Take(levels[at])
       IN  /\ qty' = qty + Bought(levels[at], take)
           /\ spent' = spent + take
    /\ at' = at + 1
    /\ UNCHANGED <<book, usd, is_bid, slips>>

\* The walk ends; after the bids come the asks, and then the next rung.
Return ==
    /\ ~Complete /\ Walked
    /\ LET filled == IF Unfillable THEN Unpriced ELSE [spent |-> spent, qty |-> qty]
       IN  slips' = IF is_bid THEN [slips EXCEPT ![usd].sell = filled]
                              ELSE [slips EXCEPT ![usd].buy = filled]
    /\ is_bid' = ~is_bid
    /\ usd' = IF is_bid THEN usd ELSE NextRung
    /\ at' = 1 /\ spent' = 0 /\ qty' = 0
    /\ UNCHANGED book

BookNext == Level \/ Return

BookSpec == BookInit /\ [][BookNext]_book_vars

-----------------------------------------------------------------------------
(* Properties. *)

DepthOf(s) == SumTo([j \in DOMAIN s |-> s[j].px * s[j].sz], Len(s))

\* Every way to fill a notional of s from the side: an amount of each level.
Fills(s) ==
    {f \in [DOMAIN levels -> 0..s] :
        /\ \A j \in DOMAIN levels : f[j] <= levels[j].px * levels[j].sz
        /\ SumTo(f, Len(levels)) = s}

QtyOf(f) == SumTo([j \in DOMAIN levels |-> f[j] * (Unit \div levels[j].px)], Len(levels))

\* Types of the walk and of the table.
BookTypeOK ==
    /\ usd \in Ladder \cup {0}
    /\ is_bid \in BOOLEAN
    /\ at \in 1..(MaxLevels + 1)
    /\ spent \in 0..usd
    /\ qty \in Nat
    /\ slips \in [Ladder -> [sell: [spent: Nat, qty: Nat], buy: [spent: Nat, qty: Nat]]]

\* The two callers agree with the depth of the book: M4 marks a size unfillable
\* just if the side holds less, and M3 then reports all of it as filled.
FillIsHonest ==
    ~Complete /\ Walked => /\ Unfillable <=> DepthOf(levels) < usd
                           /\ spent = Smaller(usd, DepthOf(levels))

\* No order of this notional does better: of all fills the walk buys the most (asks)
\* or sells the least (bids), so that the slippage is what the book really costs.
BestExecution ==
    ~Complete /\ Walked =>
        \A f \in Fills(spent) : IF is_bid THEN QtyOf(f) >= qty ELSE QtyOf(f) <= qty

\* "Measured from mid, so it ALREADY includes crossing the half-spread": the average
\* price of what was taken so far is never better than the best level.
NoBetterThanTouch ==
    IF is_bid THEN spent * Unit <= bids[1].px * qty ELSE asks[1].px * qty <= spent * Unit

=============================================================================
