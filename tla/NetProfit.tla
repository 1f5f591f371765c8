------------------------------ MODULE NetProfit ------------------------------
(***************************************************************************)
(* M4's economics on a complete slip table: the two legs of a row, its     *)
(* breakeven mid, its net profit at a Bybit mid, and the comparison M5     *)
(* makes instead of computing the profit.  The code writes the breakeven   *)
(* and the profit as separate formulas, in M4, and the profit again in M5. *)
(*                                                                         *)
(* The numbers are exact fractions.  What a pool quotes is not computed    *)
(* here: a quote is its mid and what it charges in each direction.         *)
(***************************************************************************)
EXTENDS BookWalk

CONSTANTS
    PoolMids,   \* mids of the pool, in ticks
    PoolCosts,  \* what the pool charges on top of its mid, in ticks, below every mid
    Gas,        \* gas_usd of a block
    BybitMids,  \* mids of the tape, in ticks
    FeeUnits,   \* BYBIT_TAKER_FEE is 1 / FeeUnits, less than all
    Null        \* a null of the table

ASSUME EconomicsAssumption ==
    /\ PoolMids \subseteq Nat \ {0} /\ BybitMids \subseteq Nat
    /\ PoolCosts \subseteq Nat /\ \A c \in PoolCosts, p \in PoolMids : c < p
    /\ Gas \subseteq Nat
    /\ FeeUnits \in Nat \ {0, 1}
    /\ Null \notin [n: Int, d: Int]

-----------------------------------------------------------------------------
(* Fractions [n, d], d > 0, as they come: not in lowest terms. *)

Frac(n, d) == [n |-> n, d |-> d]

Int2Frac(n) == [n |-> n, d |-> 1]
One == Int2Frac(1)
Plus(x, y)  == Frac(x.n * y.d + y.n * x.d, x.d * y.d)
Minus(x, y) == Frac(x.n * y.d - y.n * x.d, x.d * y.d)
Times(x, y) == Frac(x.n * y.n, x.d * y.d)
Over(x, y)  == Frac(x.n * y.d, x.d * y.n)
Exceeds(x, y) == x.n * y.d > y.n * x.d

Fee == Frac(1, FeeUnits)

-----------------------------------------------------------------------------
(* slip_fraction's value, relative to the mid of the snapshot. *)

SnapshotMid == Frac(bids[1].px + asks[1].px, 2)

VwapOverMid(w) == Over(Frac(w.spent * Unit, w.qty), SnapshotMid)

\* A slip: the formula of the asks for both sides.
OneFormula(u) == IF slips[u].sell = Unpriced THEN Null
                 ELSE Minus(VwapOverMid(slips[u].sell), One)

SellSlip(u) == IF slips[u].sell = Unpriced THEN Null
               ELSE Minus(One, VwapOverMid(slips[u].sell))
BuySlip(u)  == IF slips[u].buy = Unpriced THEN Null
               ELSE Minus(VwapOverMid(slips[u].buy), One)

Slip(row) == IF row.direction = "A" THEN SellSlip(row.size_usd) ELSE BuySlip(row.size_usd)

\* A full quote of each direction: A spends the size, B sells the size worth of MNT
\* at the pool's own mid.
RowsOf(mid, cost, u) ==
    {[direction |-> "A", size_usd |-> u,
      usd_leg |-> Int2Frac(u), qty_mnt |-> Frac(u, mid + cost)],
     [direction |-> "B", size_usd |-> u,
      usd_leg |-> Frac(u * (mid - cost), mid), qty_mnt |-> Frac(u, mid)]}

QuotedRows == UNION {RowsOf(m, c, u) : m \in PoolMids, c \in PoolCosts, u \in Ladder}

\* What the Bybit leg of a row pays (A) or costs (B) for each unit of the mid.
CexFactor(row) ==
    IF row.direction = "A" THEN Times(Times(row.qty_mnt, Minus(One, Slip(row))), Minus(One, Fee))
                           ELSE Times(Times(row.qty_mnt, Plus(One, Slip(row))), Plus(One, Fee))

(* Slips the code could contain and does not. *)

GasAlwaysAdded(row, gas) ==
    IF Slip(row) = Null THEN Null
    ELSE Over(Plus(row.usd_leg, Int2Frac(gas)), CexFactor(row))

\* breakeven_mid, constant over the interval of the row.
Breakeven(row, gas) ==
    IF Slip(row) = Null THEN Null
    ELSE IF row.direction = "A"
         THEN Over(Plus(row.usd_leg, Int2Frac(gas)), CexFactor(row))
         ELSE Over(Minus(row.usd_leg, Int2Frac(gas)), CexFactor(row))

\* net_profit_usd of M4, and profit_usd of M5 at a later print.
NetProfitUsd(row, gas, mid) ==
    IF Slip(row) = Null THEN Null
    ELSE LET cex == Times(CexFactor(row), Int2Frac(mid))
         IN  Minus(IF row.direction = "A" THEN Minus(cex, row.usd_leg) ELSE Minus(row.usd_leg, cex),
                   Int2Frac(gas))

Profitable(row, gas, mid) == NetProfitUsd(row, gas, mid).n > 0

\* The comparison of find_windows.
BeyondBreakeven(row, gas, mid) ==
    IF row.direction = "A" THEN Exceeds(Int2Frac(mid), Breakeven(row, gas))
                           ELSE Exceeds(Breakeven(row, gas), Int2Frac(mid))

-----------------------------------------------------------------------------
(* Properties of a complete table. *)

DepthFor(row) == DepthOf(IF row.direction = "A" THEN bids ELSE asks)

\* "profit(t) > 0 <=> mid(t) > breakeven_mid ... Direction B inverts the inequality",
\* for every quote, gas and mid; and a size the book cannot absorb has neither a
\* breakeven nor a profit: it reads as unknown, not as free or as a loss.
BreakevenExact ==
    Complete => \A row \in QuotedRows, gas \in Gas :
        IF DepthFor(row) < row.size_usd
        THEN Breakeven(row, gas) = Null /\ \A m \in BybitMids : NetProfitUsd(row, gas, m) = Null
        ELSE \A m \in BybitMids : Profitable(row, gas, m) <=> BeyondBreakeven(row, gas, m)

\* What the pool itself takes (A) or gives (B) for one MNT, its charge included.
PoolPrice(row) == Over(row.usd_leg, row.qty_mnt)

PayingRows(m) ==
    {row \in QuotedRows : Slip(row) # Null /\ \E gas \in Gas : Profitable(row, gas, m)}

\* The report adds up both pools and both directions as if one stock of capital
\* served them all.  At one moment it does not get A and B of one pool: A and B pay
\* together, in whatever sizes, only while the pool of A sells MNT below what the
\* other pool gives for it, both charges included.
NeverBothWays ==
    Complete => \A m \in BybitMids : \A a, b \in PayingRows(m) :
        a.direction = "A" /\ b.direction = "B" => Exceeds(PoolPrice(b), PoolPrice(a))

=============================================================================
