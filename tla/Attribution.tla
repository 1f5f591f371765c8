---------------------------- MODULE Attribution ----------------------------
(***************************************************************************)
(* M6: who traded.  Swap logs of one pool are decoded into trades, a       *)
(* trade's cost is measured against the mid M2 recorded at the state       *)
(* change before it, and its realized profit against the Bybit mid.        *)
(*                                                                         *)
(* The behaviour is the pool's life; what M6 computes is defined on the    *)
(* tables it leaves (raw_logs, dex_quotes).  Prices are ticks, the fee is  *)
(* a number of ticks per MNT, and costs are in ticks and not in bps.  What *)
(* BookWalk computes is here two depths and a slippage in percent; the     *)
(* Bybit mid at a swap may be any.                                         *)
(***************************************************************************)
EXTENDS Integers, Sequences, SequencesExt, FiniteSets, FiniteSetsExt

CONSTANTS
    Kinds,      \* the kinds of pools: "v3" and "lb"
    TopPrice,   \* bound: mids are 1..TopPrice
    Fee,        \* the pool's fee
    Lots,       \* the quantities of MNT traded
    BybitMids,  \* what Bybit may trade at
    Depth,      \* what each side of the snapshot absorbs: [sell, buy]
    SlipPct,    \* slippage of a size it absorbs
    TakerPct,   \* BYBIT_TAKER_FEE
    MaxBlocks,  \* bound: state-change blocks
    MaxSwaps    \* bound: swaps in all

ASSUME AttributionAssumption ==
    /\ Kinds \subseteq {"v3", "lb"}
    /\ TopPrice \in Nat /\ Fee \in Nat
    /\ Lots \subseteq Nat \ {0}
    /\ BybitMids \subseteq Nat
    /\ Depth \in [sell: Nat, buy: Nat]
    /\ SlipPct \in 0..99 /\ TakerPct \in 0..99
    /\ MaxBlocks \in Nat /\ MaxSwaps \in Nat

VARIABLES
    kind,       \* the pool's kind; it does not change
    mid,        \* the pool's mid now
    raw,        \* raw_logs.parquet: [block, amounts]
    trades,     \* what the logs stand for: [side, pre, mnt, usd]; history
    mids,       \* dex_quotes.parquet: mids[b] of each closed block, 0 if M2 has none
    open        \* the block being filled has state changes

vars == <<kind, mid, raw, trades, mids, open>>

Prices == 1..TopPrice

\* The block being filled.
Now == Len(mids) + 1

-----------------------------------------------------------------------------
(* The logs.  A v3 log has signed amounts as seen by the pool, token0 USDT0 *)
(* and token1 WMNT; an lb log has what came in and what went out of x, WMNT,*)
(* and y, USDT0.                                                            *)

AmountsOf(side, usd, mnt) ==
    IF kind = "v3"
    THEN IF side = "A" THEN [a0 |-> usd, a1 |-> -mnt] ELSE [a0 |-> -usd, a1 |-> mnt]
    ELSE IF side = "A" THEN [in_x |-> 0, in_y |-> usd, out_x |-> mnt, out_y |-> 0]
                       ELSE [in_x |-> mnt, in_y |-> 0, out_x |-> 0, out_y |-> usd]

(* Slips the code could contain and does not. *)

Nothing == [direction |-> "none", usd |-> 0, mnt |-> 0]
SignsSwapped(log) ==
    IF kind = "v3"
    THEN [direction |-> IF log.a0 > 0 THEN "B" ELSE "A", usd |-> log.a0, mnt |-> -log.a1]
    ELSE [direction |-> IF log.in_x > 0 THEN "A" ELSE "B",
          usd |-> log.in_y + log.out_y, mnt |-> log.in_x + log.out_x]
SameBlock(b) == b
\* M6 decode_swaps.
Decode(log) ==
    IF kind = "v3"
    THEN IF log.a0 > 0 /\ log.a1 < 0 THEN [direction |-> "A", usd |-> log.a0, mnt |-> -log.a1]
         ELSE IF log.a1 > 0 /\ log.a0 < 0
              THEN [direction |-> "B", usd |-> -log.a0, mnt |-> log.a1]
              ELSE Nothing
    ELSE IF log.in_y > 0 /\ log.out_x > 0
         THEN [direction |-> "A", usd |-> log.in_y, mnt |-> log.out_x]
         ELSE IF log.in_x > 0 /\ log.out_y > 0
              THEN [direction |-> "B", usd |-> log.out_y, mnt |-> log.in_x]
              ELSE Nothing

\* The decoded swaps, by the position of their log.
Swaps == {i \in DOMAIN raw : Decode(raw[i].amounts) # Nothing}

\* M6 _cost_by_bucket: the block before b that M2 has a mid of, or none.
Shifted(b) ==
    LET before == {k \in DOMAIN mids : k < b /\ mids[k] # 0}
    IN  IF before = {} THEN 0 ELSE Max(before)

\* realized_profit walks both sides of the book for the swap's notional; "priced" is
\* a swap both absorb, though closing it takes one.
SellSlips(usd) == IF usd <= Depth.sell THEN {SlipPct} ELSE {}
BuySlips(usd)  == IF usd <= Depth.buy  THEN {SlipPct} ELSE {}

Absorbed(i) == LET usd == Decode(raw[i].amounts).usd
               IN  SellSlips(usd) # {} /\ BuySlips(usd) # {}

\* Swaps of a block M2 has no row of, or with no block before, get no cost, nor do
\* swaps that are not priced.
Priced(i) ==
    LET b == raw[i].block
    IN  Absorbed(i) /\ b \in DOMAIN mids /\ mids[b] # 0 /\ Shifted(b) # 0

PreMid(i) == mids[Shifted(raw[i].block)]

\* The price is usd / mnt; costs are multiplied by mnt to stay whole.
Cost(i) ==
    LET s == Decode(raw[i].amounts)
    IN  IF s.direction = "A" THEN s.usd - s.mnt * PreMid(i) ELSE s.mnt * PreMid(i) - s.usd

\* A slip: what the close costs is added where it is an income.
CostsAdded(i, m) ==
    LET s == Decode(raw[i].amounts)
        close == s.mnt * m * (100 + SlipPct) * (100 + TakerPct)
    IN  {IF s.direction = "A" THEN close - s.usd * 10000 ELSE s.usd * 10000 - close}

\* realized_usd, in hundredths of percents, if Bybit's mid is m: the one figure the
\* swap has, or none.
Realized(i, m) ==
    LET s == Decode(raw[i].amounts)
    IN  IF s.direction = "A"
        THEN {s.mnt * m * (100 - p) * (100 - TakerPct) - s.usd * 10000 : p \in SellSlips(s.usd)}
        ELSE {s.usd * 10000 - s.mnt * m * (100 + p) * (100 + TakerPct) : p \in BuySlips(s.usd)}

WasProfitable(i, m) == \E r \in Realized(i, m) : r > 0

-----------------------------------------------------------------------------
Init ==
    /\ kind \in Kinds
    /\ mid \in Prices
    /\ raw = <<>> /\ trades = <<>>
    /\ mids = <<>>
    /\ open = FALSE

\* Somebody buys (A) or sells (B) n MNT; the pool's mid moves against them, and
\* they trade at some price on the way, the fee on top.
Swap(side) ==
    /\ Len(raw) < MaxSwaps /\ Now <= MaxBlocks
    /\ \E n \in Lots, after, px \in Prices :
          /\ IF side = "A" THEN mid <= px /\ px <= after ELSE after <= px /\ px <= mid
          /\ LET usd == IF side = "A" THEN n * (px + Fee) ELSE n * (px - Fee)
             IN  /\ usd >= 0
                 /\ raw' = Append(raw, [block |-> Now, amounts |-> AmountsOf(side, usd, n)])
                 /\ trades' = Append(trades, [side |-> side, pre |-> mid, mnt |-> n, usd |-> usd])
          /\ mid' = after
    /\ open' = TRUE
    /\ UNCHANGED <<kind, mids>>

\* A state change that is no swap: liquidity comes or goes at the same price.
Liquidity ==
    /\ Now <= MaxBlocks /\ ~open
    /\ open' = TRUE
    /\ UNCHANGED <<kind, mid, raw, trades, mids>>

\* The block ends; M2 reads its mid, or fails to.
EndBlock ==
    /\ open
    /\ \E m \in {mid, 0} : mids' = Append(mids, m)
    /\ open' = FALSE
    /\ UNCHANGED <<kind, mid, raw, trades>>

Next == Swap("A") \/ Swap("B") \/ Liquidity \/ EndBlock

Spec == Init /\ [][Next]_vars

-----------------------------------------------------------------------------
(* Properties. *)

First(i) == \A k \in DOMAIN raw : k < i => raw[k].block # raw[i].block
Alone(i) == \A k \in DOMAIN raw : k # i => raw[k].block # raw[i].block

\* M2 has the block just before.
Adjacent(i) == raw[i].block > 1 /\ mids[raw[i].block - 1] # 0

\* Types of the pool and the tables.
TypeOK ==
    /\ kind \in Kinds
    /\ mid \in Prices
    /\ Len(raw) = Len(trades)
    /\ \A i \in DOMAIN raw : raw[i].block \in 1..Now
    /\ \A i \in Swaps : Decode(raw[i].amounts).usd > 0 /\ Decode(raw[i].amounts).mnt > 0
    /\ \A b \in DOMAIN mids : mids[b] \in Prices \cup {0}
    /\ open \in BOOLEAN

\* M6's directions and M2's mids tell one story: the swap that is alone in its block
\* moved the mid its own way, up when it bought MNT and down when it sold.
DirectionMovesMid ==
    \A i \in Swaps :
        Alone(i) /\ Priced(i) /\ Adjacent(i) =>
            IF Decode(raw[i].amounts).direction = "A" THEN PreMid(i) <= mids[raw[i].block]
                                                      ELSE mids[raw[i].block] <= PreMid(i)

\* "a hard floor exactly at the pool's ... fee tier, violated by none": the first swap
\* of a block costs at least the fee against the mid before it, if M2 has that mid.
FeeFloor ==
    \A i \in Swaps : First(i) /\ Priced(i) /\ Adjacent(i) =>
        Cost(i) >= Fee * Decode(raw[i].amounts).mnt

\* A swap that would have made money against Bybit met a gap wider than the pool's
\* fee: what M6 calls profitable is an arbitrage that was there before the swap.
ProfitNeedsGap ==
    \A i \in Swaps, m \in BybitMids :
        First(i) /\ Priced(i) /\ Adjacent(i) /\ WasProfitable(i, m) =>
            IF Decode(raw[i].amounts).direction = "A" THEN m > PreMid(i) + Fee
                                                      ELSE m < PreMid(i) - Fee

\* A claim: a swap the snapshot cannot absorb "gets no realized figure".
UnpricedHasNoFigure == \A i \in Swaps, m \in BybitMids : Absorbed(i) \/ Realized(i, m) = {}

\* "cost per swap vs the pool's own PRE-swap mid", of every swap that gets a cost.
CostAgainstPreSwapMid ==
    \A i \in Swaps : Priced(i) /\ Adjacent(i) => PreMid(i) = trades[i].pre

=============================================================================
