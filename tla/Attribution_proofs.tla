-------------------------- MODULE Attribution_proofs --------------------------
(***************************************************************************)
(* What M6's tables of Attribution say, for every fee, price range, depth  *)
(* of the book and number of blocks and swaps.                             *)
(***************************************************************************)
EXTENDS Attribution, TLAPS

USE AttributionAssumption

Amounts == [a0: Int, a1: Int] \cup [in_x: Int, in_y: Int, out_x: Int, out_y: Int]

Logs    == [block: Nat, amounts: Amounts]
Trades  == [side: {"A", "B"}, pre: Prices, mnt: Nat \ {0}, usd: Nat]

\* Types, as far as the proofs need them.
Typed ==
    /\ kind \in Kinds
    /\ mid \in Prices
    /\ raw \in Seq(Logs)
    /\ trades \in Seq(Trades)
    /\ mids \in Seq(0..TopPrice)
    /\ Len(raw) = Len(trades)
    /\ open \in BOOLEAN

\* A log stands for its trade, in a block so far.
Recorded ==
    \A i \in 1..Len(raw) :
        /\ raw[i].block \in 1..Now
        /\ raw[i].amounts = AmountsOf(trades[i].side, trades[i].usd, trades[i].mnt)

\* A trade pays the fee on top of a price no better than the mid it met.
Paid ==
    \A i \in 1..Len(trades) :
        IF trades[i].side = "A" THEN trades[i].mnt * (trades[i].pre + Fee) <= trades[i].usd
                                ELSE trades[i].usd <= trades[i].mnt * (trades[i].pre - Fee)

\* Until somebody swaps, a block has the mid the last one ended with.
Carried ==
    /\ Len(mids) >= 1 /\ mids[Len(mids)] # 0 /\ (\A i \in 1..Len(raw) : raw[i].block # Now)
          => mid = mids[Len(mids)]
    /\ \A i \in 1..Len(raw) :
          First(i) /\ raw[i].block > 1 /\ mids[raw[i].block - 1] # 0
              => mids[raw[i].block - 1] = trades[i].pre

\* m is where the trade moved the mid, or beyond.
Moved(i, m) == IF trades[i].side = "A" THEN trades[i].pre <= m ELSE m <= trades[i].pre

Pushed ==
    \A i \in 1..Len(raw) : Alone(i) =>
        /\ raw[i].block = Now => Moved(i, mid)
        /\ raw[i].block # Now /\ mids[raw[i].block] # 0 => Moved(i, mids[raw[i].block])

IInv == Typed /\ Recorded /\ Paid /\ Carried /\ Pushed

-----------------------------------------------------------------------------
LEMMA RowTypes ==
  ASSUME IInv
  PROVE  /\ \A i \in 1..Len(raw) : raw[i] \in Logs /\ raw[i].block \in Nat
         /\ \A i \in 1..Len(trades) : trades[i] \in Trades
         /\ Len(raw) = Len(trades)
         /\ DOMAIN raw = 1..Len(raw)
<1>1. raw \in Seq(Logs) /\ trades \in Seq(Trades) /\ Len(raw) = Len(trades)
  BY DEF IInv, Typed
<1>2. \A r \in Logs : r.block \in Nat
  BY DEF Logs
<1> QED
  BY <1>1, <1>2

\* decode_swaps undoes the pool's encoding, unless no USDT0 changed hands.
LEMMA DecodeUndoes ==
  ASSUME kind \in {"v3", "lb"}, NEW side \in {"A", "B"}, NEW usd \in Nat, NEW mnt \in Nat \ {0},
         Decode(AmountsOf(side, usd, mnt)) # Nothing
  PROVE  /\ Decode(AmountsOf(side, usd, mnt)) = [direction |-> side, usd |-> usd, mnt |-> mnt]
         /\ usd > 0
<1>1. CASE kind = "v3" /\ side = "A"
  BY <1>1 DEF Decode, AmountsOf
<1>2. CASE kind = "v3" /\ side = "B"
  BY <1>2 DEF Decode, AmountsOf
<1>3. CASE kind = "lb" /\ side = "A"
  BY <1>3 DEF Decode, AmountsOf
<1>4. CASE kind = "lb" /\ side = "B"
  BY <1>4 DEF Decode, AmountsOf
<1> QED
  BY <1>1, <1>2, <1>3, <1>4

\* So a decoded swap is the trade it stands for.
LEMMA SwapIsTrade ==
  ASSUME IInv, NEW i \in Swaps
  PROVE  /\ i \in 1..Len(raw) /\ i \in 1..Len(trades)
         /\ trades[i] \in Trades
         /\ Decode(raw[i].amounts)
              = [direction |-> trades[i].side, usd |-> trades[i].usd, mnt |-> trades[i].mnt]
         /\ trades[i].usd > 0
<1>1. i \in 1..Len(raw) /\ i \in 1..Len(trades) /\ Decode(raw[i].amounts) # Nothing
  BY RowTypes DEF Swaps
<1>2. trades[i] \in Trades
  BY <1>1, RowTypes
<1>3. raw[i].amounts = AmountsOf(trades[i].side, trades[i].usd, trades[i].mnt)
  BY <1>1 DEF IInv, Recorded
<1>4. kind \in {"v3", "lb"}
  BY DEF IInv, Typed
<1>5. /\ trades[i].side \in {"A", "B"} /\ trades[i].usd \in Nat
      /\ trades[i].mnt \in Nat \ {0}
  BY <1>2 DEF Trades
<1>6. Decode(AmountsOf(trades[i].side, trades[i].usd, trades[i].mnt)) # Nothing
  BY <1>1, <1>3
<1>7. /\ Decode(AmountsOf(trades[i].side, trades[i].usd, trades[i].mnt))
           = [direction |-> trades[i].side, usd |-> trades[i].usd, mnt |-> trades[i].mnt]
      /\ trades[i].usd > 0
  BY ONLY <1>4, <1>5, <1>6, DecodeUndoes
<1> QED
  BY <1>1, <1>2, <1>3, <1>7

\* _cost_by_bucket: the shift takes the block just before, when M2 has it.
LEMMA ShiftsByOne ==
  ASSUME IInv, NEW b \in Nat, b > 1, b - 1 \in 1..Len(mids), mids[b - 1] # 0
  PROVE  Shifted(b) = b - 1
<1> DEFINE before == {k \in DOMAIN mids : k < b /\ mids[k] # 0}
<1>1. before \subseteq Nat /\ b - 1 \in before /\ \A k \in before : k <= b - 1
  BY DEF IInv, Typed
<1> HIDE DEF before
<1>2. \A x \in before : (\A y \in before : x >= y) => x = b - 1
  BY <1>1
<1>3. Max(before) = b - 1
  BY <1>1, <1>2 DEF Max
<1> QED
  BY <1>1, <1>3 DEF Shifted, before

\* The pre-swap mid of the first swap of a block is the mid it met.
LEMMA PreMidIsPre ==
  ASSUME IInv, NEW i \in Swaps, First(i), Priced(i), Adjacent(i)
  PROVE  PreMid(i) = trades[i].pre
<1>1. i \in 1..Len(raw)
  BY SwapIsTrade
<1>2. raw[i].block \in Nat
  BY <1>1, RowTypes
<1>3. raw[i].block > 1 /\ mids[raw[i].block - 1] # 0
  BY DEF Adjacent
<1>5. raw[i].block \in DOMAIN mids /\ DOMAIN mids = 1..Len(mids) /\ Len(mids) \in Nat
  BY DEF Priced, IInv, Typed
<1>6. raw[i].block - 1 \in 1..Len(mids)
  BY <1>2, <1>3, <1>5
<1>4. Shifted(raw[i].block) = raw[i].block - 1
  BY <1>2, <1>3, <1>6, ShiftsByOne
<1> QED
  BY <1>1, <1>3, <1>4 DEF PreMid, IInv, Carried

-----------------------------------------------------------------------------
LEMMA InitInv == Init => IInv
<1> SUFFICES ASSUME Init PROVE IInv
  OBVIOUS
<1>1. Len(raw) = 0 /\ Len(trades) = 0 /\ Len(mids) = 0
  BY DEF Init
<1>2. raw \in Seq(Logs) /\ trades \in Seq(Trades) /\ mids \in Seq(0..TopPrice)
  BY DEF Init
<1>3. kind \in Kinds /\ mid \in Prices /\ open \in BOOLEAN
  BY DEF Init
<1>4. Typed
  BY <1>1, <1>2, <1>3 DEF Typed
<1>5. 1..Len(raw) = {} /\ 1..Len(trades) = {}
  BY <1>1
<1>6. Recorded /\ Paid
  BY <1>5 DEF Recorded, Paid
<1>7. Carried /\ Pushed
  BY <1>1, <1>5 DEF Carried, Pushed
<1> QED
  BY <1>4, <1>6, <1>7 DEF IInv

\* A step that leaves the pool's mid and the tables alone.
LEMMA SameInv ==
  ASSUME IInv, UNCHANGED <<kind, mid, raw, trades, mids>>, open' \in BOOLEAN
  PROVE  IInv'
<1>1. Typed'
  BY DEF IInv, Typed
<1>2. Recorded'
  BY DEF IInv, Recorded, Now, AmountsOf
<1>3. Paid'
  BY DEF IInv, Paid
<1>4. Carried'
  BY DEF IInv, Carried, Now, First
<1>5. Pushed'
  BY DEF IInv, Pushed, Now, Alone, Moved
<1> QED
  BY <1>1, <1>2, <1>3, <1>4, <1>5 DEF IInv

LEMMA Scaled ==
  ASSUME NEW n \in Nat, NEW a \in Int, NEW b \in Int, a <= b
  PROVE  n * a <= n * b
<1>1. PICK d \in Nat : b = a + d
  BY b - a \in Nat
<1>2. n * b = n * a + n * d /\ n * d \in Nat /\ n * a \in Int
  BY <1>1
<1> QED
  BY <1>2

LEMMA SwapInv ==
  ASSUME IInv, NEW side \in {"A", "B"}, Swap(side)
  PROVE  IInv'
<1> DEFINE N == Len(raw) + 1
<1>1. PICK n \in Lots, after \in Prices, px \in Prices :
        LET usd == IF side = "A" THEN n * (px + Fee) ELSE n * (px - Fee)
        IN  /\ IF side = "A" THEN mid <= px /\ px <= after ELSE after <= px /\ px <= mid
            /\ usd >= 0
            /\ raw' = Append(raw, [block |-> Now, amounts |-> AmountsOf(side, usd, n)])
            /\ trades' = Append(trades, [side |-> side, pre |-> mid, mnt |-> n, usd |-> usd])
            /\ mid' = after
  BY DEF Swap
<1> DEFINE usd == IF side = "A" THEN n * (px + Fee) ELSE n * (px - Fee)
           log == [block |-> Now, amounts |-> AmountsOf(side, usd, n)]
           trade == [side |-> side, pre |-> mid, mnt |-> n, usd |-> usd]
<1>2. UNCHANGED <<kind, mids>> /\ open' \in BOOLEAN /\ Now' = Now
  BY DEF Swap, Now
<1>3. /\ n \in Nat \ {0} /\ after \in Nat /\ px \in Nat /\ mid \in Nat /\ Fee \in Nat
      /\ mid \in Prices /\ kind \in Kinds
  BY DEF IInv, Typed, Prices
<1>4. usd \in Nat
  <2>1. n * (px + Fee) \in Int /\ n * (px - Fee) \in Int
    BY <1>3
  <2> QED
    BY <1>1, <2>1
<1>5. Now \in Nat /\ Now >= 1 /\ Now = Len(mids) + 1 /\ mids \in Seq(0..TopPrice)
  BY DEF IInv, Typed, Now
<1>6. raw' = Append(raw, log) /\ trades' = Append(trades, trade) /\ mid' = after
  BY <1>1
<1>7. IF side = "A" THEN mid <= px /\ px <= after ELSE after <= px /\ px <= mid
  BY <1>1
<1> HIDE DEF usd
<1>8. trade \in Trades /\ log \in Logs
  <2>1. AmountsOf(side, usd, n) \in Amounts
    BY <1>3, <1>4 DEF AmountsOf, Amounts
  <2> QED
    BY <2>1, <1>3, <1>4, <1>5 DEF Trades, Logs
<1>9. log.block = Now /\ log.amounts = AmountsOf(side, usd, n)
  OBVIOUS
<1>10. trade.side = side /\ trade.pre = mid /\ trade.mnt = n /\ trade.usd = usd
  OBVIOUS
<1> HIDE DEF log, trade
<1>11. raw \in Seq(Logs) /\ trades \in Seq(Trades) /\ Len(raw) = Len(trades) /\ Len(raw) \in Nat
  BY DEF IInv, Typed
<1>12. /\ raw' \in Seq(Logs) /\ trades' \in Seq(Trades)
       /\ Len(raw') = N /\ Len(trades') = N
       /\ raw'[N] = log /\ trades'[N] = trade
       /\ \A i \in 1..Len(raw) : raw'[i] = raw[i] /\ trades'[i] = trades[i]
  BY <1>6, <1>8, <1>11
<1>13. \A i \in 1..Len(raw') : i \in 1..Len(raw) \/ i = N
  BY <1>11, <1>12
<1>13a. DOMAIN raw' = 1..N /\ DOMAIN raw = 1..Len(raw)
  BY <1>11, <1>12
<1>14. \A i \in 1..Len(raw) : raw[i].block \in Nat
  BY RowTypes
<1> HIDE DEF N
<1>14a. N = Len(raw) + 1
  BY DEF N
<1>14b. \A k \in 1..Len(raw) : k \in DOMAIN raw'
  BY <1>11, <1>13a, <1>14a
<1>14c. \A k \in 1..Len(raw) : k # N /\ k < N
  BY <1>11, <1>14a
<1>15. Typed'
  <2>1. mid' \in Prices
    BY <1>6
  <2> QED
    BY <1>2, <1>3, <1>5, <1>12, <2>1 DEF Typed
<1>16. Recorded'
  <2> SUFFICES ASSUME NEW i \in 1..Len(raw')
               PROVE  /\ raw'[i].block \in 1..Now'
                      /\ raw'[i].amounts = AmountsOf(trades[i].side, trades[i].usd, trades[i].mnt)'
    BY DEF Recorded
  <2>1. CASE i = N
    BY <2>1, <1>2, <1>5, <1>9, <1>10, <1>12 DEF AmountsOf
  <2>2. CASE i \in 1..Len(raw)
    BY <2>2, <1>2, <1>12 DEF AmountsOf, IInv, Recorded
  <2> QED
    BY <2>1, <2>2, <1>13
<1>17. Paid'
  <2>1. IF side = "A" THEN n * (mid + Fee) <= usd ELSE usd <= n * (mid - Fee)
    <3>1. CASE side = "A"
      BY <3>1, <1>3, <1>7, Scaled, mid + Fee <= px + Fee DEF usd
    <3>2. CASE side # "A"
      BY <3>2, <1>3, <1>7, Scaled, px - Fee <= mid - Fee DEF usd
    <3> QED
      BY <3>1, <3>2
  <2> SUFFICES ASSUME NEW i \in 1..Len(trades')
               PROVE  IF trades'[i].side = "A"
                      THEN trades'[i].mnt * (trades'[i].pre + Fee) <= trades'[i].usd
                      ELSE trades'[i].usd <= trades'[i].mnt * (trades'[i].pre - Fee)
    BY DEF Paid
  <2>2. CASE i = N
    BY <2>1, <2>2, <1>10, <1>12
  <2>3. CASE i \in 1..Len(raw)
    BY <2>3, <1>11, <1>12 DEF IInv, Paid
  <2> QED
    BY <2>2, <2>3, <1>12, <1>13
<1>18. Carried'
  <2>1. ~ \A i \in 1..Len(raw') : raw'[i].block # Now'
    BY <1>2, <1>9, <1>11, <1>12, <1>14a
  <2>2. ASSUME NEW i \in 1..Len(raw'), First(i)', raw'[i].block > 1, mids'[raw'[i].block - 1] # 0
        PROVE  mids'[raw'[i].block - 1] = trades'[i].pre
    <3>1. \A k \in 1..Len(raw) : k < i => raw[k].block # raw'[i].block
      BY <2>2, <1>12, <1>14b DEF First
    <3>2. CASE i = N
      <4>1. \A k \in 1..Len(raw) : raw[k].block # Now
        BY <3>1, <3>2, <1>9, <1>11, <1>12, <1>14a
      <4>2. Len(mids) >= 1 /\ mids[Len(mids)] # 0 /\ Now - 1 = Len(mids)
        BY <3>2, <2>2, <1>2, <1>5, <1>9, <1>12
      <4>3. mid = mids[Len(mids)]
        BY <4>1, <4>2 DEF IInv, Carried
      <4> QED
        BY <4>2, <4>3, <3>2, <1>2, <1>9, <1>10, <1>12
    <3>3. CASE i \in 1..Len(raw)
      <4>1. First(i) /\ raw[i].block > 1 /\ mids[raw[i].block - 1] # 0
        BY <3>1, <3>3, <2>2, <1>2, <1>12, <1>13a DEF First
      <4> QED
        BY <4>1, <3>3, <1>2, <1>12 DEF IInv, Carried
    <3> QED
      BY <3>2, <3>3, <1>13
  <2> QED
    BY <2>1, <2>2 DEF Carried
<1>19. Pushed'
  <2> SUFFICES ASSUME NEW i \in 1..Len(raw'), Alone(i)'
               PROVE  /\ raw'[i].block = Now' => Moved(i, mid)'
                      /\ raw'[i].block # Now' /\ mids'[raw'[i].block] # 0
                           => Moved(i, mids[raw[i].block])'
    BY DEF Pushed
  <2>1. CASE i = N
    <3>1. raw'[i].block = Now'
      BY <2>1, <1>2, <1>9, <1>12
    <3>2. Moved(i, mid)'
      BY <2>1, <1>3, <1>6, <1>7, <1>10, <1>12 DEF Moved
    <3> QED
      BY <3>1, <3>2
  <2>2. CASE i \in 1..Len(raw)
    <3>1. raw[i].block # Now /\ N \in DOMAIN raw' /\ N # i
      BY <2>2, <1>9, <1>11, <1>12, <1>13a, <1>14a, <1>14c DEF Alone
    <3>2. Alone(i)
      BY <2>2, <1>12, <1>13a, <1>14b DEF Alone
    <3>3. mids[raw[i].block] # 0 => Moved(i, mids[raw[i].block])
      BY <2>2, <3>1, <3>2 DEF IInv, Pushed
    <3> QED
      BY <2>2, <3>1, <3>3, <1>2, <1>12 DEF Moved
  <2> QED
    BY <2>1, <2>2, <1>13
<1> QED
  BY <1>15, <1>16, <1>17, <1>18, <1>19 DEF IInv

LEMMA EndBlockInv ==
  ASSUME IInv, EndBlock
  PROVE  IInv'
<1>1. PICK m \in {mid, 0} : mids' = Append(mids, m)
  BY DEF EndBlock
<1>2. UNCHANGED <<kind, mid, raw, trades>> /\ open' \in BOOLEAN
  BY DEF EndBlock
<1>3. mids \in Seq(0..TopPrice) /\ Len(mids) \in Nat /\ m \in 0..TopPrice
  BY DEF IInv, Typed, Prices
<1>4. /\ mids' \in Seq(0..TopPrice) /\ Len(mids') = Now /\ mids'[Now] = m /\ Now' = Now + 1
      /\ \A b \in 1..Len(mids) : mids'[b] = mids[b]
      /\ Now = Len(mids) + 1
  BY <1>1, <1>3 DEF Now
<1>5. Now \in Nat /\ \A i \in 1..Len(raw) : raw[i].block \in Nat /\ 1 <= raw[i].block /\ raw[i].block <= Now
  <2>1. \A i \in 1..Len(raw) : raw[i].block \in Nat /\ raw[i].block \in 1..Now
    BY RowTypes DEF IInv, Recorded
  <2>2. Now \in Nat
    BY <1>3, <1>4
  <2> QED
    BY <2>1, <2>2
<1>6. Typed'
  BY <1>2, <1>4 DEF IInv, Typed
<1>7. Recorded'
  BY <1>2, <1>3, <1>4 DEF IInv, Recorded, AmountsOf
<1>8. Paid'
  BY <1>2 DEF IInv, Paid
<1>9. Carried'
  <2>1. mids'[Len(mids')] # 0 => mid' = mids'[Len(mids')]
    BY <1>1, <1>2, <1>4
  <2>2. ASSUME NEW i \in 1..Len(raw), First(i), raw[i].block > 1, mids'[raw[i].block - 1] # 0
        PROVE  mids'[raw[i].block - 1] = trades[i].pre
    <3>0. raw[i].block \in Nat /\ raw[i].block <= Len(mids) + 1 /\ Len(mids) \in Nat
      BY <1>3, <1>4, <1>5
    <3>1. raw[i].block - 1 \in 1..Len(mids)
      BY <2>2, <3>0
    <3> QED
      BY <2>2, <3>1, <1>4 DEF IInv, Carried
  <2> QED
    BY <2>1, <2>2, <1>2 DEF Carried, First
<1>10. Pushed'
  <2> SUFFICES ASSUME NEW i \in 1..Len(raw), Alone(i)
               PROVE  /\ raw[i].block = Now' => Moved(i, mid)
                      /\ raw[i].block # Now' /\ mids'[raw[i].block] # 0
                           => Moved(i, mids'[raw[i].block])
    BY <1>2 DEF Pushed, Alone, Moved
  <2>0. raw[i].block \in Nat /\ raw[i].block <= Now /\ Now \in Nat /\ Now' = Now + 1
    BY <1>4, <1>5
  <2>1. raw[i].block # Now'
    BY <2>0
  <2>2. CASE raw[i].block = Now
    BY <2>1, <2>2, <1>1, <1>4 DEF IInv, Pushed
  <2>3. CASE raw[i].block # Now
    <3>0. raw[i].block \in Nat /\ 1 <= raw[i].block /\ raw[i].block <= Len(mids) + 1
          /\ raw[i].block # Len(mids) + 1 /\ Len(mids) \in Nat
      BY <2>3, <1>3, <1>4, <1>5
    <3>1. raw[i].block \in 1..Len(mids)
      BY <3>0
    <3> QED
      BY <2>1, <2>3, <3>1, <1>4 DEF IInv, Pushed
  <2> QED
    BY <2>2, <2>3
<1> QED
  BY <1>6, <1>7, <1>8, <1>9, <1>10 DEF IInv

LEMMA StepInv ==
  ASSUME IInv, [Next]_vars
  PROVE  IInv'
<1>1. CASE \E side \in {"A", "B"} : Swap(side)
  BY <1>1, SwapInv
<1>2. CASE Liquidity
  BY <1>2, SameInv DEF Liquidity
<1>3. CASE EndBlock
  BY <1>3, EndBlockInv
<1>4. CASE UNCHANGED vars
  <2>1. open' \in BOOLEAN
    BY <1>4 DEF vars, IInv, Typed
  <2> QED
    BY <1>4, <2>1, SameInv DEF vars
<1> QED
  BY <1>1, <1>2, <1>3, <1>4 DEF Next

\* The invariant every theorem below follows from.
THEOREM Inductive == Spec => []IInv
<1>1. Init => IInv
  BY InitInv
<1>2. IInv /\ [Next]_vars => IInv'
  BY StepInv
<1> QED
  BY <1>1, <1>2, PTL DEF Spec

\* The state types the runs check, decoded swaps included.
THEOREM TradeTyping == Spec => []TypeOK
<1>1. IInv => TypeOK
  <2> SUFFICES ASSUME IInv PROVE TypeOK
    OBVIOUS
  <2>1. kind \in Kinds /\ mid \in Prices /\ Len(raw) = Len(trades) /\ open \in BOOLEAN
    BY DEF IInv, Typed
  <2>2. \A i \in DOMAIN raw : raw[i].block \in 1..Now
    BY RowTypes DEF IInv, Recorded
  <2>3. ASSUME NEW i \in Swaps
        PROVE  Decode(raw[i].amounts).usd > 0 /\ Decode(raw[i].amounts).mnt > 0
    <3>1. /\ Decode(raw[i].amounts)
               = [direction |-> trades[i].side, usd |-> trades[i].usd, mnt |-> trades[i].mnt]
          /\ trades[i].usd > 0 /\ trades[i] \in Trades
      BY SwapIsTrade
    <3>2. trades[i].mnt > 0
      BY <3>1 DEF Trades
    <3> QED
      BY <3>1, <3>2
  <2>4. \A b \in DOMAIN mids : mids[b] \in Prices \cup {0}
    <3>1. \A b \in DOMAIN mids : mids[b] \in 0..TopPrice
      BY DEF IInv, Typed
    <3>2. 0..TopPrice \subseteq Prices \cup {0}
      BY DEF Prices
    <3> QED
      BY <3>1, <3>2
  <2> QED
    BY <2>1, <2>2, <2>3, <2>4 DEF TypeOK
<1> QED
  BY <1>1, Inductive, PTL

\* The first swap of a block pays at least the fee over the mid before it.
LEMMA FirstPaysFee ==
  ASSUME IInv, NEW i \in Swaps, First(i), Priced(i), Adjacent(i)
  PROVE  Cost(i) >= Fee * Decode(raw[i].amounts).mnt
<1>1. PreMid(i) = trades[i].pre
  BY PreMidIsPre
<1>2. /\ i \in 1..Len(trades) /\ trades[i] \in Trades
      /\ Decode(raw[i].amounts)
           = [direction |-> trades[i].side, usd |-> trades[i].usd, mnt |-> trades[i].mnt]
  BY SwapIsTrade
<1>3. IF trades[i].side = "A" THEN trades[i].mnt * (trades[i].pre + Fee) <= trades[i].usd
                              ELSE trades[i].usd <= trades[i].mnt * (trades[i].pre - Fee)
  BY <1>2 DEF IInv, Paid
<1>4. /\ trades[i].side \in {"A", "B"} /\ trades[i].usd \in Nat /\ trades[i].mnt \in Nat
      /\ trades[i].pre \in Nat /\ Fee \in Nat
  BY <1>2 DEF Trades, Prices
<1>5. Cost(i) = IF trades[i].side = "A" THEN trades[i].usd - trades[i].mnt * trades[i].pre
                                        ELSE trades[i].mnt * trades[i].pre - trades[i].usd
  BY <1>1, <1>2 DEF Cost
<1> DEFINE q == trades[i].mnt  p == trades[i].pre  u == trades[i].usd
<1>6. /\ q * (p + Fee) = q * p + Fee * q /\ q * (p - Fee) = q * p - Fee * q
      /\ q * p \in Int /\ Fee * q \in Int
  BY <1>4
<1>7. Decode(raw[i].amounts).mnt = q
  BY <1>2
<1> QED
  BY <1>3, <1>4, <1>5, <1>6, <1>7

THEOREM FeeIsTheFloor == Spec => []FeeFloor
<1>1. IInv => FeeFloor
  BY FirstPaysFee DEF FeeFloor
<1> QED
  BY <1>1, Inductive, PTL

\* What M6 calls a buy raised the mid M2 read, and a sell lowered it.
THEOREM SwapsMoveTheMid == Spec => []DirectionMovesMid
<1>1. ASSUME IInv, NEW i \in Swaps, Alone(i), Priced(i), Adjacent(i)
      PROVE  IF Decode(raw[i].amounts).direction = "A" THEN PreMid(i) <= mids[raw[i].block]
                                                       ELSE mids[raw[i].block] <= PreMid(i)
  <2>1. i \in 1..Len(raw) /\ trades[i] \in Trades /\ Decode(raw[i].amounts).direction = trades[i].side
    <3>1. /\ i \in 1..Len(raw) /\ trades[i] \in Trades
          /\ Decode(raw[i].amounts)
               = [direction |-> trades[i].side, usd |-> trades[i].usd, mnt |-> trades[i].mnt]
      BY <1>1, SwapIsTrade
    <3> QED
      BY <3>1
  <2>2. \A k \in DOMAIN raw : k < i => k # i
    <3>1. DOMAIN raw = 1..Len(raw)
      BY <1>1, RowTypes
    <3>2. ASSUME NEW k \in 1..Len(raw), k < i PROVE k # i
      BY <2>1, <3>2
    <3> QED
      BY <3>1, <3>2
  <2>3. First(i)
    BY <1>1, <2>2 DEF First, Alone
  <2>4. PreMid(i) = trades[i].pre
    BY <1>1, <2>3, PreMidIsPre
  <2>5. raw[i].block \in 1..Len(mids) /\ mids[raw[i].block] # 0 /\ Len(mids) \in Nat
    BY <1>1 DEF Priced, IInv, Typed
  <2>5a. Now = Len(mids) + 1
    BY DEF Now
  <2>6. raw[i].block # Now
    BY <2>5, <2>5a
  <2>7. Moved(i, mids[raw[i].block])
    BY <1>1, <2>1, <2>5, <2>6 DEF IInv, Pushed
  <2> QED
    BY <2>1, <2>4, <2>7 DEF Moved
<1>2. IInv => DirectionMovesMid
  BY <1>1 DEF DirectionMovesMid
<1> QED
  BY <1>2, Inductive, PTL

\* Bybit's side of a trade: at best its mid, whatever the book and the fee take.
LEMMA CloseIsNoBetter ==
  ASSUME NEW q \in Nat, NEW m \in Nat, NEW s \in 0..99, NEW t \in 0..99
  PROVE  /\ q * m * (100 - s) * (100 - t) <= q * m * 10000
         /\ q * m * 10000 <= q * m * (100 + s) * (100 + t)
<1> DEFINE x == q * m  a == x * (100 - s)  b == x * (100 + s)
<1>1. x \in Nat
  OBVIOUS
<1> HIDE DEF x
<1>2. x * s \in Nat /\ a = x * 100 - x * s /\ b = x * 100 + x * s
  BY <1>1
<1>3. a \in Int /\ b \in Int /\ a <= x * 100 /\ x * 100 <= b
  BY <1>1, <1>2
<1>4. 100 - s \in Nat /\ 100 - t \in Nat
  OBVIOUS
<1>5. a \in Nat /\ b \in Nat
  BY <1>1, <1>4, <1>2
<1> HIDE DEF a, b
<1>6. a * t \in Nat /\ a * (100 - t) = a * 100 - a * t
  BY <1>5
<1>7. b * t \in Nat /\ b * (100 + t) = b * 100 + b * t
  BY <1>5
<1>8. a * (100 - t) <= x * 10000 /\ x * 10000 <= b * (100 + t)
  BY <1>1, <1>3, <1>5, <1>6, <1>7
<1> QED
  BY <1>8 DEF a, b, x

\* What a swap would have made in profit, it met as a gap wider than the fee.
THEOREM ProfitIsArbitrage == Spec => []ProfitNeedsGap
<1>1. ASSUME IInv, NEW i \in Swaps, NEW m \in BybitMids,
             First(i), Priced(i), Adjacent(i), WasProfitable(i, m)
      PROVE  IF Decode(raw[i].amounts).direction = "A" THEN m > PreMid(i) + Fee
                                                       ELSE m < PreMid(i) - Fee
  <2> DEFINE s == Decode(raw[i].amounts)
             p == trades[i].pre  q == trades[i].mnt  u == trades[i].usd
  <2>1. PreMid(i) = p
    BY <1>1, PreMidIsPre
  <2>2. /\ i \in 1..Len(trades) /\ trades[i] \in Trades
        /\ s = [direction |-> trades[i].side, usd |-> u, mnt |-> q]
    BY <1>1, SwapIsTrade
  <2>3. IF trades[i].side = "A" THEN q * (p + Fee) <= u ELSE u <= q * (p - Fee)
    BY <1>1, <2>2 DEF IInv, Paid
  <2>4. trades[i].side \in {"A", "B"} /\ u \in Nat /\ q \in Nat \ {0} /\ p \in Nat
    BY <2>2 DEF Trades, Prices
  <2>5. m \in Nat /\ Fee \in Nat /\ SlipPct \in 0..99 /\ TakerPct \in 0..99
    OBVIOUS
  <2>6. SellSlips(u) \subseteq {SlipPct} /\ BuySlips(u) \subseteq {SlipPct}
    BY DEF SellSlips, BuySlips
  <2>7. PICK r \in Realized(i, m) : r > 0
    BY <1>1 DEF WasProfitable
  <2>8. IF trades[i].side = "A"
        THEN r = q * m * (100 - SlipPct) * (100 - TakerPct) - u * 10000
        ELSE r = u * 10000 - q * m * (100 + SlipPct) * (100 + TakerPct)
    <3>1. s.direction = trades[i].side /\ s.mnt = q /\ s.usd = u
      BY <2>2
    <3>2. Realized(i, m) = IF trades[i].side = "A"
            THEN {q * m * (100 - k) * (100 - TakerPct) - u * 10000 : k \in SellSlips(u)}
            ELSE {u * 10000 - q * m * (100 + k) * (100 + TakerPct) : k \in BuySlips(u)}
      BY <3>1 DEF Realized
    <3> QED
      BY <3>2, <2>6, <2>7
  <2>9. s.direction = trades[i].side
    BY <2>2
  <2> HIDE DEF p, q, u, s
  <2>10. /\ q * m * (100 - SlipPct) * (100 - TakerPct) <= q * m * 10000
         /\ q * m * 10000 <= q * m * (100 + SlipPct) * (100 + TakerPct)
    BY <2>4, <2>5, CloseIsNoBetter
  <2>11. /\ q * m \in Nat /\ q * m * (100 - SlipPct) * (100 - TakerPct) \in Int
         /\ q * m * (100 + SlipPct) * (100 + TakerPct) \in Int
    BY <2>4, <2>5
  <2>12. CASE trades[i].side = "A"
    <3>1. u < q * m
      BY <2>4, <2>7, <2>8, <2>10, <2>11, <2>12
    <3>2. q * (p + Fee) < q * m
      BY <3>1, <2>3, <2>4, <2>5, <2>11, <2>12
    <3>3. ~(m <= p + Fee)
      BY <3>2, <2>4, <2>5, <2>11, Scaled
    <3> QED
      BY <3>3, <2>1, <2>4, <2>5, <2>9, <2>12 DEF s
  <2>13. CASE trades[i].side = "B"
    <3>1. q * m < u
      BY <2>4, <2>7, <2>8, <2>10, <2>11, <2>13
    <3>2. q * m < q * (p - Fee)
      BY <3>1, <2>3, <2>4, <2>5, <2>11, <2>13
    <3>3. ~(p - Fee <= m)
      BY <3>2, <2>4, <2>5, <2>11, Scaled
    <3> QED
      BY <3>3, <2>1, <2>4, <2>5, <2>9, <2>13 DEF s
  <2> QED
    BY <2>4, <2>12, <2>13
<1>2. IInv => ProfitNeedsGap
  BY <1>1 DEF ProfitNeedsGap
<1> QED
  BY <1>2, Inductive, PTL

=============================================================================
