-------------------------- MODULE BybitQuotes_proofs --------------------------
(***************************************************************************)
(* Proofs about the reconstructed quotes of BybitQuotes, for every tick    *)
(* grid, staleness limit and length of the tape.                           *)
(***************************************************************************)
EXTENDS BybitQuotes, TLAPS

USE QuotesAssumption

Rows == [timestamp: Nat, bid: 0..TopPrice, ask: 0..TopPrice, quote_age_ms: Nat,
         crossed: BOOLEAN]

\* Nothing on file is from the future.
Past ==
    /\ ask.ts <= now /\ bid.ts <= now
    /\ \A q \in latest : q.timestamp <= now
    /\ moved <= now

Typed == TypeOK /\ Past

\* What a step of the fold leaves in the table has its type.
LEMMA EmitType ==
    ASSUME Typed,
           NEW a \in [price: 0..TopPrice, ts: Nat], NEW b \in [price: 0..TopPrice, ts: Nat],
           a.ts <= now, b.ts <= now, Emit(b, a)
    PROVE  latest' \in SUBSET Rows /\ \A q \in latest' : q.timestamp <= now
  <1>1. Row(b, a) \in Rows /\ Row(b, a).timestamp <= now
    <2>1. QuoteAge(a, b) \in Nat /\ Crossed(b, a) \in BOOLEAN
      BY DEF QuoteAge, Crossed, Typed, TypeOK
    <2>2. now \in Nat
      BY DEF Typed, TypeOK
    <2>3. QED
      BY <2>1, <2>2 DEF Row, Rows
  <1>2. \A q \in latest' : q \in latest \/ q = Row(b, a)
    BY DEF Emit, RowsNow
  <1>3. \A q \in latest : q \in Rows /\ q.timestamp <= now
    BY DEF Typed, TypeOK, Past, Rows
  <1>4. QED
    BY <1>1, <1>2, <1>3

LEMMA TypedInit == Init => Typed
  <1> SUFFICES ASSUME Init PROVE Typed
    OBVIOUS
  <1>1. Null \in [price: 0..TopPrice, ts: Nat]
    BY DEF Null
  <1>3. NoOpp \in [ts_ms: Nat, bid: 0..TopPrice, ask: 0..TopPrice, bybit_lag_ms: Nat,
                   bybit_quote_age_ms: Nat, stale: BOOLEAN]
    BY DEF NoOpp
  <1>4. truth \in [book: Books, moved: Nat]
    BY DEF Init
  <1>5. QED
    BY <1>1, <1>3, <1>4 DEF Init, Typed, TypeOK, Past, Null

LEMMA TypedNext == Typed /\ [Next]_vars => Typed'
  <1> SUFFICES ASSUME Typed, [Next]_vars PROVE Typed'
    OBVIOUS
  <1> USE DEF Typed, Past
  <1>1. CASE MoveBook
    BY <1>1 DEF MoveBook, TypeOK, carried
  <1>2. CASE Trade
    BY <1>2 DEF Trade, TypeOK, exchange, carried
  <1>3. CASE ReadPrint
    <2>1. PICK p \in tape : ReadPrint!(p)
      BY <1>3 DEF ReadPrint
    <2>2. p \in Prints /\ tape' \in SUBSET Prints
      BY <2>1 DEF TypeOK
    <2> DEFINE new == [price |-> p.price, ts |-> now]
    <2>3. new \in [price: 0..TopPrice, ts: Nat] /\ new.ts <= now
      <3>1. p.price \in 0..TopPrice
        BY <2>2 DEF Prints, Prices
      <3>2. now \in Nat
        BY DEF TypeOK
      <3>3. QED
        BY <3>1, <3>2
    <2>4. now' = now /\ moved' = moved /\ book' = book /\ opp' = opp /\ truth' = truth
      BY <2>1 DEF exchange
    <2>5. CASE ~Counts(p) /\ UNCHANGED <<carried, latest>>
      BY <2>2, <2>4, <2>5 DEF TypeOK, carried
    <2>6. CASE ask' = new /\ bid' = bid /\ Emit(bid, ask')
      <3>1. latest' \in SUBSET Rows /\ \A q \in latest' : q.timestamp <= now
        BY <2>3, <2>6, EmitType DEF TypeOK
      <3>2. QED
        BY <2>2, <2>3, <2>4, <2>6, <3>1 DEF TypeOK, Rows
    <2>7. CASE bid' = new /\ ask' = ask /\ Emit(bid', ask)
      <3>1. latest' \in SUBSET Rows /\ \A q \in latest' : q.timestamp <= now
        BY <2>3, <2>7, EmitType DEF TypeOK
      <3>2. QED
        BY <2>2, <2>3, <2>4, <2>7, <3>1 DEF TypeOK, Rows
    <2>8. QED
      BY <2>1, <2>5, <2>6, <2>7
  <1>4. CASE Tick
    BY <1>4 DEF Tick, TypeOK, carried
  <1>5. CASE DexChange
    <2>1. now' \in 1..LastMs+1 /\ now' = now + 1
      BY <1>5 DEF DexChange, TypeOK
    <2>2. opp' \in [ts_ms: Nat, bid: 0..TopPrice, ask: 0..TopPrice, bybit_lag_ms: Nat,
                    bybit_quote_age_ms: Nat, stale: BOOLEAN]
      <3>1. CASE latest = {} /\ UNCHANGED opp
        BY <3>1 DEF TypeOK
      <3>2. ASSUME NEW q \in latest, opp' = Matched(q) PROVE opp' \in [ts_ms: Nat,
                    bid: 0..TopPrice, ask: 0..TopPrice, bybit_lag_ms: Nat,
                    bybit_quote_age_ms: Nat, stale: BOOLEAN]
        BY <3>2 DEF Matched, Lag, TypeOK
      <3>3. QED
        BY <1>5, <3>1, <3>2 DEF DexChange, Join
    <2>3. truth' \in [book: Books, moved: Nat]
      BY <1>5 DEF DexChange, TypeOK
    <2>4. QED
      BY <1>5, <2>1, <2>2, <2>3 DEF DexChange, TypeOK, carried
  <1>6. CASE UNCHANGED vars
    BY <1>6 DEF vars, TypeOK, exchange, carried
  <1>7. QED
    BY <1>1, <1>2, <1>3, <1>4, <1>5, <1>6 DEF Next

\* The columns and rows of M3 and M4 keep their types, whatever the tape holds.
THEOREM Typing == Spec => []TypeOK
  <1>1. Typed => TypeOK
    BY DEF Typed
  <1>2. QED
    BY <1>1, TypedInit, TypedNext, PTL DEF Spec

-----------------------------------------------------------------------------
\* While the book stands still, an unread print is outside the spread ...
TapeInv ==
    moved < now => \A p \in tape :
        /\ ~p.rpi /\ p.side = "buy"  => book.ask <= p.price
        /\ ~p.rpi /\ p.side = "sell" => p.price <= book.bid

\* ... and so is each carried side if it was printed after the last move.
SideInv ==
    /\ moved < ask.ts => book.ask <= ask.price
    /\ moved < bid.ts => bid.price <= book.bid

QuoteInv ==
    \A q \in latest :
        moved < q.timestamp - q.quote_age_ms => Contains(q, book) /\ ~q.crossed

MatchInv ==
    truth.moved < opp.ts_ms - opp.bybit_lag_ms - opp.bybit_quote_age_ms =>
        Contains(opp, truth.book)

\* A row is matched only when there are quotes, and quotes do not vanish.
NoMatchYet == latest = {} => opp = NoOpp

IInv == TapeInv /\ SideInv /\ QuoteInv /\ MatchInv /\ NoMatchYet

LEMMA IInvInit == Init => IInv
  BY TypedInit DEF Init, IInv, TapeInv, SideInv, QuoteInv, MatchInv, NoMatchYet, Null, NoOpp, Typed, TypeOK

\* The row emitted for two sides that bound a book which stands still.
LEMMA RowBounds ==
    ASSUME Typed,
           NEW a \in [price: 0..TopPrice, ts: Nat], NEW b \in [price: 0..TopPrice, ts: Nat],
           a.ts <= now, b.ts <= now,
           moved < a.ts => book.ask <= a.price,
           moved < b.ts => b.price <= book.bid,
           NEW q, q = Row(b, a)
    PROVE  moved < q.timestamp - q.quote_age_ms => Contains(q, book) /\ ~q.crossed
  <1>1. /\ q.timestamp = now /\ q.bid = b.price /\ q.ask = a.price
        /\ q.quote_age_ms = QuoteAge(a, b) /\ q.crossed = (b.price > a.price)
    BY DEF Row, Crossed
  <1>2. SUFFICES ASSUME moved < now - QuoteAge(a, b)
                 PROVE  Contains(q, book) /\ ~q.crossed
    BY <1>1
  <1>3. moved < a.ts /\ moved < b.ts
    BY <1>2 DEF QuoteAge, Typed, TypeOK
  <1>4. book.ask <= a.price /\ b.price <= book.bid
    BY <1>3
  <1>5. book.bid < book.ask /\ book.bid \in Nat /\ book.ask \in Nat
    BY DEF Typed, TypeOK, Books, Prices
  <1>6. ~(b.price > a.price)
    BY <1>4, <1>5
  <1>7. ~q.crossed
    BY <1>1, <1>6, Zenon
  <1>8. Contains(q, book)
    BY <1>1, <1>4 DEF Contains
  <1>9. QED
    BY <1>7, <1>8

\* Every row of the table after a step of the fold bounds the book as the rows
\* before it did, and there is a match only if there are rows.
LEMMA EmitBounds ==
    ASSUME Typed, QuoteInv, NoMatchYet,
           NEW a \in [price: 0..TopPrice, ts: Nat], NEW b \in [price: 0..TopPrice, ts: Nat],
           a.ts <= now, b.ts <= now,
           moved < a.ts => book.ask <= a.price,
           moved < b.ts => b.price <= book.bid,
           Emit(b, a), moved' = moved, book' = book, opp' = opp
    PROVE  QuoteInv' /\ NoMatchYet'
  <1>1. CASE b = Null \/ a = Null
    BY <1>1 DEF Emit, QuoteInv, NoMatchYet, Contains
  <1>2. CASE ~(b = Null \/ a = Null)
    <2> DEFINE row == Row(b, a)
    <2>1. latest' = RowsNow \cup {row}
      BY <1>2 DEF Emit
    <2>2. moved < row.timestamp - row.quote_age_ms => Contains(row, book) /\ ~row.crossed
      BY RowBounds
    <2>3. \A q \in RowsNow : q \in latest
      BY DEF RowsNow
    <2> HIDE DEF row
    <2>4. QuoteInv'
      BY <2>1, <2>2, <2>3 DEF QuoteInv, Contains
    <2>5. QED
      BY <2>1, <2>4 DEF NoMatchYet
  <1>3. QED
    BY <1>1, <1>2

LEMMA IInvNext == Typed /\ IInv /\ [Next]_vars => IInv'
  <1> SUFFICES ASSUME Typed, IInv, [Next]_vars PROVE IInv'
    OBVIOUS
  <1>1. CASE MoveBook
    <2>1. moved' = now /\ now' = now /\ latest' = latest /\ ask' = ask /\ bid' = bid
          /\ opp' = opp /\ truth' = truth /\ tape' = tape
      BY <1>1 DEF MoveBook, carried
    <2>2. \A q \in latest : q.timestamp - q.quote_age_ms <= now
      BY DEF Typed, TypeOK, Past
    <2>3. TapeInv' /\ SideInv'
      BY <2>1 DEF TapeInv, SideInv, Typed, TypeOK, Past
    <2>4. QuoteInv'
      <3>1. \A q \in latest' : ~(moved' < q.timestamp - q.quote_age_ms)
        BY <2>1, <2>2 DEF Typed, TypeOK
      <3>2. QED
        BY <3>1 DEF QuoteInv
    <2>5. MatchInv'
      BY <2>1 DEF IInv, MatchInv, Contains
    <2>6. QED
      BY <2>1, <2>3, <2>4, <2>5 DEF IInv, NoMatchYet
  <1>2. CASE Trade
    <2>1. PICK p \in Prints : Printed(p) /\ tape' = tape \cup {p}
      BY <1>2 DEF Trade
    <2>2. TapeInv'
      BY <1>2, <2>1 DEF Trade, exchange, IInv, TapeInv, Printed, Prints, Prices, Typed,
         TypeOK, Books
    <2>3. SideInv' /\ QuoteInv' /\ MatchInv'
      BY <1>2 DEF Trade, exchange, carried, IInv, SideInv, QuoteInv, MatchInv, Contains
    <2>4. QED
      BY <1>2, <2>2, <2>3 DEF Trade, IInv, NoMatchYet
  <1>3. CASE ReadPrint
    <2>1. PICK p \in tape : ReadPrint!(p)
      BY <1>3 DEF ReadPrint
    <2>2. p \in Prints
      BY DEF Typed, TypeOK
    <2>3. now' = now /\ moved' = moved /\ book' = book /\ opp' = opp /\ truth' = truth
      BY <2>1 DEF exchange
    <2>4. TapeInv' /\ MatchInv'
      BY <2>1, <2>3 DEF IInv, TapeInv, MatchInv, Contains
    <2> DEFINE new == [price |-> p.price, ts |-> now]
    <2>5. new \in [price: 0..TopPrice, ts: Nat] /\ new.ts <= now
      <3>1. p.price \in 0..TopPrice
        BY <2>2 DEF Prints, Prices
      <3>2. now \in Nat
        BY DEF Typed, TypeOK
      <3>3. QED
        BY <3>1, <3>2
    <2>6. CASE ~Counts(p) /\ UNCHANGED <<carried, latest>>
      BY <2>3, <2>4, <2>6 DEF carried, IInv, SideInv, QuoteInv, NoMatchYet, Contains
    <2>7. CASE /\ Counts(p) /\ p.side = "buy"
               /\ ask' = new /\ bid' = bid /\ Emit(bid, ask')
      <3>1. moved < new.ts => book.ask <= new.price
        BY <2>7 DEF Counts, IInv, TapeInv
      <3>2. SideInv'
        BY <2>3, <2>7, <3>1 DEF IInv, SideInv
      <3>3. QuoteInv' /\ NoMatchYet'
        BY <2>3, <2>5, <2>7, <3>1, EmitBounds DEF Typed, TypeOK, Past, IInv, SideInv
      <3>4. QED
        BY <2>4, <3>2, <3>3 DEF IInv
    <2>8. CASE /\ Counts(p) /\ p.side = "sell"
               /\ bid' = new /\ ask' = ask /\ Emit(bid', ask)
      <3>1. moved < new.ts => new.price <= book.bid
        BY <2>8 DEF Counts, IInv, TapeInv
      <3>2. SideInv'
        BY <2>3, <2>8, <3>1 DEF IInv, SideInv
      <3>3. QuoteInv' /\ NoMatchYet'
        BY <2>3, <2>5, <2>8, <3>1, EmitBounds DEF Typed, TypeOK, Past, IInv, SideInv
      <3>4. QED
        BY <2>4, <3>2, <3>3 DEF IInv
    <2>9. QED
      BY <2>1, <2>6, <2>7, <2>8
  <1>4. CASE Tick
    <2>1. TapeInv'
      BY <1>4 DEF Tick, TapeInv
    <2>2. SideInv' /\ QuoteInv' /\ MatchInv'
      BY <1>4 DEF Tick, carried, IInv, SideInv, QuoteInv, MatchInv, Contains
    <2>3. QED
      BY <1>4, <2>1, <2>2 DEF Tick, IInv, NoMatchYet
  <1>5. CASE DexChange
    <2>1. TapeInv'
      BY <1>5 DEF DexChange, TapeInv
    <2>2. SideInv' /\ QuoteInv'
      BY <1>5 DEF DexChange, carried, IInv, SideInv, QuoteInv, Contains
    <2>3. MatchInv'
      <3>1. truth'.moved = moved /\ truth'.book = book
        BY <1>5 DEF DexChange
      <3>2. CASE latest = {} /\ UNCHANGED opp
        <4>1. opp' = opp /\ opp = NoOpp
          BY <3>2 DEF IInv, NoMatchYet
        <4>2. QED
          BY <3>1, <4>1 DEF NoOpp, MatchInv, Typed, TypeOK
      <3>3. ASSUME NEW q \in latest, opp' = Matched(q) PROVE MatchInv'
        <4>1. /\ opp'.ts_ms = now /\ opp'.bid = q.bid /\ opp'.ask = q.ask
              /\ opp'.bybit_lag_ms = now - q.timestamp
              /\ opp'.bybit_quote_age_ms = q.quote_age_ms
          BY <3>3 DEF Matched, Lag
        <4>2. now - (now - q.timestamp) - q.quote_age_ms = q.timestamp - q.quote_age_ms
          BY DEF Typed, TypeOK
        <4>3. QED
          BY <3>1, <4>1, <4>2 DEF IInv, QuoteInv, MatchInv, Contains
      <3>4. QED
        BY <1>5, <3>2, <3>3 DEF DexChange, Join
    <2>4. NoMatchYet'
      BY <1>5 DEF DexChange, Join, IInv, NoMatchYet
    <2>5. QED
      BY <2>1, <2>2, <2>3, <2>4 DEF IInv
  <1>6. CASE UNCHANGED vars
    BY <1>6 DEF vars, exchange, carried, IInv, TapeInv, SideInv, QuoteInv, MatchInv, NoMatchYet,
       Contains
  <1>7. QED
    BY <1>1, <1>2, <1>3, <1>4, <1>5, <1>6 DEF Next

-----------------------------------------------------------------------------
\* A row's envelope bounds the true book as long as the book has not moved since
\* the older of its two prints.
THEOREM EnvelopeBoundsBook == Spec => []EnvelopeHolds
  <1>1. QuoteInv => EnvelopeHolds
    BY DEF QuoteInv, EnvelopeHolds
  <1>2. IInv => EnvelopeHolds
    BY <1>1 DEF IInv
  <1>3. QED
    BY <1>2, TypedInit, TypedNext, IInvInit, IInvNext, PTL DEF Spec

\* A crossed envelope says that the book moved after the older of its two prints.
THEOREM CrossedMeansMoved == Spec => []CrossedIsStale
  <1>1. Typed /\ IInv => CrossedIsStale
    BY DEF IInv, QuoteInv, CrossedIsStale, Typed, TypeOK
  <1>2. QED
    BY <1>1, TypedInit, TypedNext, IInvInit, IInvNext, PTL DEF Spec

\* A matched row bounds the book at its block if the book stood still for lag and
\* age together.
THEOREM MatchBoundsBook == Spec => []MatchHolds
  <1>1. IInv => MatchHolds
    BY DEF IInv, MatchInv, MatchHolds
  <1>2. QED
    BY <1>1, TypedInit, TypedNext, IInvInit, IInvNext, PTL DEF Spec

=============================================================================
