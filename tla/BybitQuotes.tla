----------------------------- MODULE BybitQuotes -----------------------------
(***************************************************************************)
(* M3 build_quotes and M4's join of its rows: what the tape of public      *)
(* prints tells of a book nobody recorded.                                 *)
(*                                                                         *)
(* The code folds a sorted table; here the fold advances with the clock    *)
(* of the exchange, print by print, so that its columns can be compared    *)
(* with the book that was really there.  M3 sorts the tape and M4 sorts    *)
(* the rows made of it by timestamp alone: prints of one millisecond are   *)
(* read in any order, and any row of the last millisecond may be the one   *)
(* that M4's join finds last.                                              *)
(***************************************************************************)
EXTENDS Integers, FiniteSets

CONSTANTS
    TopPrice,   \* bound: prices are 1..TopPrice, in ticks
    MaxLag,     \* config.MAX_BYBIT_LAG_MS
    LastMs,     \* bound: the tape covers 1..LastMs
    MaxPrints   \* bound: prints of one millisecond, waiting or made into a row

ASSUME QuotesAssumption ==
    TopPrice \in Nat /\ MaxLag \in Nat /\ LastMs \in Nat \ {0} /\ MaxPrints \in Nat

VARIABLES
    now,    \* the millisecond the fold has reached
    book,   \* best bid and ask of the exchange; nothing in the code sees it
    moved,  \* when the book last moved, likewise
    tape,   \* prints of this millisecond not read yet
    ask,    \* the forward-filled columns ask and ask_ts
    bid,    \* the forward-filled columns bid and bid_ts
    latest, \* rows of bybit_quotes.parquet of the last millisecond that has any
    opp,    \* the last row of opportunities.parquet, its Bybit columns
    truth   \* book and moved at that row's time; history

exchange == <<now, book, moved>>
carried  == <<ask, bid>>
vars     == <<exchange, tape, carried, latest, opp, truth>>

Prices == 1..TopPrice
Books  == {b \in [bid: Prices, ask: Prices] : b.bid < b.ask}
Prints == [side: {"buy", "sell"}, price: Prices, rpi: BOOLEAN]

Null     == [price |-> 0, ts |-> 0]
NoOpp    == [ts_ms |-> 0, bid |-> 0, ask |-> 0, bybit_lag_ms |-> 0,
             bybit_quote_age_ms |-> 0, stale |-> FALSE]

-----------------------------------------------------------------------------
(* Slips the code could contain and does not. *)

EveryPrint(p) == TRUE
FresherAge(a, b) == IF now - a.ts < now - b.ts THEN now - a.ts ELSE now - b.ts
BackwardAge(a, b) == IF a.ts > b.ts THEN b.ts - now ELSE a.ts - now
AgeForLag(q) == q.quote_age_ms

-----------------------------------------------------------------------------
\* Retail price improvement prints are not on the book.
Counts(p) == ~p.rpi

QuoteAge(a, b) == IF now - a.ts > now - b.ts THEN now - a.ts ELSE now - b.ts

Crossed(b, a) == b.price > a.price

\* The mid and the spread follow from bid and ask.
Row(b, a) ==
    [timestamp    |-> now,
     bid          |-> b.price,
     ask          |-> a.price,
     quote_age_ms |-> QuoteAge(a, b),
     crossed      |-> Crossed(b, a)]

RowsNow == {q \in latest : q.timestamp = now}

\* A row once both sides have been seen.
Emit(b, a) ==
    latest' = IF b = Null \/ a = Null THEN latest ELSE RowsNow \cup {Row(b, a)}

Lag(q) == now - q.timestamp

Matched(q) ==
    [ts_ms              |-> now,
     bid                |-> q.bid,
     ask                |-> q.ask,
     bybit_lag_ms       |-> Lag(q),
     bybit_quote_age_ms |-> q.quote_age_ms,
     stale              |-> Lag(q) > MaxLag]

\* M4: a last quote at or before a block; a block before the first is dropped.
Join ==
    \/ latest = {} /\ UNCHANGED opp
    \/ \E q \in latest : opp' = Matched(q)

-----------------------------------------------------------------------------
Init ==
    /\ now = 1 /\ moved = 0
    /\ book \in Books
    /\ tape = {}
    /\ ask = Null /\ bid = Null
    /\ latest = {}
    /\ opp = NoOpp /\ truth = [book |-> book, moved |-> moved]

MoveBook ==
    /\ now <= LastMs
    /\ book' \in Books \ {book}
    /\ moved' = now
    /\ UNCHANGED <<now, tape, carried, latest, opp, truth>>

\* "a `buy` print executed at or above the ask and a `sell` print at or below the
\* bid"; retail price improvement fills inside the spread.
Printed(p) ==
    \/ p.rpi  /\ book.bid < p.price /\ p.price < book.ask
    \/ ~p.rpi /\ p.side = "buy"  /\ p.price >= book.ask
    \/ ~p.rpi /\ p.side = "sell" /\ p.price <= book.bid

Trade ==
    /\ now <= LastMs
    /\ Cardinality(tape) + Cardinality(RowsNow) < MaxPrints
    /\ \E p \in Prints \ tape : Printed(p) /\ tape' = tape \cup {p}
    /\ UNCHANGED <<exchange, carried, latest, opp, truth>>

\* build_quotes: filter, carry forward, emit a row.
ReadPrint ==
    \E p \in tape :
        /\ tape' = tape \ {p}
        /\ \/ /\ ~Counts(p)
              /\ UNCHANGED <<carried, latest>>
           \/ /\ Counts(p) /\ p.side = "buy"
              /\ ask' = [price |-> p.price, ts |-> now]
              /\ UNCHANGED bid
              /\ Emit(bid, ask')
           \/ /\ Counts(p) /\ p.side = "sell"
              /\ bid' = [price |-> p.price, ts |-> now]
              /\ UNCHANGED ask
              /\ Emit(bid', ask)
        /\ UNCHANGED <<exchange, opp, truth>>

\* The next millisecond, once every print of this one has been read.
Tick ==
    /\ tape = {}
    /\ now <= LastMs
    /\ now' = now + 1
    /\ UNCHANGED <<book, moved, tape, carried, latest, opp, truth>>

\* ... and the same with a pool's state change at the end of this one, which M4
\* joins with all prints up to and including its own millisecond.
DexChange ==
    /\ tape = {}
    /\ now <= LastMs
    /\ now' = now + 1
    /\ Join
    /\ truth' = [book |-> book, moved |-> moved]
    /\ UNCHANGED <<book, moved, tape, carried, latest>>

Next == MoveBook \/ Trade \/ ReadPrint \/ Tick \/ DexChange

Spec == Init /\ [][Next]_vars

-----------------------------------------------------------------------------
(* Properties. *)

\* Types of the exchange, the carried columns and the rows.
TypeOK ==
    /\ now \in 1..LastMs+1 /\ moved \in Nat
    /\ book \in Books
    /\ tape \in SUBSET Prints
    /\ ask \in [price: 0..TopPrice, ts: Nat] /\ bid \in [price: 0..TopPrice, ts: Nat]
    /\ latest \in SUBSET [timestamp: Nat, bid: 0..TopPrice, ask: 0..TopPrice,
                          quote_age_ms: Nat, crossed: BOOLEAN]
    /\ opp \in [ts_ms: Nat, bid: 0..TopPrice, ask: 0..TopPrice, bybit_lag_ms: Nat,
                bybit_quote_age_ms: Nat, stale: BOOLEAN]
    /\ truth \in [book: Books, moved: Nat]

Contains(q, b) == q.bid <= b.bid /\ b.ask <= q.ask

\* A row's envelope contains the true book as long as the book has not moved
\* since the older of the two prints it was carried from, which is what the row's
\* quote_age_ms tells the reader.
EnvelopeHolds ==
    \A q \in latest : moved < q.timestamp - q.quote_age_ms => Contains(q, book)

\* "A crossed envelope is not a real crossed book -- it means one side's last
\* print is stale": the book has moved since that print.
CrossedIsStale ==
    \A q \in latest : q.crossed => moved >= q.timestamp - q.quote_age_ms

\* The same of a row M4 matched, later on and whichever row of the last millisecond
\* its sort put last: lag and age together say how far back the book must have
\* stood still for the prices to be a bound of the book.
MatchHolds ==
    opp # NoOpp /\ truth.moved < opp.ts_ms - opp.bybit_lag_ms - opp.bybit_quote_age_ms
        => Contains(opp, truth.book)

\* The claim of M3's docstring, without the condition.
NeverTighter == \A q \in latest : Contains(q, book)

\* The claim beside MAX_BYBIT_LAG_MS: a matched row that is not flagged stale rests
\* on no print from before the limit.
UnflaggedIsFresh ==
    opp # NoOpp /\ ~opp.stale => opp.bybit_lag_ms + opp.bybit_quote_age_ms <= MaxLag

=============================================================================
