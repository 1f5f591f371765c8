----------------------------- MODULE QuotePasses -----------------------------
(***************************************************************************)
(* M2, src/mba/m2_quotes.py: the two resumable passes over the state-      *)
(* change blocks of each pool.  pass1_state and pass2_quotes have the same *)
(* shape (load the part file, skip what it holds, one HTTP batch at a      *)
(* time, flush now and then, write once more at the end), so they are the  *)
(* same actions here, told apart by "pass".                                *)
(*                                                                         *)
(* A row stands for all rows of its block: pass 1 appends one, pass 2 all  *)
(* sizes and directions at once.                                           *)
(***************************************************************************)
EXTENDS Integers, FiniteSets

CONSTANTS
    PoolCount,      \* how many pools POOLS has; they are worked on in order
    Changes,        \* the state_changes.parquet files M1 may have left: pool -> blocks
    Starts,         \* the window starts M2's own safe_head may give
    Undecodable,    \* Undecodable[p]: blocks at which the pool's state calls always fail
    Limits,         \* the values of --limit in use; 0 is none
    Batch,          \* config.RPC_HTTP_BATCH
    FlushEvery,     \* FLUSH_EVERY
    TornWrites,     \* whether a kill may leave a half-written file
    MaxKills,       \* bound: how often a run is killed
    MaxNulls        \* bound: in how many batches a node does not know the headers

Pools  == 1..PoolCount
Passes == {"state", "quotes"}

Blocks == Starts \cup UNION {UNION {c[p] : p \in Pools} : c \in Changes}

ASSUME PassAssumption ==
    /\ PoolCount \in Nat \ {0}
    /\ Starts \subseteq Nat /\ Starts # {}
    /\ Changes \subseteq [Pools -> SUBSET Nat]
    /\ \A c \in Changes, p \in Pools : IsFiniteSet(c[p]) /\ c[p] # {}
    /\ Undecodable \in [Pools -> SUBSET Nat]
    /\ Limits \subseteq Nat
    /\ Batch \in Nat \ {0} /\ FlushEvery \in Nat \ {0}
    /\ TornWrites \in BOOLEAN
    /\ MaxKills \in Nat /\ MaxNulls \in Nat

VARIABLES
    pc,         \* "idle", "load", "fetch", "flush", "put_state" or "put_quotes"
    plan,       \* plan[p]: the blocks this run wants of pool p
    pool,       \* the pool being worked on
    pass,       \* the pass being worked on
    rows,       \* the row list of the pass
    todo,       \* what is left to fetch
    batch_i,    \* number of the batch, modulo FlushEvery
    st,         \* the state rows of each pool, returned by pass 1
    qt,         \* the quote rows of each pool, returned by pass 2
    part,       \* part[pass][p]: the part files m2_{pass}_{p}.parquet
    dex_state,  \* dex_state.parquet
    dex_quotes, \* dex_quotes.parquet
    \* History variables.
    answered,   \* this pass of this run has got a batch through
    missed,     \* missed[p]: the blocks whose header this run was given as null
    nulls,      \* the batches with such headers
    kills

memory == <<plan, pool, pass, rows, todo, batch_i, st, qt>>
gaps   == <<missed, nulls>>
vars   == <<pc, memory, part, dex_state, dex_quotes, answered, gaps, kills>>

File(s)  == [torn |-> FALSE, rows |-> s]
NoFile   == File({})
TornFile == [torn |-> TRUE, rows |-> {}]
NoRowsOf == [p \in Pools |-> {}]

\* todo[:k] of the sorted list: what fewer than k blocks precede.
Smallest(S, k) == {x \in S : Cardinality({y \in S : y < x}) < k}

-----------------------------------------------------------------------------
(* Slips the code could contain and does not; see ScanEvents. *)

AnchoredBefore(S, start) == IF \A b \in S : b > start THEN S \cup {start - 1} ELSE S
FlushAtTheEnd(i) == (i + 1) % FlushEvery = 0
NoFlush(i) == FALSE
LastRowsOnly(new) == new
PartKeptAtEnd == part[pass][pool]

-----------------------------------------------------------------------------
(* The pure parts. *)

\* run(): the window start anchors the step function of a pool whose first
\* change comes later.
Anchored(S, start) == IF \A b \in S : b > start THEN S \cup {start} ELSE S

Limited(S, limit) == IF limit = 0 THEN S ELSE Smallest(S, limit)

\* _load_part: a missing or unreadable part is an empty one.
Loaded(f) == f.rows

Todo(wanted) == wanted \ rows'

\* What a batch of blocks adds: pass 1 skips the blocks it cannot decode or has no
\* header of, and does not ask for them again.
Rows(S, null) == IF pass = "state" THEN S \ (Undecodable[pool] \cup null) ELSE S

\* A node that lags behind may answer null for headers another one has.
NullHeaders(S) == IF pass = "state" /\ nulls < MaxNulls THEN SUBSET S ELSE {{}}

Added(new) == rows \cup new

FlushDue(i) == i % FlushEvery = 0

PartAtEnd == File(rows)

-----------------------------------------------------------------------------
Init ==
    /\ pc = "idle"
    /\ plan = NoRowsOf /\ pool = 1 /\ pass = "state"
    /\ rows = {} /\ todo = {} /\ batch_i = 0
    /\ st = NoRowsOf /\ qt = NoRowsOf
    /\ part = [w \in Passes |-> [p \in Pools |-> NoFile]]
    /\ dex_state = [torn |-> FALSE, rows |-> NoRowsOf]
    /\ dex_quotes = [torn |-> FALSE, rows |-> NoRowsOf]
    /\ answered = FALSE /\ missed = NoRowsOf /\ nulls = 0 /\ kills = 0

\* The process ends; its memory is gone.
Leave ==
    /\ pc' = "idle"
    /\ plan' = NoRowsOf /\ pool' = 1 /\ pass' = "state"
    /\ rows' = {} /\ todo' = {} /\ batch_i' = 0
    /\ st' = NoRowsOf /\ qt' = NoRowsOf
    /\ answered' = FALSE
    /\ missed' = NoRowsOf /\ UNCHANGED nulls

\* run(): read M1's list, find the window start, plan the blocks of every pool.
Start ==
    /\ pc = "idle"
    /\ \E c \in Changes, start \in Starts, limit \in Limits :
          plan' = [p \in Pools |-> Limited(Anchored(c[p], start), limit)]
    /\ pc' = "load"
    /\ UNCHANGED <<pool, pass, rows, todo, batch_i, st, qt, part, dex_state, dex_quotes,
                   answered, gaps, kills>>

\* The head of a pass: what the part file holds is not fetched again.
LoadPart ==
    /\ pc = "load"
    /\ rows' = Loaded(part[pass][pool])
    /\ todo' = Todo(IF pass = "state" THEN plan[pool] ELSE st[pool])
    /\ batch_i' = 0
    /\ answered' = FALSE
    /\ pc' = "fetch"
    /\ UNCHANGED <<plan, pool, pass, st, qt, part, dex_state, dex_quotes, gaps, kills>>

\* One HTTP batch over the next blocks in order; the batch numbered 0, FlushEvery,
\* 2 * FlushEvery ... of a pass is followed by a flush.
FetchBatch ==
    /\ pc = "fetch"
    /\ todo # {}
    /\ LET next == Smallest(todo, Batch)
       IN  \E null \in NullHeaders(next) :
              /\ rows' = Added(Rows(next, null)) /\ todo' = todo \ next
              /\ missed' = [missed EXCEPT ![pool] = @ \cup null]
              /\ nulls' = IF null = {} THEN nulls ELSE nulls + 1
    /\ batch_i' = (batch_i + 1) % FlushEvery
    /\ answered' = TRUE
    /\ pc' = IF FlushDue(batch_i) THEN "flush" ELSE "fetch"
    /\ UNCHANGED <<plan, pool, pass, st, qt, part, dex_state, dex_quotes, kills>>

Flush ==
    /\ pc = "flush"
    /\ part' = [part EXCEPT ![pass][pool] = File(rows)]
    /\ pc' = "fetch"
    /\ UNCHANGED <<memory, dex_state, dex_quotes, answered, gaps, kills>>

\* The end of a pass writes the part once more and goes on to the next pass or
\* the next pool, or to the output.
EndPass ==
    /\ pc = "fetch"
    /\ todo = {}
    /\ part' = [part EXCEPT ![pass][pool] = PartAtEnd]
    /\ rows' = {} /\ batch_i' = 0
    /\ IF pass = "state"
       THEN /\ st' = [st EXCEPT ![pool] = rows]
            /\ pass' = "quotes" /\ pc' = "load"
            /\ UNCHANGED <<pool, qt>>
       ELSE /\ qt' = [qt EXCEPT ![pool] = rows]
            /\ UNCHANGED st
            /\ \/ /\ pool + 1 \in Pools
                  /\ pool' = pool + 1 /\ pass' = "state" /\ pc' = "load"
               \/ /\ pool + 1 \notin Pools
                  /\ pc' = "put_state"
                  /\ UNCHANGED <<pool, pass>>
    /\ UNCHANGED <<plan, todo, dex_state, dex_quotes, answered, gaps, kills>>

PutState ==
    /\ pc = "put_state"
    /\ dex_state' = [torn |-> FALSE, rows |-> st]
    /\ pc' = "put_quotes"
    /\ UNCHANGED <<memory, part, dex_quotes, answered, gaps, kills>>

\* The quotes, and a checkpoint that nothing reads; then the run is over.
PutQuotes ==
    /\ pc = "put_quotes"
    /\ dex_quotes' = [torn |-> FALSE, rows |-> qt]
    /\ Leave
    /\ UNCHANGED <<part, dex_state, kills>>

\* A batch fails through all its retries and RpcError ends the run.
RpcGivesUp ==
    /\ pc = "fetch" /\ todo # {}
    /\ Leave
    /\ UNCHANGED <<part, dex_state, dex_quotes, kills>>

\* The process is killed, perhaps in the middle of writing a file.
Kill ==
    /\ pc # "idle"
    /\ kills < MaxKills
    /\ kills' = kills + 1
    /\ Leave
    /\ \/ UNCHANGED <<part, dex_state, dex_quotes>>
       \/ /\ TornWrites
          /\ pc = "flush" \/ (pc = "fetch" /\ todo = {})
          /\ part' = [part EXCEPT ![pass][pool] = TornFile]
          /\ UNCHANGED <<dex_state, dex_quotes>>
       \/ /\ TornWrites /\ pc = "put_state"
          /\ dex_state' = [torn |-> TRUE, rows |-> NoRowsOf]
          /\ UNCHANGED <<part, dex_quotes>>
       \/ /\ TornWrites /\ pc = "put_quotes"
          /\ dex_quotes' = [torn |-> TRUE, rows |-> NoRowsOf]
          /\ UNCHANGED <<part, dex_state>>

RunStep == LoadPart \/ FetchBatch \/ Flush \/ EndPass \/ PutState \/ PutQuotes

Next == Start \/ RunStep \/ RpcGivesUp \/ Kill

Spec == Init /\ [][Next]_vars

FirstBatch(w, p) == FetchBatch /\ pass = w /\ pool = p /\ ~answered

\* A run goes on, or its request fails; the operator starts it again.  The
\* endpoint is as bad as it likes to every batch but the first of a pass, and
\* that one is answered in some of the runs.
FairSpec ==
    /\ Spec
    /\ WF_vars(RunStep \/ RpcGivesUp)
    /\ WF_vars(Start)
    /\ \A w \in Passes, p \in Pools : SF_vars(FirstBatch(w, p))

=============================================================================
