------------------------- MODULE QuotePasses_proofs -------------------------
(***************************************************************************)
(* What the two passes of M2 promise, for any number of pools, blocks, any *)
(* batch size, flush interval, limit and number of kills.                  *)
(***************************************************************************)
EXTENDS QuoteProperties, FiniteSetTheorems, TLAPS

\* A pass is at work on its pool.
Working == pc \in {"fetch", "flush"}

\* What the pass has to do: all of it is done or still to do.
Wanted == IF pass = "state" THEN plan[pool] \ Gaps(pool) ELSE st[pool]

Accounted == Working => Wanted \subseteq rows \cup todo

\* Pass 2 of a pool begins with all states of the pool that could be read.
Handed ==
    pass = "quotes" /\ pc \in {"load", "fetch", "flush"} =>
        plan[pool] \ Gaps(pool) \subseteq st[pool]

\* The pools that are done.
Finished == IF pc \in {"put_state", "put_quotes"} THEN Pools ELSE {p \in Pools : p < pool}

\* ... have their quotes, and on file just what the process has of them.
Settled ==
    pc # "idle" => \A p \in Finished : /\ plan[p] \ Gaps(p) \subseteq qt[p]
                                       /\ st[p] = part["state"][p].rows
                                       /\ qt[p] = part["quotes"][p].rows

\* So has the pool whose second pass is running, of its states; and a part file
\* holds nothing the pass that writes it has not.
OnFile ==
    /\ pass = "quotes" /\ pc \in {"load", "fetch", "flush"} => st[pool] = part["state"][pool].rows
    /\ Working => part[pass][pool].rows \subseteq rows

Fresh == pc = "idle" => pool = 1 /\ pass = "state"

Progress == Fresh /\ Accounted /\ Handed /\ Settled /\ OnFile

IInv == TypeOK /\ Progress

-----------------------------------------------------------------------------
(* Types. *)

LEMMA StartsTyped ==
  ASSUME NEW c \in Changes, NEW start \in Starts, NEW limit \in Limits, NEW p \in Pools
  PROVE  Limited(Anchored(c[p], start), limit) \in SUBSET Blocks
<1>1. c[p] \subseteq Blocks /\ start \in Blocks
  BY DEF Blocks
<1>2. Anchored(c[p], start) \subseteq Blocks
  BY <1>1 DEF Anchored
<1> QED
  BY <1>2 DEF Limited, Smallest

LEMMA FetchTyped ==
  ASSUME TypeOK, NEW k, NEW null
  PROVE  Added(Rows(Smallest(todo, k), null)) \in SUBSET Blocks
  BY DEF TypeOK, Added, Rows, Smallest

LEMMA LeaveTyped ==
  ASSUME TypeOK, Leave
  PROVE  /\ pc' = "idle" /\ pool' \in Pools /\ pass' \in Passes
         /\ plan' \in [Pools -> SUBSET Blocks]
         /\ rows' \in SUBSET Blocks /\ todo' \in SUBSET Blocks
         /\ batch_i' \in 0..(FlushEvery - 1)
         /\ st' \in [Pools -> SUBSET Blocks] /\ qt' \in [Pools -> SUBSET Blocks]
         /\ answered' \in BOOLEAN
         /\ missed' \in [Pools -> SUBSET Blocks] /\ nulls' \in 0..MaxNulls
<1>1. pool' \in Pools /\ batch_i' \in 0..(FlushEvery - 1)
  BY PassAssumption DEF Leave, Pools
<1>2. /\ plan' \in [Pools -> SUBSET Blocks]
      /\ st' \in [Pools -> SUBSET Blocks] /\ qt' \in [Pools -> SUBSET Blocks]
  BY DEF Leave, NoRowsOf
<1> QED
  BY <1>1, <1>2 DEF Leave, Passes, NoRowsOf, TypeOK

\* A run that is over has promised nothing yet.
LEMMA LeaveProgress == Leave => Progress'
  BY DEF Leave, Progress, Fresh, Accounted, Working, Handed, Settled, OnFile

LEMMA InitInv == Init => IInv
<1> SUFFICES ASSUME Init PROVE IInv
  OBVIOUS
<1>1. /\ pool \in Pools /\ batch_i \in 0..(FlushEvery - 1) /\ kills \in 0..MaxKills
      /\ nulls \in 0..MaxNulls
  BY PassAssumption DEF Init, Pools
<1>2. part \in [Passes -> [Pools -> Files(SUBSET Blocks)]]
  BY DEF Init, NoFile, File, Files
<1>3. /\ dex_state \in Files([Pools -> SUBSET Blocks])
      /\ dex_quotes \in Files([Pools -> SUBSET Blocks])
  BY DEF Init, Files, NoRowsOf
<1>4. TypeOK
  BY <1>1, <1>2, <1>3 DEF Init, TypeOK, NoRowsOf, Passes
<1>5. Progress
  BY DEF Init, Progress, Fresh, Accounted, Working, Handed, Settled, OnFile
<1> QED
  BY <1>4, <1>5 DEF IInv

LEMMA StartInv == IInv /\ Start => IInv'
<1> SUFFICES ASSUME IInv, Start PROVE IInv'
  OBVIOUS
<1>1. plan' \in [Pools -> SUBSET Blocks]
  BY StartsTyped DEF Start
<1>2. TypeOK'
  BY <1>1 DEF IInv, TypeOK, Start, gaps
<1>3. pool = 1 /\ pool' = 1 /\ pass' = "state" /\ pc' = "load"
  BY DEF IInv, Progress, Fresh, Start
<1>4. Finished' = {}
  BY <1>3, PassAssumption DEF Finished, Pools
<1>5. Progress'
  BY <1>3, <1>4 DEF Progress, Fresh, Accounted, Working, Handed, Settled, OnFile
<1> QED
  BY <1>2, <1>5 DEF IInv

LEMMA LoadPartInv == IInv /\ LoadPart => IInv'
<1> SUFFICES ASSUME IInv, LoadPart PROVE IInv'
  OBVIOUS
<1>1. rows' = part[pass][pool].rows /\ rows' \in SUBSET Blocks
  BY DEF IInv, TypeOK, LoadPart, Loaded, Files
<1>2. todo' = (IF pass = "state" THEN plan[pool] ELSE st[pool]) \ rows'
  BY DEF LoadPart, Todo
<1>3. todo' \in SUBSET Blocks /\ batch_i' \in 0..(FlushEvery - 1)
  BY <1>2, PassAssumption DEF IInv, TypeOK, LoadPart
<1>4. TypeOK'
  BY <1>1, <1>3 DEF IInv, TypeOK, LoadPart, gaps
<1>5. Accounted'
  BY <1>2 DEF LoadPart, Accounted, Wanted
<1>6. Handed' /\ Fresh'
  BY DEF IInv, Progress, Handed, Fresh, LoadPart, Gaps, gaps
<1>7. Settled'
  BY DEF IInv, Progress, Settled, Finished, LoadPart, Gaps, gaps
<1>8. OnFile'
  BY <1>1 DEF IInv, Progress, OnFile, Working, LoadPart
<1> QED
  BY <1>4, <1>5, <1>6, <1>7, <1>8 DEF IInv, Progress

LEMMA FetchBatchInv == IInv /\ FetchBatch => IInv'
<1> SUFFICES ASSUME IInv, FetchBatch PROVE IInv'
  OBVIOUS
<1> DEFINE next == Smallest(todo, Batch)
<1>1. PICK null \in NullHeaders(next) :
         /\ rows' = rows \cup Rows(next, null) /\ todo' = todo \ next
         /\ missed' = [missed EXCEPT ![pool] = @ \cup null]
         /\ nulls' = IF null = {} THEN nulls ELSE nulls + 1
  BY DEF FetchBatch, Added
<1>2. rows' = rows \cup Rows(next, null) /\ todo' = todo \ next
  BY <1>1
<1>3. rows' \in SUBSET Blocks /\ todo' \in SUBSET Blocks
  BY <1>2, FetchTyped DEF IInv, TypeOK, Added
<1>4. batch_i' \in 0..(FlushEvery - 1)
  BY PassAssumption DEF IInv, TypeOK, FetchBatch
<1>5. missed' \in [Pools -> SUBSET Blocks] /\ nulls' \in 0..MaxNulls
  <2>1. null \in SUBSET Blocks
    BY DEF NullHeaders, Smallest, IInv, TypeOK
  <2>2. null # {} => nulls < MaxNulls
    BY DEF NullHeaders
  <2> QED
    BY <1>1, <2>1, <2>2, PassAssumption DEF IInv, TypeOK
<1>6. null \subseteq missed'[pool] /\ \A p \in Pools : Gaps(p) \subseteq Gaps(p)'
  BY <1>1 DEF IInv, TypeOK, Gaps
<1>7. TypeOK'
  BY <1>3, <1>4, <1>5 DEF IInv, TypeOK, FetchBatch
<1>8. Accounted'
  <2>1. Wanted' \subseteq Wanted /\ Wanted \subseteq rows \cup todo
    BY <1>6 DEF FetchBatch, IInv, TypeOK, Progress, Accounted, Working, Wanted
  <2>2. ASSUME NEW b \in Wanted' PROVE b \in rows' \cup todo'
    <3>1. pass = "state" => b \notin Undecodable[pool] \cup null
      BY <1>6, <2>2 DEF Wanted, FetchBatch, Gaps
    <3> QED
      BY <1>2, <2>1, <2>2, <3>1 DEF Rows
  <2> QED
    BY <2>2 DEF Accounted
<1>9. Handed' /\ Fresh'
  BY <1>6 DEF IInv, TypeOK, Progress, Handed, Fresh, FetchBatch
<1>10. Settled'
  <2>1. \A p \in Finished : p \in Pools
    BY DEF Finished
  <2> QED
    BY <1>6, <2>1 DEF IInv, Progress, Settled, Finished, FetchBatch
<1>11. OnFile'
  BY <1>2 DEF IInv, Progress, OnFile, Working, FetchBatch
<1> QED
  BY <1>7, <1>8, <1>9, <1>10, <1>11 DEF IInv, Progress

\* What writing the part file of the running pass leaves alone.
LEMMA Rewritten ==
  ASSUME TypeOK, NEW f, part' = [part EXCEPT ![pass][pool] = f]
  PROVE  /\ part'[pass][pool] = f
         /\ \A w \in Passes, p \in Pools : w # pass \/ p # pool => part'[w][p] = part[w][p]
         /\ f \in Files(SUBSET Blocks) => part' \in [Passes -> [Pools -> Files(SUBSET Blocks)]]
  BY DEF TypeOK

LEMMA FileTyped == ASSUME TypeOK PROVE File(rows) \in Files(SUBSET Blocks)
  BY DEF TypeOK, File, Files

LEMMA FlushInv == IInv /\ Flush => IInv'
<1> SUFFICES ASSUME IInv, Flush PROVE IInv'
  OBVIOUS
<1>1. part' = [part EXCEPT ![pass][pool] = File(rows)] /\ UNCHANGED memory
  BY DEF Flush
<1>2. /\ part'[pass][pool].rows = rows
      /\ \A w \in Passes, p \in Pools : w # pass \/ p # pool => part'[w][p] = part[w][p]
      /\ part' \in [Passes -> [Pools -> Files(SUBSET Blocks)]]
  <2>1. File(rows) \in Files(SUBSET Blocks) /\ File(rows).rows = rows
    BY FileTyped DEF IInv, File
  <2> QED
    BY <1>1, <2>1, Rewritten DEF IInv
<1>3. TypeOK'
  BY <1>2 DEF IInv, TypeOK, Flush, memory, gaps
<1>4. Accounted' /\ Handed' /\ Fresh'
  BY DEF IInv, Progress, Accounted, Working, Wanted, Handed, Fresh, Flush, memory, Gaps, gaps
<1>5. Settled'
  <2>1. Finished' = Finished /\ \A p \in Finished : p \in Pools /\ p # pool
    BY DEF Finished, Flush, memory, IInv, TypeOK, Pools
  <2>2. \A p \in Finished, w \in Passes : part'[w][p] = part[w][p]
    BY <1>2, <2>1
  <2> QED
    BY <2>1, <2>2 DEF IInv, Progress, Settled, Flush, memory, Passes, Gaps, gaps
<1>6. OnFile'
  BY <1>2 DEF IInv, TypeOK, Progress, OnFile, Working, Flush, memory, Passes
<1> QED
  BY <1>3, <1>4, <1>5, <1>6 DEF IInv, Progress

LEMMA EndPassInv == IInv /\ EndPass => IInv'
<1> SUFFICES ASSUME IInv, EndPass PROVE IInv'
  OBVIOUS
<1>1. part' = [part EXCEPT ![pass][pool] = File(rows)]
  BY DEF EndPass, PartAtEnd
<1>2. /\ part'[pass][pool].rows = rows
      /\ \A w \in Passes, p \in Pools : w # pass \/ p # pool => part'[w][p] = part[w][p]
      /\ part' \in [Passes -> [Pools -> Files(SUBSET Blocks)]]
  <2>1. File(rows) \in Files(SUBSET Blocks) /\ File(rows).rows = rows
    BY FileTyped DEF IInv, File
  <2> QED
    BY <1>1, <2>1, Rewritten DEF IInv
<1>3. /\ pool \in Pools /\ pass \in Passes /\ rows \in SUBSET Blocks
      /\ st \in [Pools -> SUBSET Blocks] /\ qt \in [Pools -> SUBSET Blocks]
      /\ todo = {} /\ pc = "fetch" /\ todo' = {} /\ rows' = {} /\ batch_i' = 0
  BY DEF IInv, TypeOK, EndPass
<1>4. /\ Wanted \subseteq rows
      /\ pc' # "idle" /\ pc' \notin {"fetch", "flush"}
  BY <1>3 DEF IInv, Progress, Accounted, Working, EndPass
<1>5. \A p \in Pools : p < pool =>
         /\ plan[p] \ Gaps(p) \subseteq qt[p]
         /\ st[p] = part'["state"][p].rows
         /\ qt[p] = part'["quotes"][p].rows
  <2> TAKE p \in Pools
  <2>1. p < pool => p # pool /\ p \in Finished
    BY <1>3 DEF Finished, Pools
  <2> QED
    BY <1>2, <1>3, <2>1 DEF IInv, Progress, Settled, Passes
<1>6. batch_i' \in 0..(FlushEvery - 1) /\ todo' \in SUBSET Blocks /\ rows' \in SUBSET Blocks
  BY <1>3, PassAssumption
<1>7. CASE pass = "state"
  <2>0. \A p \in Pools : Gaps(p)' = Gaps(p)
    BY DEF EndPass, Gaps, gaps
  <2>1. /\ st' = [st EXCEPT ![pool] = rows] /\ pass' = "quotes" /\ pc' = "load"
        /\ pool' = pool /\ qt' = qt /\ plan' = plan
    BY <1>7 DEF EndPass
  <2>2. TypeOK'
    BY <1>2, <1>3, <1>6, <2>1 DEF IInv, TypeOK, EndPass, Passes, gaps
  <2>3. Fresh' /\ Accounted'
    BY <2>1 DEF Fresh, Accounted, Working
  <2>4. Handed'
    BY <1>3, <1>4, <1>7, <2>1, <2>0 DEF Handed, Wanted, Gaps
  <2>5. Settled'
    <3>1. Finished' = {p \in Pools : p < pool}
      BY <2>1 DEF Finished
    <3>2. \A p \in Finished' : p \in Pools /\ p < pool /\ p # pool /\ st'[p] = st[p]
      BY <1>3, <2>1, <3>1 DEF Pools
    <3> QED
      BY <1>5, <2>1, <2>0, <3>2 DEF Settled, Gaps
  <2>6. OnFile'
    BY <1>2, <1>3, <1>7, <2>1 DEF OnFile, Working
  <2> QED
    BY <2>2, <2>3, <2>4, <2>5, <2>6 DEF IInv, Progress
<1>8. CASE pass = "quotes"
  <2>0. \A p \in Pools : Gaps(p)' = Gaps(p)
    BY DEF EndPass, Gaps, gaps
  <2>1. qt' = [qt EXCEPT ![pool] = rows] /\ st' = st /\ plan' = plan
    BY <1>8 DEF EndPass
  <2>2. /\ plan[pool] \ Gaps(pool) \subseteq rows
        /\ st[pool] = part'["state"][pool].rows
    BY <1>2, <1>3, <1>4, <1>8 DEF IInv, Progress, Handed, OnFile, Wanted, Passes
  <2>3. \A p \in Pools : p <= pool =>
           /\ plan'[p] \ Gaps(p)' \subseteq qt'[p]
           /\ st'[p] = part'["state"][p].rows
           /\ qt'[p] = part'["quotes"][p].rows
    <3> TAKE p \in Pools
    <3>1. CASE p = pool
      BY <1>2, <1>3, <1>8, <2>1, <2>2, <2>0, <3>1
    <3>2. CASE p < pool
      BY <1>3, <1>5, <2>1, <2>0, <3>2 DEF Pools
    <3> QED
      BY <1>3, <3>1, <3>2 DEF Pools
  <2>4. CASE pool + 1 \in Pools
    <3>1. pool' = pool + 1 /\ pass' = "state" /\ pc' = "load"
      BY <1>8, <2>4 DEF EndPass
    <3>2. TypeOK'
      BY <1>2, <1>3, <1>6, <2>1, <2>4, <3>1 DEF IInv, TypeOK, EndPass, Passes, gaps
    <3>3. \A p \in Finished' : p \in Pools /\ p <= pool
      BY <1>3, <3>1 DEF Finished, Pools
    <3>4. Settled'
      BY <2>3, <3>3 DEF Settled
    <3> QED
      BY <3>1, <3>2, <3>4
         DEF IInv, Progress, Fresh, Accounted, Working, Handed, OnFile
  <2>5. CASE pool + 1 \notin Pools
    <3>1. pool' = pool /\ pass' = pass /\ pc' = "put_state"
      BY <1>8, <2>5 DEF EndPass
    <3>2. TypeOK'
      BY <1>2, <1>3, <1>6, <2>1, <3>1 DEF IInv, TypeOK, EndPass, gaps
    <3>3. \A p \in Pools : p <= pool
      BY <1>3, <2>5, PassAssumption DEF Pools
    <3>4. Settled'
      BY <2>3, <3>3, <3>1 DEF Settled, Finished
    <3> QED
      BY <3>1, <3>2, <3>4
         DEF IInv, Progress, Fresh, Accounted, Working, Handed, OnFile
  <2> QED
    BY <2>4, <2>5
<1> QED
  BY <1>3, <1>7, <1>8 DEF Passes

LEMMA PutStateInv == IInv /\ PutState => IInv'
<1> SUFFICES ASSUME IInv, PutState PROVE IInv'
  OBVIOUS
<1>1. dex_state' \in Files([Pools -> SUBSET Blocks])
  BY DEF IInv, TypeOK, PutState, Files
<1>2. TypeOK'
  BY <1>1 DEF IInv, TypeOK, PutState, memory, gaps
<1>3. Progress'
  BY DEF IInv, Progress, Fresh, Accounted, Working, Handed, Settled, Finished, OnFile,
         PutState, memory, Gaps, gaps
<1> QED
  BY <1>2, <1>3 DEF IInv

LEMMA PutQuotesInv == IInv /\ PutQuotes => IInv'
<1> SUFFICES ASSUME IInv, PutQuotes PROVE IInv'
  OBVIOUS
<1>1. dex_quotes' \in Files([Pools -> SUBSET Blocks])
  BY DEF IInv, TypeOK, PutQuotes, Files
<1>2. TypeOK'
  BY <1>1, LeaveTyped DEF IInv, TypeOK, PutQuotes
<1> QED
  BY <1>2, LeaveProgress DEF IInv, PutQuotes

LEMMA RpcGivesUpInv == IInv /\ RpcGivesUp => IInv'
<1> SUFFICES ASSUME IInv, RpcGivesUp PROVE IInv'
  OBVIOUS
<1>1. TypeOK'
  BY LeaveTyped DEF IInv, TypeOK, RpcGivesUp
<1> QED
  BY <1>1, LeaveProgress DEF IInv, RpcGivesUp

LEMMA KillInv == IInv /\ Kill => IInv'
<1> SUFFICES ASSUME IInv, Kill PROVE IInv'
  OBVIOUS
<1>1. TornFile \in Files(SUBSET Blocks)
  BY DEF TornFile, Files
<1>2. part' \in [Passes -> [Pools -> Files(SUBSET Blocks)]]
  BY <1>1, Rewritten DEF IInv, TypeOK, Kill
<1>3. [torn |-> TRUE, rows |-> NoRowsOf] \in Files([Pools -> SUBSET Blocks])
  BY DEF Files, NoRowsOf
<1>4. /\ dex_state' \in Files([Pools -> SUBSET Blocks])
      /\ dex_quotes' \in Files([Pools -> SUBSET Blocks])
  BY <1>3 DEF IInv, TypeOK, Kill
<1>5. kills' \in 0..MaxKills
  BY PassAssumption DEF IInv, TypeOK, Kill
<1>6. TypeOK'
  BY <1>2, <1>4, <1>5, LeaveTyped DEF IInv, TypeOK, Kill
<1> QED
  BY <1>6, LeaveProgress DEF IInv, Kill

LEMMA StepInv == IInv /\ [Next]_vars => IInv'
<1>1. IInv /\ UNCHANGED vars => IInv'
  BY DEF vars, memory, Gaps, gaps, IInv, TypeOK, Progress, Fresh, Accounted, Working, Wanted, Handed,
         Settled, Finished, OnFile
<1> QED
  BY <1>1, StartInv, LoadPartInv, FetchBatchInv, FlushInv, EndPassInv, PutStateInv,
     PutQuotesInv, RpcGivesUpInv, KillInv DEF Next, RunStep

LEMMA Invariance == Spec => []IInv
  BY InitInv, StepInv, PTL DEF Spec

-----------------------------------------------------------------------------
\* The process's memory and the files keep their types.
THEOREM QuoteTyping == Spec => []TypeOK
  BY Invariance, PTL DEF IInv

\* run(): what is delivered has quotes for every planned block whose state could be
\* read by this run, whatever earlier runs missed, saved, lost or tore, over whichever
\* windows.
THEOREM DeliveriesAreComplete == Spec => []DeliveryComplete
<1>1. IInv => DeliveryComplete
  BY DEF IInv, Progress, Settled, Finished, DeliveryComplete
<1> QED
  BY <1>1, Invariance, PTL

-----------------------------------------------------------------------------
(* What a failing request costs. *)

\* A finite set of numbers has a largest one.
LEMMA LargestExists ==
  ASSUME NEW T \in SUBSET Nat, IsFiniteSet(T), T # {}
  PROVE  \E m \in T : \A y \in T : y <= m
<1> DEFINE HasLargest(U) == \E m \in U : \A y \in U : y <= m
           C == {U \in SUBSET T : U # {} /\ ~HasLargest(U)}
<1>1. SUFFICES ASSUME C # {} PROVE FALSE
  OBVIOUS
<1>2. C \subseteq FiniteSubsetsOf(T)
  BY FS_FiniteSubsetsOfFinite
<1>3. PICK U \in C : \A V \in C : ~ (<<V, U>> \in StrictSubsetOrdering(T))
  BY <1>1, <1>2, FS_StrictSubsetOrderingWellFounded, WFMin
<1>4. PICK x \in U : TRUE
  OBVIOUS
<1> DEFINE V == U \ {x}
<1>5. <<V, U>> \in StrictSubsetOrdering(T)
  BY <1>4 DEF StrictSubsetOrdering
<1>6. V \notin C /\ V \in SUBSET T
  BY <1>3, <1>5
<1>7. CASE V = {}
  <2>1. \A y \in U : y <= x
    BY <1>4, <1>7
  <2> QED
    BY <1>4, <2>1
<1>8. CASE HasLargest(V)
  <2>1. PICK m \in V : \A y \in V : y <= m
    BY <1>8
  <2>2. x \in Nat /\ m \in Nat
    BY <1>4
  <2>3. CASE m <= x
    <3>1. \A y \in U : y <= x
      BY <2>1, <2>2, <2>3
    <3> QED
      BY <1>4, <3>1
  <2>4. CASE x <= m
    <3>1. \A y \in U : y <= m
      BY <2>1, <2>2, <2>4
    <3> QED
      BY <3>1
  <2> QED
    BY <2>2, <2>3, <2>4
<1> QED
  BY <1>6, <1>7, <1>8

\* A batch holds at most Batch blocks.
LEMMA SmallestBound ==
  ASSUME NEW S \in SUBSET Nat, IsFiniteSet(S), NEW k \in Nat \ {0}
  PROVE  /\ IsFiniteSet(Smallest(S, k))
         /\ Cardinality(Smallest(S, k)) <= k
<1> DEFINE T == Smallest(S, k)
           Before(x) == {y \in S : y < x}
<1>1. T \subseteq S /\ \A x \in T : Cardinality(Before(x)) < k
  BY DEF Smallest
<1>2. IsFiniteSet(T) /\ Cardinality(T) \in Nat
  BY <1>1, FS_Subset, FS_CardinalityType
<1>3. CASE T = {}
  BY <1>2, <1>3, FS_EmptySet
<1>4. CASE T # {}
  <2>1. PICK m \in T : \A y \in T : y <= m
    BY <1>1, <1>2, <1>4, LargestExists
  <2>2. T \ {m} \subseteq Before(m)
    <3>1. ASSUME NEW y \in T, y # m PROVE y \in S /\ y < m
      <4>1. y \in S /\ y \in Nat /\ m \in Nat /\ y <= m
        BY <1>1, <2>1
      <4> QED
        BY <3>1, <4>1
    <3> QED
      BY <3>1
  <2>3. IsFiniteSet(Before(m)) /\ Cardinality(Before(m)) \in Nat
    BY FS_Subset, FS_CardinalityType
  <2>4. Cardinality(T \ {m}) <= Cardinality(Before(m)) /\ Cardinality(Before(m)) < k
    BY <1>1, <2>1, <2>2, <2>3, FS_Subset
  <2>5. Cardinality(T \ {m}) = Cardinality(T) - 1
    BY <1>2, <2>1, FS_RemoveElement
  <2> QED
    BY <1>2, <2>3, <2>4, <2>5
<1> QED
  BY <1>3, <1>4

\* Every set of blocks at hand is finite.
Finite ==
    /\ IsFiniteSet(rows) /\ IsFiniteSet(todo)
    /\ \A p \in Pools : IsFiniteSet(plan[p]) /\ IsFiniteSet(st[p])
    /\ \A w \in Passes, p \in Pools : IsFiniteSet(part[w][p].rows)

\* What is in memory only.
Unsaved == rows \ part[pass][pool].rows

\* ... by the number of batches since the last flush.
Loss ==
    pc = "fetch" =>
        Cardinality(Unsaved) <= (IF batch_i = 0 THEN FlushEvery - 1 ELSE batch_i - 1) * Batch

LossInv == IInv /\ Finite /\ Loss

LEMMA BlocksAreNumbers == Blocks \in SUBSET Nat
<1>1. \A c \in Changes, p \in Pools : c[p] \in SUBSET Nat
  BY PassAssumption
<1>2. ASSUME NEW b \in Blocks PROVE b \in Nat
  <2>1. CASE b \in Starts
    BY <2>1, PassAssumption
  <2>2. CASE \E c \in Changes : \E p \in Pools : b \in c[p]
    BY <1>1, <2>2
  <2> QED
    BY <2>1, <2>2 DEF Blocks
<1> QED
  BY <1>2

LEMMA LossInit == Init => LossInv
<1> SUFFICES ASSUME Init PROVE LossInv
  OBVIOUS
<1>1. Finite
  BY FS_EmptySet DEF Init, Finite, NoRowsOf, NoFile, File
<1> QED
  BY <1>1, InitInv DEF Init, LossInv, Loss

LEMMA FiniteStep == LossInv /\ [Next]_vars => Finite'
<1> SUFFICES ASSUME LossInv, [Next]_vars PROVE Finite'
  OBVIOUS
<1> USE FS_EmptySet DEF LossInv
<1>1. CASE UNCHANGED vars
  BY <1>1 DEF vars, memory, Finite
<1>2. CASE Start
  <2>1. PICK c \in Changes, start \in Starts, limit \in Limits :
           plan' = [p \in Pools |-> Limited(Anchored(c[p], start), limit)]
    BY <1>2 DEF Start
  <2>2. ASSUME NEW p \in Pools PROVE IsFiniteSet(plan'[p])
    <3>1. IsFiniteSet(c[p])
      BY PassAssumption
    <3>2. IsFiniteSet(Anchored(c[p], start))
      BY <3>1, FS_AddElement DEF Anchored
    <3>3. Limited(Anchored(c[p], start), limit) \subseteq Anchored(c[p], start)
      BY DEF Limited, Smallest
    <3> QED
      BY <2>1, <3>2, <3>3, FS_Subset
  <2> QED
    BY <1>2, <2>2 DEF Start, Finite
<1>3. CASE LoadPart
  <2>1. rows' = part[pass][pool].rows /\ IsFiniteSet(rows')
    BY <1>3 DEF LoadPart, Loaded, Finite, IInv, TypeOK
  <2>2. todo' \subseteq plan[pool] \/ todo' \subseteq st[pool]
    BY <1>3 DEF LoadPart, Todo
  <2>3. IsFiniteSet(todo')
    BY <2>2, FS_Subset DEF Finite, IInv, TypeOK
  <2> QED
    BY <1>3, <2>1, <2>3 DEF LoadPart, Finite
<1>4. CASE FetchBatch
  <2> DEFINE next == Smallest(todo, Batch)
  <2>1. PICK null : rows' = rows \cup Rows(next, null) /\ todo' = todo \ next
    BY <1>4 DEF FetchBatch, Added
  <2>2. Rows(next, null) \subseteq todo
    BY DEF Rows, Smallest
  <2>3. IsFiniteSet(Rows(next, null)) /\ IsFiniteSet(todo')
    BY <2>1, <2>2, FS_Subset DEF Finite
  <2>4. IsFiniteSet(rows')
    BY <2>1, <2>3, FS_Union DEF Finite
  <2> QED
    BY <1>4, <2>3, <2>4 DEF FetchBatch, Finite
<1>5. ASSUME NEW f, IsFiniteSet(f.rows), part' = [part EXCEPT ![pass][pool] = f],
             NEW w \in Passes, NEW p \in Pools
      PROVE  IsFiniteSet(part'[w][p].rows)
  BY <1>5 DEF Finite, IInv, TypeOK
<1>6. IsFiniteSet(File(rows).rows) /\ IsFiniteSet(TornFile.rows)
  BY DEF File, TornFile, Finite
<1>7. CASE Flush
  BY <1>5, <1>6, <1>7 DEF Flush, memory, Finite
<1>8. CASE EndPass
  <2>1. st' = st \/ st' = [st EXCEPT ![pool] = rows]
    BY <1>8 DEF EndPass
  <2>2. \A p \in Pools : IsFiniteSet(st'[p])
    BY <2>1 DEF Finite, IInv, TypeOK
  <2>3. \A w \in Passes, p \in Pools : IsFiniteSet(part'[w][p].rows)
    BY <1>5, <1>6, <1>8 DEF EndPass, PartAtEnd
  <2> QED
    BY <1>8, <2>2, <2>3 DEF EndPass, Finite
<1>9. CASE PutState
  BY <1>9 DEF PutState, memory, Finite
<1>10. CASE Leave /\ \A w \in Passes, p \in Pools : IsFiniteSet(part'[w][p].rows)
  BY <1>10 DEF Leave, NoRowsOf, Finite
<1>11. CASE PutQuotes \/ RpcGivesUp
  BY <1>10, <1>11 DEF PutQuotes, RpcGivesUp, Finite
<1>12. CASE Kill
  <2>1. part' = part \/ part' = [part EXCEPT ![pass][pool] = TornFile]
    BY <1>12 DEF Kill
  <2>2. \A w \in Passes, p \in Pools : IsFiniteSet(part'[w][p].rows)
    BY <1>5, <1>6, <2>1 DEF Finite
  <2> QED
    BY <1>10, <1>12, <2>2 DEF Kill
<1> QED
  BY <1>1, <1>2, <1>3, <1>4, <1>7, <1>8, <1>9, <1>11, <1>12 DEF Next, RunStep

LEMMA LossStep == LossInv /\ [Next]_vars => Loss'
<1> SUFFICES ASSUME LossInv, [Next]_vars, pc' = "fetch"
             PROVE  Cardinality(Unsaved')
                      <= (IF batch_i' = 0 THEN FlushEvery - 1 ELSE batch_i' - 1) * Batch'
  BY DEF Loss
<1>1. /\ batch_i \in 0..(FlushEvery - 1) /\ batch_i' \in 0..(FlushEvery - 1)
      /\ FlushEvery \in Nat \ {0} /\ Batch \in Nat \ {0}
  BY StepInv, PassAssumption DEF LossInv, IInv, TypeOK
<1>2. 0 <= (IF batch_i' = 0 THEN FlushEvery - 1 ELSE batch_i' - 1) * Batch
  <2>1. PICK k \in Nat : k = IF batch_i' = 0 THEN FlushEvery - 1 ELSE batch_i' - 1
    <3>1. FlushEvery - 1 \in Nat
      BY <1>1
    <3>2. batch_i' \in Nat
      BY <1>1
    <3>3. CASE batch_i' = 0
      BY <3>1, <3>3
    <3>4. CASE batch_i' # 0
      <4>1. \A n \in Nat : n # 0 => n - 1 \in Nat
        OBVIOUS
      <4>2. batch_i' - 1 \in Nat
        BY <3>2, <3>4, <4>1
      <4> QED
        BY <3>4, <4>2
    <3> QED
      BY <3>3, <3>4
  <2>2. 0 <= k * Batch
    BY <1>1
  <2> QED
    BY <2>1, <2>2
<1>3. CASE Unsaved' = {}
  BY <1>2, <1>3, FS_EmptySet
<1>4. CASE UNCHANGED vars
  BY <1>4 DEF vars, memory, LossInv, Loss, Unsaved
<1>5. CASE LoadPart
  <2>1. Unsaved' = {}
    BY <1>5 DEF LoadPart, Loaded, Unsaved
  <2> QED
    BY <1>3, <2>1
<1>6. CASE Flush
  <2>1. part'[pass][pool].rows = rows
    <3>1. part'[pass][pool] = File(rows)
      BY <1>6, Rewritten DEF Flush, LossInv, IInv
    <3> QED
      BY <3>1 DEF File
  <2>2. Unsaved' = {}
    BY <1>6, <2>1 DEF Flush, memory, Unsaved
  <2> QED
    BY <1>3, <2>2
<1>7. CASE FetchBatch
  <2> DEFINE next == Smallest(todo, Batch)
  <2>1. PICK null :
           /\ rows' = rows \cup Rows(next, null) /\ pass' = pass /\ pool' = pool
           /\ part' = part /\ pc = "fetch" /\ batch_i' = (batch_i + 1) % FlushEvery
           /\ ~FlushDue(batch_i)
    BY <1>7 DEF FetchBatch, Added
  <2>2. batch_i # 0
    BY <1>1, <2>1 DEF FlushDue
  <2>3. Cardinality(Unsaved) <= (batch_i - 1) * Batch
    BY <2>1, <2>2 DEF LossInv, Loss
  <2>4. todo \in SUBSET Nat /\ IsFiniteSet(todo) /\ IsFiniteSet(rows)
    BY BlocksAreNumbers DEF LossInv, IInv, TypeOK, Finite
  <2>5. IsFiniteSet(next) /\ Cardinality(next) <= Batch
    BY <1>1, <2>4, SmallestBound
  <2>6. IsFiniteSet(Unsaved) /\ Cardinality(Unsaved) \in Nat /\ Cardinality(next) \in Nat
    BY <2>4, <2>5, FS_Subset, FS_CardinalityType DEF Unsaved
  <2>7. IsFiniteSet(Unsaved \cup next) /\ Cardinality(Unsaved \cup next) \in Nat
    BY <2>5, <2>6, FS_Union, FS_CardinalityType
  <2>8. Cardinality(Unsaved \cup next) <= Cardinality(Unsaved) + Cardinality(next)
    <3>1. IsFiniteSet(Unsaved \cap next) /\ Cardinality(Unsaved \cap next) \in Nat
      BY <2>6, FS_Subset, FS_CardinalityType
    <3>2. Cardinality(Unsaved \cup next)
            = Cardinality(Unsaved) + Cardinality(next) - Cardinality(Unsaved \cap next)
      BY <2>5, <2>6, FS_Union
    <3> HIDE DEF next
    <3> QED
      BY <2>6, <2>7, <3>1, <3>2
  <2>9. Unsaved' \subseteq Unsaved \cup next
    BY <2>1 DEF Unsaved, Rows
  <2>10. Cardinality(Unsaved') \in Nat /\ Cardinality(Unsaved') <= Cardinality(Unsaved \cup next)
    BY <2>7, <2>9, FS_Subset, FS_CardinalityType
  <2>11. Cardinality(Unsaved') <= (batch_i - 1) * Batch + Batch
    <3>1. (batch_i - 1) * Batch \in Int
      BY <1>1
    <3> QED
      BY <1>1, <2>3, <2>5, <2>6, <2>7, <2>8, <2>10, <3>1
  <2>12. (batch_i - 1) * Batch + Batch = batch_i * Batch
    BY <1>1
  <2>13. batch_i' = IF batch_i = FlushEvery - 1 THEN 0 ELSE batch_i + 1
    BY <1>1, <2>1
  <2> QED
    BY <1>1, <2>11, <2>12, <2>13
<1> QED
  BY <1>4, <1>5, <1>6, <1>7
     DEF Next, RunStep, Start, EndPass, PutState, PutQuotes, RpcGivesUp, Kill, Leave

LEMMA LossInvariance == Spec => []LossInv
<1>1. LossInv /\ [Next]_vars => LossInv'
  BY StepInv, FiniteStep, LossStep DEF LossInv
<1> QED
  BY <1>1, LossInit, PTL DEF Spec

\* The passes, "an hour-long job that loses everything on a transient RPC error is not an
\* acceptable design": a failing request costs less than FlushEvery batches.
THEOREM LossesAreBounded == Spec => []LossBounded
<1>1. LossInv => LossBounded
  <2> SUFFICES ASSUME LossInv, pc = "fetch"
               PROVE  Cardinality(rows \ part[pass][pool].rows) <= (FlushEvery - 1) * Batch
    BY DEF LossBounded
  <2>1. batch_i \in 0..(FlushEvery - 1) /\ FlushEvery \in Nat \ {0} /\ Batch \in Nat \ {0}
    BY PassAssumption DEF LossInv, IInv, TypeOK
  <2>2. IsFiniteSet(Unsaved) /\ Cardinality(Unsaved) \in Nat
    BY FS_Subset, FS_CardinalityType DEF LossInv, Finite, Unsaved
  <2>3. batch_i # 0 => (batch_i - 1) * Batch <= (FlushEvery - 1) * Batch
    BY <2>1
  <2> QED
    BY <2>1, <2>2, <2>3 DEF LossInv, Loss, Unsaved
<1> QED
  BY <1>1, LossInvariance, PTL

-----------------------------------------------------------------------------
(* Refinement. *)

\* Writing a part file, as the abstract job sees it.
LEMMA SavedByPass ==
  ASSUME IInv, NEW f, part' = [part EXCEPT ![pass][pool] = f], NEW w \in Passes
  PROVE  [p \in Pools |-> part'[w][p].rows] =
           IF w = pass THEN [[p \in Pools |-> part[w][p].rows] EXCEPT ![pool] = f.rows]
                       ELSE [p \in Pools |-> part[w][p].rows]
<1>1. pool \in Pools /\ pass \in Passes
  BY DEF IInv, TypeOK
<1>2. \A p \in Pools : part'[w][p] = IF w = pass /\ p = pool THEN f ELSE part[w][p]
  <2>1. TypeOK
    BY DEF IInv
  <2>2. /\ part'[pass][pool] = f
        /\ \A v \in Passes, p \in Pools : v # pass \/ p # pool => part'[v][p] = part[v][p]
    BY <2>1, Rewritten
  <2> QED
    BY <2>2
<1> QED
  BY <1>1, <1>2

\* A part that is rewritten holds more, or is torn.
Rewrites(f) == \/ f = File(rows) /\ part[pass][pool].rows \subseteq rows
               \/ f = TornFile

LEMMA MoreOrNothing ==
  ASSUME IInv, NEW f, Rewrites(f)
  PROVE  f.rows = {} \/ (f.rows \in SUBSET Blocks /\ part[pass][pool].rows \subseteq f.rows)
  BY DEF Rewrites, File, TornFile, IInv, TypeOK

LEMMA StateJobParts ==
  ASSUME IInv, NEW f, part' = [part EXCEPT ![pass][pool] = f], dex_state' = dex_state, Rewrites(f)
  PROVE  [StateJob!JobNext]_(StateJob!jobVars)
<1> DEFINE saved == [p \in Pools |-> part["state"][p].rows]
<1>1. pool \in Pools /\ pass \in Passes
  BY DEF IInv, TypeOK
<1>2. CASE pass # "state"
  <2>1. saved' = saved
    BY <1>2, SavedByPass DEF Passes
  <2> QED
    BY <2>1 DEF StateJob!jobVars
<1>3. CASE pass = "state"
  <2>1. saved' = [saved EXCEPT ![pool] = f.rows]
    BY <1>3, SavedByPass DEF Passes
  <2>2. \/ saved' = [saved EXCEPT ![pool] = {}]
        \/ \E more \in SUBSET (Blocks \ saved[pool]) : saved' = [saved EXCEPT ![pool] = @ \cup more]
    <3>1. saved \in [Pools -> {part[pass][p].rows : p \in Pools}] /\ saved[pool] = part[pass][pool].rows
      BY <1>1, <1>3
    <3>2. CASE f.rows = {}
      BY <2>1, <3>2
    <3>3. CASE f.rows \in SUBSET Blocks /\ saved[pool] \subseteq f.rows
      <4>1. f.rows \ saved[pool] \in SUBSET (Blocks \ saved[pool])
        BY <3>3
      <4>2. f.rows = saved[pool] \cup (f.rows \ saved[pool])
        BY <3>3
      <4>3. saved' = [saved EXCEPT ![pool] = @ \cup (f.rows \ saved[pool])]
        BY <1>1, <2>1, <4>2
      <4> QED
        BY <4>1, <4>3
    <3> QED
      BY <3>1, <3>2, <3>3, MoreOrNothing
  <2>3. PICK p \in Pools : p = pool
    BY <1>1
  <2>4. StateJob!Lose(p) \/ StateJob!Save(p)
    BY <2>2, <2>3 DEF StateJob!Lose, StateJob!Save
  <2> QED
    BY <2>4 DEF StateJob!JobNext
<1> QED
  BY <1>2, <1>3

LEMMA QuotesJobParts ==
  ASSUME IInv, NEW f, part' = [part EXCEPT ![pass][pool] = f], dex_quotes' = dex_quotes, Rewrites(f)
  PROVE  [QuotesJob!JobNext]_(QuotesJob!jobVars)
<1> DEFINE saved == [p \in Pools |-> part["quotes"][p].rows]
<1>1. pool \in Pools /\ pass \in Passes
  BY DEF IInv, TypeOK
<1>2. CASE pass # "quotes"
  <2>1. saved' = saved
    BY <1>2, SavedByPass DEF Passes
  <2> QED
    BY <2>1 DEF QuotesJob!jobVars
<1>3. CASE pass = "quotes"
  <2>1. saved' = [saved EXCEPT ![pool] = f.rows]
    BY <1>3, SavedByPass DEF Passes
  <2>2. \/ saved' = [saved EXCEPT ![pool] = {}]
        \/ \E more \in SUBSET (Blocks \ saved[pool]) : saved' = [saved EXCEPT ![pool] = @ \cup more]
    <3>1. saved \in [Pools -> {part[pass][p].rows : p \in Pools}] /\ saved[pool] = part[pass][pool].rows
      BY <1>1, <1>3
    <3>2. CASE f.rows = {}
      BY <2>1, <3>2
    <3>3. CASE f.rows \in SUBSET Blocks /\ saved[pool] \subseteq f.rows
      <4>1. f.rows \ saved[pool] \in SUBSET (Blocks \ saved[pool])
        BY <3>3
      <4>2. f.rows = saved[pool] \cup (f.rows \ saved[pool])
        BY <3>3
      <4>3. saved' = [saved EXCEPT ![pool] = @ \cup (f.rows \ saved[pool])]
        BY <1>1, <2>1, <4>2
      <4> QED
        BY <4>1, <4>3
    <3> QED
      BY <3>1, <3>2, <3>3, MoreOrNothing
  <2>3. PICK p \in Pools : p = pool
    BY <1>1
  <2>4. QuotesJob!Lose(p) \/ QuotesJob!Save(p)
    BY <2>2, <2>3 DEF QuotesJob!Lose, QuotesJob!Save
  <2> QED
    BY <2>4 DEF QuotesJob!JobNext
<1> QED
  BY <1>2, <1>3

\* The initial states map to initial states.
LEMMA JobsInit == Init => StateJob!JobInit /\ QuotesJob!JobInit
  BY DEF Init, StateJob!JobInit, QuotesJob!JobInit, NoFile, File, NoRowsOf, Passes

\* Every step maps to a step of each job or to none.
LEMMA JobsStep ==
  IInv /\ [Next]_vars =>
    [StateJob!JobNext]_(StateJob!jobVars) /\ [QuotesJob!JobNext]_(QuotesJob!jobVars)
<1> SUFFICES ASSUME IInv, [Next]_vars
             PROVE  [StateJob!JobNext]_(StateJob!jobVars) /\ [QuotesJob!JobNext]_(QuotesJob!jobVars)
  OBVIOUS
<1>1. CASE UNCHANGED <<part, dex_state, dex_quotes>>
  BY <1>1 DEF StateJob!jobVars, QuotesJob!jobVars
<1>2. ASSUME NEW f, part' = [part EXCEPT ![pass][pool] = f],
             UNCHANGED <<dex_state, dex_quotes>>, Rewrites(f)
      PROVE  [StateJob!JobNext]_(StateJob!jobVars) /\ [QuotesJob!JobNext]_(QuotesJob!jobVars)
  BY <1>2, StateJobParts, QuotesJobParts
<1>3. CASE Flush
  BY <1>2, <1>3 DEF Flush, IInv, Progress, OnFile, Working, Rewrites
<1>4. CASE EndPass
  BY <1>2, <1>4 DEF EndPass, PartAtEnd, IInv, Progress, OnFile, Working, Rewrites
<1>5. CASE PutState
  <2>1. \A p \in Pools : st[p] = part["state"][p].rows
    BY <1>5 DEF PutState, IInv, Progress, Settled, Finished
  <2>2. st = [p \in Pools |-> part["state"][p].rows]
    BY <2>1 DEF IInv, TypeOK
  <2>3. dex_state'.rows = st /\ part' = part /\ dex_quotes' = dex_quotes
    BY <1>5 DEF PutState
  <2>4. StateJob!Deliver
    BY <2>2, <2>3 DEF StateJob!Deliver
  <2> QED
    BY <2>3, <2>4 DEF StateJob!JobNext, QuotesJob!jobVars
<1>6. CASE PutQuotes
  <2>1. \A p \in Pools : qt[p] = part["quotes"][p].rows
    BY <1>6 DEF PutQuotes, IInv, Progress, Settled, Finished
  <2>2. qt = [p \in Pools |-> part["quotes"][p].rows]
    BY <2>1 DEF IInv, TypeOK
  <2>3. dex_quotes'.rows = qt /\ part' = part /\ dex_state' = dex_state
    BY <1>6 DEF PutQuotes
  <2>4. QuotesJob!Deliver
    BY <2>2, <2>3 DEF QuotesJob!Deliver
  <2> QED
    BY <2>3, <2>4 DEF QuotesJob!JobNext, StateJob!jobVars
<1>7. CASE Kill
  <2>1. CASE part' = [part EXCEPT ![pass][pool] = TornFile] /\ UNCHANGED <<dex_state, dex_quotes>>
    BY <1>2, <2>1 DEF Rewrites
  <2>2. CASE dex_state' = [torn |-> TRUE, rows |-> NoRowsOf] /\ UNCHANGED <<part, dex_quotes>>
    <3>1. StateJob!Spoil
      BY <2>2 DEF StateJob!Spoil, NoRowsOf
    <3> QED
      BY <2>2, <3>1 DEF StateJob!JobNext, QuotesJob!jobVars
  <2>3. CASE dex_quotes' = [torn |-> TRUE, rows |-> NoRowsOf] /\ UNCHANGED <<part, dex_state>>
    <3>1. QuotesJob!Spoil
      BY <2>3 DEF QuotesJob!Spoil, NoRowsOf
    <3> QED
      BY <2>3, <3>1 DEF QuotesJob!JobNext, StateJob!jobVars
  <2> QED
    BY <1>1, <1>7, <2>1, <2>2, <2>3 DEF Kill
<1> QED
  BY <1>1, <1>3, <1>4, <1>5, <1>6, <1>7
     DEF Next, RunStep, Start, LoadPart, FetchBatch, RpcGivesUp, vars

\* The module docstring, "safe to re-run after a kill": the part files and the output of
\* each pass are a resumable job.
THEOREM PassesImplementJobs == Spec => ImplementsJobs
  BY JobsInit, JobsStep, Invariance, PTL
     DEF Spec, ImplementsJobs, StateJob!JobSpec, QuotesJob!JobSpec

=============================================================================
