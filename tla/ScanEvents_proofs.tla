-------------------------- MODULE ScanEvents_proofs --------------------------
(***************************************************************************)
(* Proofs about the scan of ScanEvents, for every pool of nodes, chain,    *)
(* window, page size and number of runs.                                   *)
(***************************************************************************)
EXTENDS ScanProperties, TLAPS

USE PoolAssumption, ScanAssumption DEF PRICE_MOVING

LEMMA NoRowsType == NoRows \in Copies
  BY DEF NoRows, Copies

LEMMA AppendType ==
    ASSUME TypeOK, NEW S
    PROVE  Append(S) \in Copies
  BY DEF Append, Copies, TypeOK

LEMMA PointsType == Points \in SUBSET (Pools \X Nat)
  BY LogsAssumption DEF Points, PointsOf

LEMMA PageType ==
    ASSUME NEW p \in Nat
    PROVE  (p + 1) % FlushEvery \in 0..(FlushEvery - 1)
  OBVIOUS

\* The files a run writes have their types.
LEMMA FileTypes ==
    ASSUME TypeOK
    PROVE  /\ RawFile \in [st: FileStates, rows: Copies, lin: Nat]
           /\ CkFile \in [st: FileStates, start: Int, cursor: Int, head: Int, lin: Nat]
           /\ ChangesFile \in [st: FileStates, start: Int, head: Int,
                               points: SUBSET (Pools \X Nat), lin: Nat]
  <1>1. start \in Int
    BY DEF TypeOK, start
  <1>2. QED
    BY <1>1, PointsType DEF TypeOK, RawFile, CkFile, ChangesFile, FileStates, Ok

\* ... and so have the files a kill may leave.
LEMMA TornTypes ==
    /\ [NoRaw EXCEPT !.st = Torn] \in [st: FileStates, rows: Copies, lin: Nat]
    /\ [NoCk EXCEPT !.st = Torn] \in [st: FileStates, start: Int, cursor: Int, head: Int, lin: Nat]
    /\ [NoChanges EXCEPT !.st = Torn] \in [st: FileStates, start: Int, head: Int,
                                           points: SUBSET (Pools \X Nat), lin: Nat]
  BY NoRowsType DEF NoRaw, NoCk, NoChanges, FileStates, Torn

\* The part of TypeOK that the end of a run resets.
LEMMA LeaveType ==
    ASSUME NEW code \in {"none", "killed", "gave_up", "not_found", "bad_file", "abort", "published"},
           Leave(code)
    PROVE  /\ pc' \in Running \cup {"idle"}
           /\ days' \in DaysSet \cup {0}
           /\ resume' \in BOOLEAN
           /\ head' \in Int
           /\ tries' \in 0..(HeadTries - 1)
           /\ cursor' \in Int
           /\ page' \in 0..(FlushEvery - 1)
           /\ rows' \in Copies
           /\ lin' \in Nat
           /\ exit' \in {"none", "killed", "gave_up", "not_found", "bad_file", "abort", "published"}
  <1>1. resume' \in BOOLEAN
    BY DEF Leave
  <1>2. QED
    BY <1>1, NoRowsType DEF Leave

\* Types of the variables and of the three files, for every value of the constants.
THEOREM Typing == Spec => []TypeOK
  <1> USE DEF Running, HeadFound
  <1>1. Init => TypeOK
    <2> SUFFICES ASSUME Init PROVE TypeOK
      OBVIOUS
    <2>1. resume \in BOOLEAN
      BY DEF Init
    <2>2. QED
      BY <2>1, NoRowsType
      DEF Init, PoolInit, TypeOK, PoolTypeOK, NoRaw, NoCk, NoChanges, FileStates, Missing
  <1>2. TypeOK /\ [Next]_vars => TypeOK'
    <2> SUFFICES ASSUME TypeOK, [Next]_vars
                 PROVE  TypeOK'
      OBVIOUS
    <2>1. ASSUME Start PROVE TypeOK'
      BY <2>1 DEF Start, TypeOK, PoolTypeOK, files
    <2>2. ASSUME NEW n \in Nodes, BlockNumber(n) PROVE TypeOK'
      BY <2>2 DEF BlockNumber, HeadCandidate, TypeOK, PoolTypeOK, files, history
    <2>3. ASSUME NEW n \in Nodes, ResolveHead(n) PROVE TypeOK'
      <3>1. CASE pc' = "head_ts" /\ UNCHANGED <<memory, exit>>
        BY <2>3, <3>1 DEF ResolveHead, TypeOK, PoolTypeOK, memory, files, history
      <3>2. CASE /\ RetryLeft /\ head' = head - StepBack /\ tries' = tries + 1
                 /\ UNCHANGED <<pc, days, resume, cursor, page, rows, lin, exit>>
        BY <2>3, <3>2 DEF ResolveHead, RetryLeft, StepBack, TypeOK, PoolTypeOK, files, history
      <3>3. CASE Leave("not_found")
        BY <2>3, <3>3, LeaveType DEF ResolveHead, TypeOK, PoolTypeOK, files, history
      <3>4. QED
        BY <2>3, <3>1, <3>2, <3>3 DEF ResolveHead
    <2>4. ASSUME NEW n \in Nodes, HeadTimestamp(n) PROVE TypeOK'
      <3>1. CASE pc' = "load" /\ UNCHANGED <<memory, exit>>
        BY <2>4, <3>1 DEF HeadTimestamp, TypeOK, PoolTypeOK, memory, files, history
      <3>2. CASE Leave("not_found")
        BY <2>4, <3>2, LeaveType DEF HeadTimestamp, TypeOK, PoolTypeOK, files, history
      <3>3. QED
        BY <2>4, <3>1, <3>2 DEF HeadTimestamp
    <2>5. ASSUME Load PROVE TypeOK'
      <3>1. CASE /\ cursor' = start /\ rows' = NoRows /\ lin' = runs
                 /\ page' = 0 /\ pc' = "page"
                 /\ UNCHANGED <<days, resume, head, tries, exit>>
        BY <2>5, <3>1, NoRowsType DEF Load, start, TypeOK, PoolTypeOK, files, history
      <3>2. CASE /\ cursor' = ck.cursor /\ rows' = raw.rows /\ lin' = Lineage
                 /\ page' = 0 /\ pc' = "page"
                 /\ UNCHANGED <<days, resume, head, tries, exit>>
        BY <2>5, <3>2 DEF Load, Lineage, TypeOK, PoolTypeOK, files, history
      <3>3. CASE Leave("bad_file")
        BY <2>5, <3>3, LeaveType DEF Load, TypeOK, PoolTypeOK, files, history
      <3>4. QED
        BY <2>5, <3>1, <3>2, <3>3 DEF Load
    <2>6. ASSUME NEW n \in Nodes, FetchPage(n) PROVE TypeOK'
      BY <2>6, AppendType, PageType
      DEF FetchPage, NextCursor, PageEnd, TypeOK, PoolTypeOK, files, history
    <2>7. ASSUME FlushRaw PROVE TypeOK'
      BY <2>7, FileTypes DEF FlushRaw, TypeOK, PoolTypeOK, memory, history
    <2>8. ASSUME FlushCheckpoint PROVE TypeOK'
      BY <2>8, FileTypes DEF FlushCheckpoint, TypeOK, PoolTypeOK, memory, history
    <2>9. ASSUME FinalRaw PROVE TypeOK'
      BY <2>9, FileTypes DEF FinalRaw, TypeOK, PoolTypeOK, memory, history
    <2>10. ASSUME CheckSwaps PROVE TypeOK'
      <3>1. CASE pc' = "stamp" /\ UNCHANGED <<memory, exit>>
        BY <2>10, <3>1 DEF CheckSwaps, TypeOK, PoolTypeOK, memory, files, history
      <3>2. CASE Leave("abort")
        BY <2>10, <3>2, LeaveType DEF CheckSwaps, TypeOK, PoolTypeOK, files, history
      <3>3. QED
        BY <2>10, <3>1, <3>2 DEF CheckSwaps
    <2>11. ASSUME NEW n \in Nodes, StampBlocks(n) PROVE TypeOK'
      <3>1. CASE pc' = "publish" /\ UNCHANGED <<memory, exit>>
        BY <2>11, <3>1 DEF StampBlocks, TypeOK, PoolTypeOK, memory, files, history
      <3>2. CASE Leave("not_found")
        BY <2>11, <3>2, LeaveType DEF StampBlocks, TypeOK, PoolTypeOK, files, history
      <3>3. QED
        BY <2>11, <3>1, <3>2 DEF StampBlocks
    <2>12. ASSUME Publish PROVE TypeOK'
      BY <2>12, LeaveType, FileTypes DEF Publish, TypeOK, PoolTypeOK, history
    <2>13. ASSUME RpcGivesUp PROVE TypeOK'
      BY <2>13, LeaveType DEF RpcGivesUp, TypeOK, PoolTypeOK, files, history
    <2>14. ASSUME Kill PROVE TypeOK'
      BY <2>14, LeaveType, TornTypes DEF Kill, TypeOK, PoolTypeOK, files
    <2>15. ASSUME NEW n \in Nodes, Advance(n) PROVE TypeOK'
      BY <2>15 DEF Advance, Ingest, TypeOK, PoolTypeOK, memory, files, history
    <2>16. CASE UNCHANGED vars
      BY <2>16 DEF vars, memory, files, history, TypeOK, PoolTypeOK
    <2>17. QED
      BY <2>1, <2>2, <2>3, <2>4, <2>5, <2>6, <2>7, <2>8, <2>9, <2>10, <2>11, <2>12,
         <2>13, <2>14, <2>15, <2>16
      DEF Next, RunStep, LocalStep, NodeStep
  <1>3. QED
    BY <1>1, <1>2, PTL DEF Spec

-----------------------------------------------------------------------------
(* The margin of safe_head, and what follows when the lag exceeds the skew. *)

\* The end of a run leaves the phases of a scan.
LEMMA LeavePhase ==
    ASSUME NEW code, Leave(code)
    PROVE  /\ pc' = "idle"
           /\ pc' \notin Looking /\ pc' \notin Loaded /\ pc' \notin HeadFound
           /\ lin' = 0
           /\ \A l \in Logs : rows'[l] = 0
  BY DEF Leave, Looking, Loaded, HeadFound, NoRows

LEMMA MarginInductive == Spec => []MarginInv
  <1> USE DEF Looking, HeadFound
  <1>1. Init => MarginInv
    BY DEF Init, PoolInit, MarginInv, WithinSkew
  <1>2. TypeOK /\ MarginInv /\ [Next]_vars => MarginInv'
    <2> SUFFICES ASSUME TypeOK, MarginInv, [Next]_vars
                 PROVE  MarginInv'
      OBVIOUS
    <2>1. ASSUME NEW n \in Nodes, BlockNumber(n) PROVE MarginInv'
      BY <2>1 DEF BlockNumber, HeadCandidate, MarginInv, WithinSkew, TypeOK, PoolTypeOK
    <2>2. ASSUME NEW n \in Nodes, ResolveHead(n) PROVE MarginInv'
      <3>1. head' <= head \/ pc' \notin Looking
        BY <2>2, LeavePhase DEF ResolveHead, StepBack, memory, TypeOK
      <3>2. tip' = tip /\ (pc \in Looking) /\ (head' \in Int)
        BY <2>2 DEF ResolveHead, Leave, StepBack, memory, TypeOK
      <3>3. QED
        BY <3>1, <3>2 DEF MarginInv, WithinSkew, TypeOK, PoolTypeOK
    <2>3. ASSUME NEW n \in Nodes, Advance(n) PROVE MarginInv'
      <3>1. \A m \in Nodes : tip'[m] >= tip[m]
        BY <2>3 DEF Advance, Ingest, TypeOK, PoolTypeOK
      <3>2. tip' \in [Nodes -> Int]
        BY <2>3 DEF Advance, Ingest, TypeOK, PoolTypeOK
      <3>3. QED
        BY <2>3, <3>1, <3>2
        DEF Advance, Ingest, memory, MarginInv, WithinSkew, TypeOK, PoolTypeOK
    <2>4. ASSUME tip' = tip, pc' \notin Looking PROVE MarginInv'
      BY <2>4 DEF MarginInv, WithinSkew
    <2>5. ASSUME tip' = tip, head' = head, pc \in Looking \/ pc' \notin Looking
          PROVE  MarginInv'
      BY <2>5 DEF MarginInv, WithinSkew
    <2>6. CASE Start
      BY <2>4, <2>6 DEF Start
    <2>7. ASSUME NEW n \in Nodes, HeadTimestamp(n) \/ FetchPage(n) \/ StampBlocks(n)
          PROVE  MarginInv'
      BY <2>4, <2>5, <2>7, LeavePhase DEF HeadTimestamp, FetchPage, StampBlocks, memory
    <2>8. CASE LocalStep
      <3>1. CASE Load
        BY <2>4, <2>5, <3>1, LeavePhase DEF Load
      <3>2. CASE FlushRaw \/ FlushCheckpoint \/ FinalRaw
        BY <2>5, <3>2 DEF FlushRaw, FlushCheckpoint, FinalRaw, memory
      <3>3. CASE CheckSwaps
        BY <2>4, <2>5, <3>3, LeavePhase DEF CheckSwaps, memory
      <3>4. CASE Publish
        BY <2>4, <3>4, LeavePhase DEF Publish
      <3>5. QED
        BY <2>8, <3>1, <3>2, <3>3, <3>4 DEF LocalStep
    <2>9. CASE RpcGivesUp \/ Kill
      BY <2>4, <2>9, LeavePhase DEF RpcGivesUp, Kill
    <2>10. CASE UNCHANGED vars
      BY <2>10 DEF vars, memory, MarginInv, WithinSkew
    <2>11. QED
      BY <2>1, <2>2, <2>3, <2>6, <2>7, <2>8, <2>9, <2>10
      DEF Next, RunStep, NodeStep
  <1>3. QED
    BY <1>1, <1>2, Typing, PTL DEF Spec

\* Whichever nodes answered, every node is at most Skew - Lag blocks short of
\* the head a run works with.
THEOREM SafeHeadMargin == Spec => []HeadMargin
  <1>1. MarginInv => HeadMargin
    BY DEF MarginInv, HeadMargin, Looking
  <1>2. QED
    BY <1>1, MarginInductive, PTL

\* What the docstring of safe_head says is true of a pool whose nodes are never
\* further apart than the lag.
THEOREM SafeHeadServedByAll == Settled => (Spec => []HeadServedByAll)
  <1> SUFFICES ASSUME Settled PROVE Spec => []HeadServedByAll
    OBVIOUS
  <1>1. TypeOK /\ MarginInv => HeadServedByAll
    <2> SUFFICES ASSUME TypeOK, MarginInv, pc \in HeadFound, NEW n \in Nodes
                 PROVE  Serves(n, head)
      BY DEF HeadServedByAll
    <2>1. tip[n] >= head + Lag - Skew
      BY DEF MarginInv, Looking
    <2>2. tip[n] \in Int /\ head \in Int
      BY DEF TypeOK, PoolTypeOK
    <2>3. QED
      BY <2>1, <2>2 DEF Settled, Serves
  <1>2. QED
    BY <1>1, Typing, MarginInductive, PTL

-----------------------------------------------------------------------------
(* A settled pool refuses no request of a run. *)

\* What a page adds.
LEMMA AppendAdds ==
    ASSUME TypeOK, NEW n \in Nodes, FetchPage(n), NEW l \in Logs
    PROVE  /\ rows[l] \in Nat /\ raw.rows[l] \in Nat /\ l.block \in Nat
           /\ cursor \in Int /\ head \in Int /\ tip[n] \in Int
           /\ cursor' > cursor /\ cursor' <= head + 1 /\ cursor' \in Int
           /\ ~(cursor <= l.block /\ l.block < cursor' /\ Serves(n, l.block))
                 => rows'[l] = rows[l]
           /\ (cursor <= l.block /\ l.block < cursor' /\ Serves(n, l.block))
                 => rows'[l] = rows[l] + 1
  <1>1. /\ rows[l] \in Nat /\ raw.rows[l] \in Nat /\ l.block \in Nat
        /\ cursor \in Int /\ head \in Int /\ tip[n] \in Int
    BY LogsAssumption DEF TypeOK, PoolTypeOK, Copies
  <1> DEFINE to == PageEnd(cursor)
  <1>2. to \in Int /\ cursor <= to /\ to <= head /\ cursor' = to + 1
    BY <1>1 DEF FetchPage, PageEnd, NextCursor
  <1>3. rows'[l] = rows[l] + IF l \in GetLogs(n, cursor, to) THEN 1 ELSE 0
    BY DEF FetchPage, Append
  <1>4. l \in GetLogs(n, cursor, to)
            <=> cursor <= l.block /\ l.block < cursor' /\ Serves(n, l.block)
    BY <1>1, <1>2 DEF GetLogs
  <1>5. QED
    BY <1>1, <1>2, <1>3, <1>4

LEMMA RowTypes ==
    ASSUME TypeOK, NEW l \in Logs
    PROVE  rows[l] \in Nat /\ raw.rows[l] \in Nat /\ l.block \in Nat
  BY LogsAssumption DEF TypeOK, Copies

\* Whatever a step does to the rows, it takes them from memory, file or a node.
LEMMA RowsStep ==
    ASSUME TypeOK, [Next]_vars
    PROVE  /\ \/ rows' = rows \/ rows' = NoRows \/ rows' = raw.rows
              \/ \E n \in Nodes : FetchPage(n)
           /\ raw'.rows = raw.rows \/ raw'.rows = rows \/ raw'.rows = NoRows
  <1>1. CASE RunStep
    <2>1. CASE \E n \in Nodes : NodeStep(n)
      BY <2>1 DEF NodeStep, BlockNumber, ResolveHead, HeadTimestamp, StampBlocks, FetchPage,
                  Leave, memory, files
    <2>2. CASE Load \/ CheckSwaps
      BY <2>2 DEF Load, CheckSwaps, Leave, memory, files
    <2>3. CASE FlushRaw \/ FlushCheckpoint \/ FinalRaw \/ Publish
      BY <2>3 DEF FlushRaw, FlushCheckpoint, FinalRaw, Publish, RawFile, Leave, memory
    <2>4. QED
      BY <1>1, <2>1, <2>2, <2>3 DEF RunStep, LocalStep
  <1>2. CASE Start \/ RpcGivesUp \/ (\E n \in Nodes : Advance(n)) \/ UNCHANGED vars
    BY <1>2 DEF Start, RpcGivesUp, Advance, vars, Leave, memory, files
  <1>3. CASE Kill
    BY <1>3 DEF Kill, NoRaw, Leave, files
  <1>4. QED
    BY <1>1, <1>2, <1>3 DEF Next

LEMMA TipsGrow ==
    ASSUME TypeOK, [Next]_vars, NEW n \in Nodes
    PROVE  tip'[n] >= tip[n] /\ tip[n] \in Int /\ tip'[n] \in Int
  <1>1. tip[n] \in Int
    BY DEF TypeOK, PoolTypeOK
  <1>2. tip' = tip \/ \E m \in Nodes : Advance(m)
    BY DEF Next, RunStep, NodeStep, LocalStep, BlockNumber, ResolveHead, HeadTimestamp,
           StampBlocks, FetchPage, Load, CheckSwaps, FlushRaw, FlushCheckpoint, FinalRaw,
           Publish, Start, RpcGivesUp, Kill, vars
  <1>3. ASSUME NEW m \in Nodes, Advance(m) PROVE tip'[n] = tip[n] \/ tip'[n] = tip[n] + 1
    BY <1>3 DEF Advance, Ingest, TypeOK, PoolTypeOK
  <1>4. QED
    BY <1>1, <1>2, <1>3

LEMMA ServedInductive == Spec => []ServedInv
  <1>1. Init => ServedInv
    BY DEF Init, ServedInv, RowsServed, NeverNotFound, NoRows, NoRaw
  <1>2. TypeOK /\ HeadMargin /\ MarginInv /\ ServedInv /\ [Next]_vars => ServedInv'
    <2> SUFFICES ASSUME TypeOK, HeadMargin, MarginInv, ServedInv, [Next]_vars, Settled
                 PROVE  RowsServed' /\ NeverNotFound'
      BY DEF ServedInv, Settled
    <2>1. RowsServed /\ NeverNotFound
      BY DEF ServedInv
    <2>2. ASSUME pc \in HeadFound, NEW n \in Nodes PROVE Serves(n, head)
      <3>1. tip[n] >= head + Lag - Skew
        BY <2>2 DEF HeadMargin
      <3>2. tip[n] \in Int /\ head \in Int
        BY DEF TypeOK, PoolTypeOK
      <3>3. QED
        BY <3>1, <3>2 DEF Settled, Serves
    <2>3. ASSUME NEW l \in Logs, NEW m \in Nodes, rows'[l] > 0 \/ raw'.rows[l] > 0
          PROVE  Serves(m, l.block)'
      <3>1. rows[l] \in Nat /\ raw.rows[l] \in Nat /\ l.block \in Nat
        BY RowTypes
      <3>2. NoRows[l] = 0
        BY DEF NoRows
      <3>3. CASE rows[l] > 0 \/ raw.rows[l] > 0
        BY <2>1, <3>1, <3>3, TipsGrow DEF RowsServed, Serves
      <3>4. CASE rows[l] = 0 /\ raw.rows[l] = 0
        <4>1. PICK n \in Nodes : FetchPage(n)
          BY <2>3, <3>2, <3>4, RowsStep
        <4>2. raw'.rows[l] = 0
          BY <3>2, <3>4, RowsStep
        <4>3. l.block < cursor' /\ cursor' <= head + 1 /\ cursor' \in Int /\ head \in Int
          BY <2>3, <3>4, <4>1, <4>2, AppendAdds
        <4>4. pc \in HeadFound
          BY <4>1 DEF FetchPage, HeadFound
        <4>5. Serves(m, head)
          BY <2>2, <4>4
        <4>6. QED
          BY <3>1, <4>3, <4>5, TipsGrow DEF Serves
      <3>5. QED
        BY <3>1, <3>3, <3>4
    <2>4. exit' # "not_found"
      <3>1. ASSUME NEW n \in Nodes, ResolveHead(n) PROVE exit' # "not_found"
        <4>1. pc \in Looking
          BY <3>1 DEF ResolveHead, Looking
        <4>2. tip[n] >= head + Lag - Skew /\ tip[n] \in Int /\ head \in Int
          BY <4>1 DEF MarginInv, TypeOK, PoolTypeOK
        <4>3. Serves(n, head)
          BY <4>2 DEF Settled, Serves
        <4>4. QED
          BY <2>1, <3>1, <4>3 DEF ResolveHead, NeverNotFound
      <3>2. ASSUME NEW n \in Nodes, HeadTimestamp(n) PROVE exit' # "not_found"
        BY <2>1, <2>2, <3>2 DEF HeadTimestamp, HeadFound, NeverNotFound
      <3>3. ASSUME NEW n \in Nodes, StampBlocks(n) PROVE exit' # "not_found"
        <4>1. \A pt \in Points : Serves(n, pt[2])
          BY <2>1 DEF Points, PointsOf, RowsServed
        <4>2. QED
          BY <2>1, <3>3, <4>1 DEF StampBlocks, NeverNotFound
      <3>4. CASE \E n \in Nodes : BlockNumber(n) \/ FetchPage(n) \/ Advance(n)
        BY <2>1, <3>4 DEF BlockNumber, FetchPage, Advance, NeverNotFound
      <3>5. CASE LocalStep
        BY <2>1, <3>5 DEF LocalStep, Load, FlushRaw, FlushCheckpoint, FinalRaw, CheckSwaps,
                          Publish, Leave, NeverNotFound
      <3>6. CASE Start \/ RpcGivesUp \/ Kill \/ UNCHANGED vars
        BY <2>1, <3>6 DEF Start, RpcGivesUp, Kill, Leave, vars, NeverNotFound
      <3>7. QED
        BY <3>1, <3>2, <3>3, <3>4, <3>5, <3>6 DEF Next, RunStep, NodeStep
    <2>5. QED
      BY <2>3, <2>4 DEF RowsServed, NeverNotFound
  <1>3. QED
    BY <1>1, <1>2, Typing, SafeHeadMargin, MarginInductive, PTL DEF Spec

\* With a lag no shorter than the skew, no run ends because a block was not
\* found, neither its head nor a block it fetched, now or in an earlier run.
THEOREM SettledPoolServes == Settled => (Spec => []NeverNotFound)
  <1> SUFFICES ASSUME Settled PROVE Spec => []NeverNotFound
    OBVIOUS
  <1>1. ServedInv => NeverNotFound
    BY DEF ServedInv
  <1>2. QED
    BY <1>1, ServedInductive, PTL

-----------------------------------------------------------------------------
(* The checkpoint is true of the rows it stands beside. *)

LEMMA LineageInductive == Spec => []LineageInv
  <1>1. Init => LineageInv
    BY DEF Init, LineageInv, NoRaw, NoCk
  <1>2. TypeOK /\ LineageInv /\ [Next]_vars => LineageInv'
    <2> SUFFICES ASSUME TypeOK, LineageInv, [Next]_vars
                 PROVE  LineageInv'
      OBVIOUS
    <2>1. lin \in Nat /\ raw.lin \in Nat /\ ck.lin \in Nat /\ runs \in Nat
      BY DEF TypeOK
    <2>2. CASE Start
      BY <2>1, <2>2 DEF Start, LineageInv, files
    <2>3. ASSUME NEW n \in Nodes, NodeStep(n) PROVE LineageInv'
      <3>1. /\ raw' = raw /\ ck' = ck /\ runs' = runs /\ (lin' = lin \/ lin' = 0)
            /\ pc' \in {"number", "resolve", "head_ts", "load"}
                  => pc \in {"number", "resolve", "head_ts", "load"}
        BY <2>3 DEF NodeStep, BlockNumber, ResolveHead, HeadTimestamp, FetchPage, StampBlocks,
                    Leave, memory, files, history
      <3>2. QED
        BY <2>1, <3>1 DEF LineageInv
    <2>4. CASE Load \/ CheckSwaps
      BY <2>1, <2>4 DEF Load, CheckSwaps, Leave, Lineage, LineageInv, memory, files, history
    <2>5. CASE FlushRaw \/ FlushCheckpoint \/ FinalRaw \/ Publish
      BY <2>1, <2>5 DEF FlushRaw, FlushCheckpoint, FinalRaw, Publish, RawFile, CkFile, Leave,
                        LineageInv, memory, history
    <2>6. CASE RpcGivesUp
      BY <2>1, <2>6 DEF RpcGivesUp, Leave, LineageInv, files, history
    <2>7. CASE Kill
      <3>1. raw'.lin \in {0, raw.lin} /\ ck'.lin \in {0, ck.lin} /\ lin' = 0
            /\ runs' = runs /\ pc' = "idle"
        BY <2>7 DEF Kill, Leave, NoRaw, NoCk, files
      <3>2. QED
        BY <2>1, <3>1 DEF LineageInv
    <2>8. CASE UNCHANGED vars \/ \E n \in Nodes : Advance(n)
      BY <2>8 DEF vars, Advance, memory, files, history, LineageInv
    <2>9. QED
      BY <2>2, <2>3, <2>4, <2>5, <2>6, <2>7, <2>8 DEF Next, RunStep, LocalStep
  <1>3. QED
    BY <1>1, <1>2, Typing, PTL DEF Spec

\* A step that leaves the run and its files alone, but for the phase.
LEMMA CoverQuiet ==
    ASSUME TypeOK, CoverInv,
           UNCHANGED <<memory, raw, ck>>,
           pc' \in Loaded => pc \in Loaded,
           pc' # "checkpoint",
           pc' \in {"check", "stamp", "publish"} => pc \in {"check", "stamp", "publish"}
    PROVE  CoverInv'
  BY DEF CoverInv, CheckpointHonoured, Covers, RawFile, start, memory

\* A run that ends leaves files that were already there, or a torn one.
LEMMA CoverLeave ==
    ASSUME TypeOK, CoverInv, NEW code, Leave(code),
           raw' = raw \/ raw'.st = Torn,
           ck' = ck \/ ck'.st = Torn
    PROVE  CoverInv'
  <1>1. pc' = "idle" /\ pc' \notin Loaded
    BY LeavePhase
  <1>2. CheckpointHonoured'
    BY DEF CoverInv, CheckpointHonoured, Covers, Torn, Ok
  <1>3. QED
    BY <1>1, <1>2 DEF CoverInv

LEMMA CoverInductive == Settled => (Spec => []CoverInv)
  <1> SUFFICES ASSUME Settled PROVE Spec => []CoverInv
    OBVIOUS
  <1>1. Init => CoverInv
    BY DEF Init, CoverInv, CheckpointHonoured, Loaded, HeadFound, NoRaw, NoCk, Missing, Ok
  <1>2. TypeOK /\ HeadServedByAll /\ LineageInv /\ CoverInv /\ [Next]_vars => CoverInv'
    <2> SUFFICES ASSUME TypeOK, HeadServedByAll, LineageInv, CoverInv, [Next]_vars
                 PROVE  CoverInv'
      OBVIOUS
    <2> USE DEF Loaded, HeadFound
    <2>1. CASE Start
      <3>1. pc' = "number" /\ raw' = raw /\ ck' = ck
        BY <2>1 DEF Start, files
      <3>2. QED
        BY <3>1 DEF CoverInv, CheckpointHonoured, Covers
    <2>2. ASSUME NEW n \in Nodes, BlockNumber(n) \/ ResolveHead(n) PROVE CoverInv'
      <3>1. CASE Leave("not_found") /\ UNCHANGED files
        BY <3>1, CoverLeave DEF files
      <3>2. CASE pc' \in {"resolve", "head_ts"} /\ UNCHANGED files
        BY <3>2 DEF CoverInv, CheckpointHonoured, Covers, files
      <3>3. QED
        BY <2>2, <3>1, <3>2 DEF BlockNumber, ResolveHead
    <2>3. ASSUME NEW n \in Nodes, HeadTimestamp(n) \/ StampBlocks(n) PROVE CoverInv'
      <3>1. CASE Leave("not_found") /\ UNCHANGED files
        BY <3>1, CoverLeave DEF files
      <3>2. CASE HeadTimestamp(n) /\ pc' = "load" /\ UNCHANGED <<memory, exit>>
        BY <3>2, CoverQuiet DEF HeadTimestamp, files
      <3>3. CASE StampBlocks(n) /\ pc' = "publish" /\ UNCHANGED <<memory, exit>>
        BY <3>3, CoverQuiet DEF StampBlocks, files
      <3>4. QED
        BY <2>3, <3>1, <3>2, <3>3 DEF HeadTimestamp, StampBlocks
    <2>4. CASE Load
      <3>1. CASE /\ cursor' = start /\ rows' = NoRows /\ lin' = runs
                 /\ page' = 0 /\ pc' = "page"
                 /\ UNCHANGED <<days, resume, head, tries, exit>>
        <4>1. UNCHANGED files /\ ck.lin < runs /\ start' = start
          BY <2>4, <3>1 DEF Load, LineageInv, start
        <4>2. start \in Int /\ ck.lin \in Nat /\ runs \in Nat
          BY DEF TypeOK, start
        <4>3. Covers(rows, start, cursor)'
          BY <3>1, <4>1, <4>2 DEF Covers
        <4>4. QED
          BY <3>1, <4>1, <4>2, <4>3 DEF CoverInv, CheckpointHonoured, Covers, files
      <3>2. CASE /\ Considered /\ ck.st = Ok /\ SameStart /\ raw.st = Ok
                 /\ cursor' = ck.cursor /\ rows' = raw.rows /\ lin' = Lineage
                 /\ page' = 0 /\ pc' = "page"
                 /\ UNCHANGED <<days, resume, head, tries, exit>>
        <4>1. UNCHANGED files /\ start' = start /\ ck.cursor \in Int
          BY <2>4, <3>2 DEF Load, start, TypeOK
        <4>2. lin' # 0 => Covers(raw.rows, ck.start, ck.cursor)
          BY <3>2 DEF CoverInv, CheckpointHonoured, Lineage
        <4>3. QED
          BY <3>2, <4>1, <4>2 DEF CoverInv, CheckpointHonoured, Covers, SameStart, files
      <3>3. CASE Leave("bad_file")
        BY <2>4, <3>3, CoverLeave DEF Load, files
      <3>4. QED
        BY <2>4, <3>1, <3>2, <3>3 DEF Load
    <2>5. ASSUME NEW n \in Nodes, FetchPage(n) PROVE CoverInv'
      <3>1. /\ UNCHANGED <<lin, files, days, head>> /\ start' = start
            /\ pc = "page" /\ pc' \in {"page", "flush"}
        BY <2>5 DEF FetchPage, start
      <3>2. start \in Int /\ cursor \in Int /\ head \in Int /\ ck.cursor \in Int
        BY DEF TypeOK, start
      <3>3. ASSUME lin # 0, NEW l \in Logs, l.block \in start..(cursor' - 1)
            PROVE  rows'[l] > 0
        <4>1. rows[l] \in Nat /\ l.block \in Nat /\ tip[n] \in Int
          BY <2>5, AppendAdds
        <4>2. cursor' \in Int /\ cursor' <= head + 1
          BY <2>5, AppendAdds
        <4>3. CASE l.block < cursor
          <5>1. rows[l] > 0
            BY <3>1, <3>2, <3>3, <4>1, <4>2, <4>3 DEF CoverInv, Covers
          <5>2. QED
            BY <2>5, <4>1, <5>1, AppendAdds
        <4>4. CASE cursor <= l.block
          <5>1. Serves(n, head)
            BY <3>1 DEF HeadServedByAll
          <5>2. Serves(n, l.block)
            BY <3>2, <3>3, <4>1, <4>2, <5>1 DEF Serves
          <5>3. l.block < cursor'
            BY <3>2, <3>3, <4>1, <4>2
          <5>4. QED
            BY <2>5, <4>1, <4>4, <5>2, <5>3, AppendAdds
        <4>5. QED
          BY <3>2, <4>1, <4>3, <4>4
      <3>4. cursor' \in Int /\ cursor' > cursor
        BY <2>5, <3>2 DEF FetchPage, PageEnd, NextCursor
      <3>5. QED
        BY <3>1, <3>2, <3>3, <3>4 DEF CoverInv, CheckpointHonoured, Covers, files
    <2>6. CASE FlushRaw \/ FinalRaw
      <3>1. /\ UNCHANGED <<memory, ck>> /\ raw' = RawFile /\ RawFile' = RawFile
            /\ start' = start /\ pc \in Loaded
            /\ pc' \in {"checkpoint", "check"} /\ (pc' = "check" => cursor > head)
        BY <2>6 DEF FlushRaw, FinalRaw, RawFile, memory, start
      <3>2. raw'.rows = rows /\ raw'.lin = lin
        BY <3>1 DEF RawFile
      <3>3. start \in Int /\ cursor \in Int /\ ck.cursor \in Int
        BY DEF TypeOK, start
      <3>4. CheckpointHonoured'
        <4> SUFFICES ASSUME ck.st = Ok, lin = ck.lin, ck.lin # 0
                     PROVE  Covers(rows, ck.start, ck.cursor)
          BY <3>1, <3>2 DEF CheckpointHonoured, Covers
        <4>1. Covers(rows, start, cursor) /\ ck.start = start /\ ck.cursor <= cursor
          BY <3>1 DEF CoverInv
        <4>2. QED
          BY <3>3, <4>1 DEF Covers
      <3>5. QED
        BY <3>1, <3>4 DEF CoverInv, Covers, memory
    <2>7. CASE FlushCheckpoint
      <3>1. /\ UNCHANGED <<memory, raw>> /\ ck' = CkFile /\ start' = start
            /\ pc = "checkpoint" /\ pc' = "page" /\ raw = RawFile
        BY <2>7 DEF FlushCheckpoint, CoverInv, memory, start
      <3>2. /\ raw.rows = rows /\ raw.lin = lin /\ ck'.st = Ok /\ ck'.start = start
            /\ ck'.cursor = cursor /\ ck'.lin = lin
        BY <3>1 DEF RawFile, CkFile
      <3>3. lin # 0 => Covers(rows, start, cursor)
        BY <3>1 DEF CoverInv
      <3>4. cursor \in Int
        BY DEF TypeOK
      <3>5. QED
        BY <3>1, <3>2, <3>3, <3>4 DEF CoverInv, CheckpointHonoured, Covers, memory
    <2>8. CASE CheckSwaps
      <3>1. CASE pc' = "stamp" /\ UNCHANGED <<memory, exit>>
        BY <2>8, <3>1, CoverQuiet DEF CheckSwaps, files
      <3>2. CASE Leave("abort")
        BY <2>8, <3>2, CoverLeave DEF CheckSwaps, files
      <3>3. QED
        BY <2>8, <3>1, <3>2 DEF CheckSwaps
    <2>9. CASE Publish
      BY <2>9, CoverLeave DEF Publish
    <2>10. CASE RpcGivesUp
      BY <2>10, CoverLeave DEF RpcGivesUp, files
    <2>11. CASE Kill
      <3>1. (raw' = raw \/ raw'.st = Torn) /\ (ck' = ck \/ ck'.st = Torn)
        BY <2>11 DEF Kill, files, NoRaw, NoCk
      <3>2. QED
        BY <2>11, <3>1, CoverLeave DEF Kill
    <2>12. CASE UNCHANGED vars \/ \E n \in Nodes : Advance(n)
      <3>1. UNCHANGED <<pc, memory, raw, ck>>
        BY <2>12 DEF vars, Advance, files
      <3>2. QED
        BY <3>1 DEF CoverInv, CheckpointHonoured, Covers, RawFile, start, memory
    <2>13. QED
      BY <2>1, <2>2, <2>3, <2>4, <2>5, <2>6, <2>7, <2>8, <2>9, <2>10, <2>11, <2>12
      DEF Next, RunStep, NodeStep, LocalStep
  <1>3. QED
    BY <1>1, <1>2, Typing, SafeHeadServedByAll, LineageInductive, PTL DEF Spec

\* On a settled pool a checkpoint is never ahead of the rows written by the same
\* run or by the runs it continues, wherever a run was killed.
THEOREM CheckpointIsHonoured == Settled => (Spec => []CheckpointHonoured)
  <1> SUFFICES ASSUME Settled PROVE Spec => []CheckpointHonoured
    OBVIOUS
  <1>1. CoverInv => CheckpointHonoured
    BY DEF CoverInv
  <1>2. QED
    BY <1>1, CoverInductive, PTL

-----------------------------------------------------------------------------
(* A resumed scan repeats a page at most once per kill. *)

\* The window of a run begins no later than its head.
LEMMA StartBeforeHead ==
    ASSUME TypeOK
    PROVE  start \in Int /\ start <= head
  <1>1. days \in Nat /\ head \in Int
    BY DEF TypeOK
  <1>2. days * BlocksPerDay \in Nat
    BY <1>1
  <1>3. QED
    BY <1>1, <1>2 DEF start

LEMMA CopiesQuiet ==
    ASSUME TypeOK, CopiesInv,
           UNCHANGED <<memory, raw, ck, kills>>,
           pc # "checkpoint", pc' # "checkpoint",
           pc' \in Loaded => pc \in Loaded,
           pc' # "page" \/ pc = "page"
    PROVE  CopiesInv'
  BY DEF CopiesInv, memory

\* A run that ends between the two writes of a flush has been killed there.
LEMMA CopiesLeave ==
    ASSUME TypeOK, CopiesInv, NEW code, Leave(code),
           raw' = raw \/ (raw'.st = Torn /\ raw'.rows = NoRows),
           ck' = ck \/ ck'.st = Torn,
           \/ pc # "checkpoint" /\ kills' = kills
           \/ kills' = kills + 1
    PROVE  CopiesInv'
  <1>1. pc' = "idle" /\ pc' \notin Loaded
    BY LeavePhase
  <1>2. kills \in Nat /\ kills' \in Nat
    BY DEF TypeOK
  <1>3. ASSUME NEW l \in Logs PROVE rows'[l] <= 1 + kills' /\ raw'.rows[l] <= 1 + kills'
    BY <1>2, RowTypes, LeavePhase DEF CopiesInv, NoRows
  <1>4. ASSUME raw'.st = Ok, ck'.st = Ok, NEW l \in Logs, l.block >= ck'.cursor
        PROVE  raw'.rows[l] <= kills'
    <2>1. raw' = raw /\ ck' = ck
      BY <1>4 DEF Ok, Torn
    <2>2. CASE pc # "checkpoint"
      BY <1>2, <1>4, <2>1, <2>2, RowTypes DEF CopiesInv
    <2>3. CASE pc = "checkpoint"
      BY <1>2, <2>1, <2>3, RowTypes DEF CopiesInv
    <2>4. QED
      BY <2>2, <2>3
  <1>5. QED
    BY <1>1, <1>3, <1>4 DEF CopiesInv

LEMMA CopiesInductive == Spec => []CopiesInv
  <1>1. Init => CopiesInv
    BY DEF Init, CopiesInv, Loaded, HeadFound, NoRaw, NoCk, NoRows, Missing, Ok
  <1>2. TypeOK /\ CopiesInv /\ [Next]_vars => CopiesInv'
    <2> SUFFICES ASSUME TypeOK, CopiesInv, [Next]_vars
                 PROVE  CopiesInv'
      OBVIOUS
    <2> USE DEF Loaded, HeadFound
    <2>1. CASE Start
      <3>1. pc' = "number" /\ pc = "idle" /\ UNCHANGED <<rows, raw, ck, kills>>
        BY <2>1 DEF Start, files
      <3>2. QED
        BY <3>1 DEF CopiesInv
    <2>2. ASSUME NEW n \in Nodes, BlockNumber(n) \/ ResolveHead(n) PROVE CopiesInv'
      <3>1. CASE Leave("not_found") /\ UNCHANGED <<raw, ck, kills>> /\ pc = "resolve"
        BY <3>1, CopiesLeave
      <3>2. CASE pc \in {"number", "resolve"} /\ pc' \in {"resolve", "head_ts"}
                 /\ UNCHANGED <<rows, raw, ck, kills>>
        BY <3>2 DEF CopiesInv
      <3>3. QED
        BY <2>2, <3>1, <3>2 DEF BlockNumber, ResolveHead, memory, files, history
    <2>3. ASSUME NEW n \in Nodes, HeadTimestamp(n) \/ StampBlocks(n) PROVE CopiesInv'
      <3>1. UNCHANGED <<raw, ck, kills>> /\ pc \in {"head_ts", "stamp"}
        BY <2>3 DEF HeadTimestamp, StampBlocks, files, history
      <3>2. CASE Leave("not_found")
        BY <3>1, <3>2, CopiesLeave
      <3>3. CASE HeadTimestamp(n) /\ pc' = "load" /\ UNCHANGED memory
        BY <3>1, <3>3, CopiesQuiet DEF HeadTimestamp
      <3>4. CASE StampBlocks(n) /\ pc' = "publish" /\ UNCHANGED memory
        BY <3>1, <3>4, CopiesQuiet DEF StampBlocks
      <3>5. QED
        BY <2>3, <3>2, <3>3, <3>4 DEF HeadTimestamp, StampBlocks
    <2>4. CASE Load
      <3>1. UNCHANGED <<raw, ck, kills>> /\ pc = "load"
        BY <2>4 DEF Load, files, history
      <3>2. CASE cursor' = start /\ rows' = NoRows /\ pc' = "page" /\ head' = head
        <4>1. ~(cursor' > head') /\ kills \in Nat
          BY <3>2, StartBeforeHead DEF TypeOK
        <4>2. \A l \in Logs : rows'[l] = 0
          BY <3>2 DEF NoRows
        <4>3. QED
          BY <3>1, <3>2, <4>1, <4>2 DEF CopiesInv
      <3>3. CASE /\ ck.st = Ok /\ raw.st = Ok
                 /\ cursor' = ck.cursor /\ rows' = raw.rows /\ pc' = "page"
        BY <3>1, <3>3 DEF CopiesInv
      <3>4. CASE Leave("bad_file")
        BY <3>1, <3>4, CopiesLeave
      <3>5. QED
        BY <2>4, <3>2, <3>3, <3>4 DEF Load
    <2>5. ASSUME NEW n \in Nodes, FetchPage(n) PROVE CopiesInv'
      <3>1. /\ UNCHANGED <<raw, ck, kills, head>> /\ pc = "page"
            /\ pc' \in {"page", "flush"} /\ (pc' = "page" => ~(cursor' > head))
        BY <2>5 DEF FetchPage, FlushDue, files, history
      <3>2. kills \in Nat
        BY DEF TypeOK
      <3>3. ASSUME NEW l \in Logs
            PROVE  rows'[l] <= 1 + kills /\ (l.block >= cursor' => rows'[l] <= kills)
        <4>1. /\ rows[l] \in Nat /\ l.block \in Nat /\ cursor \in Int
              /\ cursor' \in Int /\ cursor' > cursor
          BY <2>5, AppendAdds
        <4>2. rows[l] <= 1 + kills /\ (l.block >= cursor => rows[l] <= kills)
          BY <3>1 DEF CopiesInv
        <4>3. CASE rows'[l] = rows[l]
          BY <4>1, <4>2, <4>3
        <4>4. CASE rows'[l] = rows[l] + 1 /\ cursor <= l.block /\ l.block < cursor'
          BY <3>2, <4>1, <4>2, <4>4
        <4>5. QED
          BY <2>5, <4>3, <4>4, AppendAdds
      <3>4. QED
        BY <3>1, <3>3 DEF CopiesInv
    <2>6. CASE FlushRaw
      <3>1. UNCHANGED <<rows, cursor, head, ck, kills>> /\ pc = "flush" /\ pc' = "checkpoint"
            /\ raw' = RawFile /\ RawFile' = RawFile /\ raw'.rows = rows
        BY <2>6 DEF FlushRaw, RawFile, memory, history
      <3>2. QED
        BY <3>1 DEF CopiesInv
    <2>7. CASE FlushCheckpoint
      <3>1. /\ UNCHANGED <<rows, cursor, head, raw, kills>> /\ pc = "checkpoint" /\ pc' = "page"
            /\ ck'.st = Ok /\ ck'.cursor = cursor /\ raw.rows = rows
        BY <2>7 DEF FlushCheckpoint, CopiesInv, CkFile, RawFile, memory, history
      <3>2. QED
        BY <3>1 DEF CopiesInv
    <2>8. CASE FinalRaw
      <3>1. /\ UNCHANGED <<rows, cursor, head, ck, kills>> /\ pc = "page" /\ pc' = "check"
            /\ raw'.rows = rows /\ cursor > head
        BY <2>8 DEF FinalRaw, RawFile, memory, history
      <3>2. QED
        BY <3>1 DEF CopiesInv
    <2>9. CASE CheckSwaps
      <3>1. UNCHANGED <<raw, ck, kills>> /\ pc = "check"
        BY <2>9 DEF CheckSwaps, files, history
      <3>2. CASE pc' = "stamp" /\ UNCHANGED memory
        BY <3>1, <3>2, CopiesQuiet
      <3>3. CASE Leave("abort")
        BY <3>1, <3>3, CopiesLeave
      <3>4. QED
        BY <2>9, <3>2, <3>3 DEF CheckSwaps
    <2>10. CASE Publish
      BY <2>10, CopiesLeave DEF Publish, history
    <2>11. CASE RpcGivesUp
      BY <2>11, CopiesLeave DEF RpcGivesUp, files, history
    <2>12. CASE Kill
      <3>1. /\ raw' = raw \/ (raw'.st = Torn /\ raw'.rows = NoRows)
            /\ ck' = ck \/ ck'.st = Torn
        BY <2>12 DEF Kill, files, NoRaw, NoCk
      <3>2. QED
        BY <2>12, <3>1, CopiesLeave DEF Kill
    <2>13. CASE UNCHANGED vars \/ \E n \in Nodes : Advance(n)
      <3>1. UNCHANGED <<pc, memory, raw, ck, kills>>
        BY <2>13 DEF vars, Advance, files, history
      <3>2. QED
        BY <3>1 DEF CopiesInv, RawFile, memory
    <2>14. QED
      BY <2>1, <2>2, <2>3, <2>4, <2>5, <2>6, <2>7, <2>8, <2>9, <2>10, <2>11, <2>12, <2>13
      DEF Next, RunStep, NodeStep, LocalStep
  <1>3. QED
    BY <1>1, <1>2, Typing, PTL DEF Spec

\* However often the scan is killed and resumed, a log stands in the file at most
\* once more than there were kills; without one, at most once.
THEOREM CopiesAreBounded == Spec => []CopiesBounded
  <1>1. CopiesInv => CopiesBounded
    BY DEF CopiesInv, CopiesBounded
  <1>2. QED
    BY <1>1, CopiesInductive, PTL

-----------------------------------------------------------------------------
(* The published list is exactly that of the window. *)

\* A day is longer than the lag: the head a run settles on cannot fall back into
\* the day before one that an earlier run has already scanned.
DayBeyondLag == Lag < BlocksPerDay

\* Where a window of fewer days ends.
LEMMA DaysApart ==
    ASSUME NEW m \in Nat, NEW d \in Nat, NEW b \in Nat,
           m * b <= d * b + Lag, Lag < b
    PROVE  m * b <= d * b
  <1>1. CASE m <= d
    <2>1. (d - m) * b >= 0 /\ d - m \in Nat
      BY <1>1
    <2>2. (d - m) * b = d * b - m * b
      OBVIOUS
    <2>3. m * b \in Nat /\ d * b \in Nat
      OBVIOUS
    <2>4. QED
      BY <2>1, <2>2, <2>3
  <1>2. CASE m > d
    <2> DEFINE k == m - d - 1
    <2>1. k \in Nat /\ k * b >= 0
      BY <1>2
    <2>2. m * b = k * b + d * b + b
      OBVIOUS
    <2>3. k * b \in Nat /\ d * b \in Nat
      BY <2>1
    <2>4. QED
      BY <2>1, <2>2, <2>3
  <1>3. QED
    BY <1>1, <1>2

LEMMA DaysAreNat ==
    ASSUME TypeOK
    PROVE  /\ days \in Nat /\ days \in DaysSet \cup {0}
           /\ head \in Int /\ cursor \in Int /\ start \in Int
           /\ head = start + days * BlocksPerDay
  BY StartBeforeHead DEF TypeOK, start

\* The files and the nodes keep what FitsDays says of them.
LEMMA FitsKept ==
    ASSUME TypeOK, [Next]_vars, raw' = raw, ck' = ck, NEW m \in Nat, FitsDays(m),
           pc' \in Looking => pc \in Looking /\ head' = head
    PROVE  FitsDays(m)'
  <1> DEFINE end == ck.start + m * BlocksPerDay
  <1>1. end \in Int
    BY DEF TypeOK
  <1>2. Within(raw.rows, ck.start, end)'
    BY DEF FitsDays, Within
  <1>3. \A n \in Nodes : end <= tip'[n]
    BY <1>1, TipsGrow DEF FitsDays
  <1>4. pc' \in Looking => end <= head' + Lag
    BY DEF FitsDays
  <1>5. QED
    BY <1>2, <1>3, <1>4 DEF FitsDays

\* The files written by a run fit the window that the run scans.
LEMMA FitsWritten ==
    ASSUME TypeOK, HeadServedByAll, pc \in Loaded, Within(rows, start, head),
           UNCHANGED <<tip, days, head>>, raw'.rows = rows, ck'.start = start
    PROVE  FitsDays(days)'
  <1>1. ck'.start + days * BlocksPerDay = head /\ head \in Int
    BY DaysAreNat
  <1>2. Within(raw.rows, ck.start, ck.start + days * BlocksPerDay)'
    BY <1>1 DEF Within
  <1>3. \A n \in Nodes : head <= tip[n]
    BY DEF HeadServedByAll, Serves, Loaded
  <1>4. QED
    BY <1>1, <1>2, <1>3 DEF FitsDays

\* The window of the files on record, with the days that fit it.
FilesFit == \E m \in DaysSet \cup {0} : FitsDays(m)

LEMMA FilesFitKept ==
    ASSUME TypeOK, [Next]_vars, raw' = raw, ck' = ck, FilesFit,
           pc' \in Looking => pc \in Looking /\ head' = head
    PROVE  FilesFit'
  <1>1. PICK m \in DaysSet \cup {0} : FitsDays(m)
    BY DEF FilesFit
  <1>2. m \in Nat
    OBVIOUS
  <1>3. FitsDays(m)'
    BY <1>1, <1>2, FitsKept
  <1>4. QED
    BY <1>3 DEF FilesFit

\* A step that leaves the rows, the cursor and the files of a run alone.
LEMMA WindowQuiet ==
    ASSUME TypeOK, [Next]_vars, WindowInv,
           UNCHANGED <<days, head, cursor, rows, lin, raw, ck>>, PublishedExact',
           pc' \in Loaded => pc \in Loaded,
           pc' \in Looking => pc \in Looking
    PROVE  WindowInv'
  <1>1. start' = start
    BY DEF start
  <1>2. FilesFit => FilesFit'
    BY FilesFitKept
  <1>3. QED
    BY <1>1, <1>2 DEF WindowInv, Within, FilesFit

\* A run that ends leaves files that were already there, or a torn one.
LEMMA WindowLeave ==
    ASSUME TypeOK, [Next]_vars, WindowInv, NEW code, Leave(code),
           raw' = raw \/ raw'.st = Torn,
           ck' = ck \/ ck'.st = Torn,
           PublishedExact'
    PROVE  WindowInv'
  <1>1. pc' \notin Loaded /\ pc' \notin Looking
    BY LeavePhase
  <1>2. raw' = raw /\ ck' = ck /\ FilesFit => FilesFit'
    BY <1>1, FilesFitKept
  <1>3. QED
    BY <1>1, <1>2 DEF WindowInv, FilesFit, Torn, Ok

\* Only Publish, or a kill that tears it, touches the published list.
LEMMA PublishedKept ==
    ASSUME PublishedExact, changes' = changes \/ changes'.st = Torn
    PROVE  PublishedExact'
  BY DEF PublishedExact, Torn, Ok

LEMMA WindowInductive == Settled /\ DayBeyondLag => (Spec => []WindowInv)
  <1> SUFFICES ASSUME Settled, DayBeyondLag PROVE Spec => []WindowInv
    OBVIOUS
  <1>1. Init => WindowInv
    BY DEF Init, WindowInv, PublishedExact, Loaded, HeadFound, NoRaw, NoCk, NoChanges, Missing, Ok
  <1>2. TypeOK /\ MarginInv /\ HeadServedByAll /\ CoverInv /\ WindowInv /\ [Next]_vars
            => WindowInv'
    <2> SUFFICES ASSUME TypeOK, MarginInv, HeadServedByAll, CoverInv, WindowInv, [Next]_vars
                 PROVE  WindowInv'
      OBVIOUS
    <2> USE DEF Loaded, HeadFound, Looking
    <2>0. PublishedExact
      BY DEF WindowInv
    <2>1. CASE Start
      <3>1. pc' = "number" /\ UNCHANGED <<raw, ck, changes>>
        BY <2>1 DEF Start, files
      <3>2. FilesFit => FilesFit'
        BY <3>1, FilesFitKept
      <3>3. QED
        BY <2>0, <3>1, <3>2, PublishedKept DEF WindowInv, FilesFit
    <2>2. ASSUME NEW n \in Nodes, BlockNumber(n) PROVE WindowInv'
      <3>1. pc' = "resolve" /\ UNCHANGED <<tip, raw, ck, changes>> /\ head' = tip[n] - Lag
        BY <2>2 DEF BlockNumber, HeadCandidate, files
      <3>2. ASSUME NEW m \in DaysSet \cup {0}, FitsDays(m) PROVE FitsDays(m)'
        <4>1. ck.start + m * BlocksPerDay \in Int /\ tip[n] \in Int
          BY DEF TypeOK, PoolTypeOK
        <4>2. ck.start + m * BlocksPerDay <= head' + Lag
          BY <3>1, <3>2, <4>1 DEF FitsDays
        <4>3. QED
          BY <3>1, <3>2, <4>2 DEF FitsDays, Within
      <3>3. QED
        BY <2>0, <3>1, <3>2, PublishedKept DEF WindowInv
    <2>3. ASSUME NEW n \in Nodes, ResolveHead(n) PROVE WindowInv'
      <3>1. Serves(n, head)
        <4>1. tip[n] >= head + Lag - Skew /\ tip[n] \in Int /\ head \in Int
          BY <2>3 DEF ResolveHead, MarginInv, TypeOK, PoolTypeOK
        <4>2. QED
          BY <4>1 DEF Settled, Serves
      <3>2. pc = "resolve" /\ pc' = "head_ts" /\ UNCHANGED <<memory, raw, ck, changes>>
        BY <2>3, <3>1 DEF ResolveHead, files
      <3>3. QED
        BY <2>0, <3>2, WindowQuiet, PublishedKept DEF memory
    <2>4. ASSUME NEW n \in Nodes, HeadTimestamp(n) \/ StampBlocks(n) PROVE WindowInv'
      <3>1. UNCHANGED <<raw, ck, changes>>
        BY <2>4 DEF HeadTimestamp, StampBlocks, files
      <3>2. CASE Leave("not_found")
        BY <2>0, <3>1, <3>2, WindowLeave, PublishedKept
      <3>3. CASE pc = "head_ts" /\ pc' = "load" /\ UNCHANGED memory
        BY <2>0, <3>1, <3>3, WindowQuiet, PublishedKept DEF memory
      <3>4. CASE pc = "stamp" /\ pc' = "publish" /\ UNCHANGED memory
        BY <2>0, <3>1, <3>4, WindowQuiet, PublishedKept DEF memory
      <3>5. QED
        BY <2>4, <3>2, <3>3, <3>4 DEF HeadTimestamp, StampBlocks
    <2>5. CASE Load
      <3>1. UNCHANGED <<raw, ck, changes>> /\ pc = "load"
        BY <2>5 DEF Load, files
      <3>2. FilesFit /\ head' = head => FilesFit'
        BY <3>1, FilesFitKept
      <3>3. CASE /\ cursor' = start /\ rows' = NoRows /\ pc' = "page"
                 /\ UNCHANGED <<days, head>>
        <4>1. start' = start /\ start \in Int
          BY <3>3, DaysAreNat DEF start
        <4>2. Within(rows, start, head)'
          BY <3>3 DEF Within, NoRows
        <4>3. QED
          BY <2>0, <3>1, <3>2, <3>3, <4>1, <4>2, PublishedKept DEF WindowInv, FilesFit
      <3>4. CASE /\ ck.st = Ok /\ SameStart /\ raw.st = Ok
                 /\ cursor' = ck.cursor /\ rows' = raw.rows /\ lin' = Lineage
                 /\ pc' = "page" /\ UNCHANGED <<days, head>>
        <4>1. start' = start /\ ck.start = start
          BY <3>4 DEF start, SameStart
        <4>2. ASSUME lin' # 0 PROVE Within(raw.rows, start, head)
          <5>1. raw.lin = ck.lin /\ ck.lin # 0
            BY <3>4, <4>2 DEF Lineage
          <5>2. PICK m \in DaysSet \cup {0} : FitsDays(m)
            BY <3>4, <5>1 DEF WindowInv
          <5> DEFINE end == start + m * BlocksPerDay
          <5>3. end <= head + Lag /\ Within(raw.rows, start, end)
            BY <3>1, <4>1, <5>2 DEF FitsDays
          <5>4. /\ m \in Nat /\ days \in Nat /\ start \in Int /\ head \in Int
                /\ head = start + days * BlocksPerDay
            BY DaysAreNat
          <5>5. m * BlocksPerDay \in Nat /\ days * BlocksPerDay \in Nat
            BY <5>4
          <5>6. m * BlocksPerDay <= days * BlocksPerDay + Lag
            BY <5>3, <5>4, <5>5
          <5>7. m * BlocksPerDay <= days * BlocksPerDay
            BY <5>4, <5>6, DaysApart DEF DayBeyondLag
          <5>8. end <= head /\ end \in Int
            BY <5>4, <5>5, <5>7
          <5>9. ASSUME NEW l \in Logs, raw.rows[l] > 0 PROVE l.block \in start..head
            <6>1. l.block \in start..end
              BY <5>3, <5>9 DEF Within
            <6>2. QED
              BY <5>4, <5>8, <6>1
          <5>10. QED
            BY <5>9 DEF Within
        <4>3. QED
          BY <2>0, <3>1, <3>2, <3>4, <4>1, <4>2, PublishedKept
          DEF WindowInv, FilesFit, Within
      <3>5. CASE Leave("bad_file")
        BY <2>0, <3>1, <3>5, WindowLeave, PublishedKept
      <3>6. QED
        BY <2>5, <3>3, <3>4, <3>5 DEF Load
    <2>6. ASSUME NEW n \in Nodes, FetchPage(n) PROVE WindowInv'
      <3>1. /\ UNCHANGED <<lin, raw, ck, changes, days, head>> /\ start' = start
            /\ pc = "page" /\ pc' \in {"page", "flush"}
        BY <2>6 DEF FetchPage, start, files
      <3>2. cursor >= start /\ (lin # 0 => Within(rows, start, head))
        BY <3>1 DEF WindowInv
      <3>3. start \in Int /\ cursor \in Int /\ head \in Int
        BY DaysAreNat
      <3>4. cursor' \in Int /\ cursor' > cursor
        BY <2>6, <3>3 DEF FetchPage, PageEnd, NextCursor
      <3>5. ASSUME lin # 0, NEW l \in Logs, rows'[l] > 0
            PROVE  l.block \in start..head
        <4>1. /\ rows[l] \in Nat /\ l.block \in Nat
              /\ cursor' <= head + 1 /\ cursor' \in Int
          BY <2>6, AppendAdds
        <4>2. CASE rows[l] > 0
          BY <3>2, <3>5, <4>2 DEF Within
        <4>3. CASE cursor <= l.block /\ l.block < cursor'
          BY <3>2, <3>3, <4>1, <4>3
        <4>4. QED
          BY <2>6, <3>5, <4>1, <4>2, <4>3, AppendAdds
      <3>6. FilesFit => FilesFit'
        BY <3>1, FilesFitKept
      <3>7. cursor' >= start
        BY <3>2, <3>3, <3>4
      <3>8. (lin # 0) => Within(rows, start, head)'
        BY <3>1, <3>5 DEF Within
      <3>9. QED
        BY <2>0, <3>1, <3>6, <3>7, <3>8, PublishedKept DEF WindowInv, FilesFit
    <2>7. CASE FlushRaw \/ FinalRaw
      <3>1. /\ UNCHANGED <<tip, memory, ck, changes>> /\ start' = start
            /\ pc \in Loaded /\ pc' \in {"checkpoint", "check"}
            /\ raw'.rows = rows /\ raw'.lin = lin
        BY <2>7 DEF FlushRaw, FinalRaw, RawFile, memory, start
      <3>2. ASSUME ck.st = Ok, lin = ck.lin, ck.lin # 0 PROVE FilesFit'
        <4>1. ck.start = start /\ Within(rows, start, head)
          BY <3>1, <3>2 DEF CoverInv, WindowInv
        <4>2. FitsDays(days)'
          BY <3>1, <4>1, FitsWritten DEF memory
        <4>3. days \in DaysSet \cup {0} /\ days' = days
          BY <3>1, DaysAreNat DEF memory
        <4>4. QED
          BY <4>2, <4>3 DEF FilesFit, FitsDays
      <3>3. QED
        BY <2>0, <3>1, <3>2, PublishedKept DEF WindowInv, FilesFit, Within, memory
    <2>8. CASE FlushCheckpoint
      <3>1. /\ UNCHANGED <<tip, memory, raw, changes>> /\ start' = start
            /\ pc = "checkpoint" /\ pc' = "page"
            /\ raw.rows = rows /\ raw.lin = lin
            /\ ck'.start = start /\ ck'.cursor = cursor /\ ck'.lin = lin
        BY <2>8 DEF FlushCheckpoint, CoverInv, RawFile, CkFile, memory, start
      <3>2. ASSUME lin # 0 PROVE FilesFit'
        <4>1. Within(rows, start, head)
          BY <3>1, <3>2 DEF WindowInv
        <4>2. FitsDays(days)'
          BY <3>1, <4>1, FitsWritten DEF memory
        <4>3. days \in DaysSet \cup {0} /\ days' = days
          BY <3>1, DaysAreNat DEF memory
        <4>4. QED
          BY <4>2, <4>3 DEF FilesFit, FitsDays
      <3>3. QED
        BY <2>0, <3>1, <3>2, PublishedKept DEF WindowInv, FilesFit, Within, memory
    <2>9. CASE CheckSwaps
      <3>1. UNCHANGED <<raw, ck, changes>> /\ pc = "check"
        BY <2>9 DEF CheckSwaps, files
      <3>2. CASE pc' = "stamp" /\ UNCHANGED memory
        BY <2>0, <3>1, <3>2, WindowQuiet, PublishedKept DEF memory
      <3>3. CASE Leave("abort")
        BY <2>0, <3>1, <3>3, WindowLeave, PublishedKept
      <3>4. QED
        BY <2>9, <3>2, <3>3 DEF CheckSwaps
    <2>10. CASE Publish
      <3>1. UNCHANGED <<raw, ck>> /\ pc = "publish" /\ changes' = ChangesFile
            /\ Leave("published")
        BY <2>10 DEF Publish
      <3>2. ASSUME lin # 0 PROVE {l \in Logs : rows[l] > 0} = LogsIn(start, head)
        <4>1. Covers(rows, start, cursor) /\ cursor > head /\ Within(rows, start, head)
          BY <3>1, <3>2 DEF CoverInv, WindowInv
        <4>2. start \in Int /\ cursor \in Int /\ head \in Int
          BY DaysAreNat
        <4>3. ASSUME NEW l \in Logs, l.block \in start..head PROVE rows[l] > 0
          BY <4>1, <4>2, <4>3 DEF Covers
        <4>4. QED
          BY <4>1, <4>3 DEF LogsIn, Within
      <3>3. PublishedExact'
        BY <3>1, <3>2 DEF PublishedExact, ChangesFile, Points
      <3>4. QED
        BY <3>1, <3>3, WindowLeave
    <2>11. CASE RpcGivesUp
      BY <2>0, <2>11, WindowLeave, PublishedKept DEF RpcGivesUp, files
    <2>12. CASE Kill
      <3>1. /\ raw' = raw \/ raw'.st = Torn
            /\ ck' = ck \/ ck'.st = Torn
            /\ changes' = changes \/ changes'.st = Torn
        BY <2>12 DEF Kill, files, NoRaw, NoCk, NoChanges
      <3>2. QED
        BY <2>0, <2>12, <3>1, WindowLeave, PublishedKept DEF Kill
    <2>13. CASE UNCHANGED vars \/ \E n \in Nodes : Advance(n)
      <3>1. UNCHANGED <<pc, memory, raw, ck, changes>>
        BY <2>13 DEF vars, Advance, files
      <3>2. QED
        BY <2>0, <3>1, WindowQuiet, PublishedKept DEF memory
    <2>14. QED
      BY <2>1, <2>2, <2>3, <2>4, <2>5, <2>6, <2>7, <2>8, <2>9, <2>10, <2>11, <2>12, <2>13
      DEF Next, RunStep, NodeStep, LocalStep
  <1>3. QED
    BY <1>1, <1>2, Typing, MarginInductive, SafeHeadServedByAll, CoverInductive, PTL DEF Spec

\* On a settled pool, and with days longer than the lag, the published list is
\* exactly the price-moving (pool, block) pairs of the window it names, for every
\* chain, page size, number of runs and of kills.
THEOREM ListIsExact == Settled /\ DayBeyondLag => (Spec => []PublishedExact)
  <1> SUFFICES ASSUME Settled, DayBeyondLag PROVE Spec => []PublishedExact
    OBVIOUS
  <1>1. WindowInv => PublishedExact
    BY DEF WindowInv
  <1>2. QED
    BY <1>1, WindowInductive, PTL

-----------------------------------------------------------------------------
(* What is published when nodes are further apart than the lag. *)

\* --days is the same in all runs.
OneWindow == \A d, e \in DaysSet : d = e

\* A step that leaves the run and its files alone, but for the phase.
LEMMA SettledPartQuiet ==
    ASSUME TypeOK, SettledPartInv, PublishedSettledPart',
           UNCHANGED <<days, head, cursor, rows, lin, raw, ck>>,
           pc' # "idle" => pc # "idle",
           pc' \in Loaded => pc \in Loaded,
           pc' # "checkpoint" \/ pc = "checkpoint",
           pc' \in {"check", "stamp", "publish"} => pc \in {"check", "stamp", "publish"}
    PROVE  SettledPartInv'
  <1>1. start' = start /\ RawFile' = RawFile
    BY DEF start, RawFile
  <1>2. QED
    BY <1>1 DEF SettledPartInv, CoversSettled

\* A run that ends leaves files that were already there, or a torn one.
LEMMA SettledPartLeave ==
    ASSUME TypeOK, SettledPartInv, PublishedSettledPart', NEW code, Leave(code),
           raw' = raw \/ raw'.st = Torn,
           ck' = ck \/ ck'.st = Torn
    PROVE  SettledPartInv'
  <1>1. pc' = "idle" /\ pc' \notin Loaded
    BY LeavePhase
  <1>2. QED
    BY <1>1 DEF SettledPartInv, CoversSettled, Torn, Ok

LEMMA SettledPartKept ==
    ASSUME PublishedSettledPart, changes' = changes \/ changes'.st = Torn
    PROVE  PublishedSettledPart'
  BY DEF PublishedSettledPart, Torn, Ok

LEMMA SettledPartInductive == OneWindow /\ Lag <= Skew => (Spec => []SettledPartInv)
  <1> SUFFICES ASSUME OneWindow, Lag <= Skew PROVE Spec => []SettledPartInv
    OBVIOUS
  <1>1. Init => SettledPartInv
    BY DEF Init, SettledPartInv, PublishedSettledPart, Loaded, HeadFound, NoRaw, NoCk,
           NoChanges, Missing, Ok
  <1>2. TypeOK /\ HeadMargin /\ LineageInv /\ SettledPartInv /\ [Next]_vars => SettledPartInv'
    <2> SUFFICES ASSUME TypeOK, HeadMargin, LineageInv, SettledPartInv, [Next]_vars
                 PROVE  SettledPartInv'
      OBVIOUS
    <2> USE DEF Loaded, HeadFound
    <2>0. PublishedSettledPart
      BY DEF SettledPartInv
    <2>1. CASE Start
      <3>1. pc' = "number" /\ days' \in DaysSet /\ UNCHANGED <<raw, ck, changes>>
        BY <2>1 DEF Start, files
      <3>2. QED
        BY <2>0, <3>1, SettledPartKept DEF SettledPartInv, CoversSettled
    <2>2. ASSUME NEW n \in Nodes, BlockNumber(n) \/ ResolveHead(n) PROVE SettledPartInv'
      <3>1. UNCHANGED <<raw, ck, changes>> /\ pc # "idle"
        BY <2>2 DEF BlockNumber, ResolveHead, files
      <3>2. CASE Leave("not_found")
        BY <2>0, <3>1, <3>2, SettledPartLeave, SettledPartKept
      <3>3. CASE pc' \in {"resolve", "head_ts"} /\ days' = days
        BY <2>0, <3>1, <3>3, SettledPartKept DEF SettledPartInv, CoversSettled
      <3>4. QED
        BY <2>2, <3>2, <3>3 DEF BlockNumber, ResolveHead, memory
    <2>3. ASSUME NEW n \in Nodes, HeadTimestamp(n) \/ StampBlocks(n) PROVE SettledPartInv'
      <3>1. UNCHANGED <<raw, ck, changes>> /\ pc # "idle"
        BY <2>3 DEF HeadTimestamp, StampBlocks, files
      <3>2. CASE Leave("not_found")
        BY <2>0, <3>1, <3>2, SettledPartLeave, SettledPartKept
      <3>3. CASE HeadTimestamp(n) /\ pc' = "load" /\ UNCHANGED memory
        BY <2>0, <3>1, <3>3, SettledPartQuiet, SettledPartKept DEF memory
      <3>4. CASE pc = "stamp" /\ pc' = "publish" /\ UNCHANGED memory
        BY <2>0, <3>1, <3>4, SettledPartQuiet, SettledPartKept DEF memory
      <3>5. QED
        BY <2>3, <3>2, <3>3, <3>4 DEF HeadTimestamp, StampBlocks
    <2>4. CASE Load
      <3>1. UNCHANGED <<raw, ck, changes>> /\ pc = "load"
        BY <2>4 DEF Load, files
      <3>2. CASE /\ cursor' = start /\ rows' = NoRows /\ lin' = runs /\ pc' = "page"
                 /\ UNCHANGED <<days, head>>
        <4>1. ck.lin < runs /\ start' = start
          BY <3>1, <3>2 DEF LineageInv, start
        <4>2. start \in Int /\ ck.lin \in Nat /\ runs \in Nat
          BY DEF TypeOK, start
        <4>3. CoversSettled(rows, start, cursor, head)'
          BY <3>2, <4>1, <4>2 DEF CoversSettled
        <4>4. QED
          BY <2>0, <3>1, <3>2, <4>1, <4>2, <4>3, SettledPartKept
          DEF SettledPartInv, CoversSettled
      <3>3. CASE /\ ck.st = Ok /\ SameStart /\ raw.st = Ok
                 /\ cursor' = ck.cursor /\ rows' = raw.rows /\ lin' = Lineage
                 /\ pc' = "page" /\ UNCHANGED <<days, head>>
        <4>1. start' = start /\ ck.start = start /\ ck.cursor \in Int
          BY <3>3 DEF start, SameStart, TypeOK
        <4>2. ck.head = head
          <5>1. PICK d \in DaysSet : ck.head = ck.start + d * BlocksPerDay
            BY <3>3 DEF SettledPartInv
          <5>2. days = d
            BY <3>1 DEF SettledPartInv, OneWindow
          <5>3. QED
            BY <4>1, <5>1, <5>2, DaysAreNat
        <4>3. lin' # 0 => CoversSettled(raw.rows, ck.start, ck.cursor, ck.head)
          BY <3>3 DEF SettledPartInv, Lineage
        <4>4. QED
          BY <2>0, <3>1, <3>3, <4>1, <4>2, <4>3, SettledPartKept
          DEF SettledPartInv, CoversSettled
      <3>4. CASE Leave("bad_file")
        BY <2>0, <3>1, <3>4, SettledPartLeave, SettledPartKept
      <3>5. QED
        BY <2>4, <3>2, <3>3, <3>4 DEF Load
    <2>5. ASSUME NEW n \in Nodes, FetchPage(n) PROVE SettledPartInv'
      <3>1. /\ UNCHANGED <<lin, raw, ck, changes, days, head>> /\ start' = start
            /\ pc = "page" /\ pc' \in {"page", "flush"}
        BY <2>5 DEF FetchPage, start, files
      <3>2. start \in Int /\ cursor \in Int /\ head \in Int /\ ck.cursor \in Int
        BY DEF TypeOK, start
      <3>3. cursor' \in Int /\ cursor' > cursor
        BY <2>5, <3>2 DEF FetchPage, PageEnd, NextCursor
      <3>4. ASSUME lin # 0, NEW l \in Logs,
                   l.block \in start..(cursor' - 1), l.block <= head + Lag - Skew
            PROVE  rows'[l] > 0
        <4>1. rows[l] \in Nat /\ l.block \in Nat /\ tip[n] \in Int
          BY <2>5, AppendAdds
        <4>2. CASE l.block < cursor
          <5>1. rows[l] > 0
            BY <3>1, <3>2, <3>3, <3>4, <4>1, <4>2 DEF SettledPartInv, CoversSettled
          <5>2. QED
            BY <2>5, <4>1, <5>1, AppendAdds
        <4>3. CASE cursor <= l.block
          <5>1. tip[n] >= head + Lag - Skew
            BY <3>1 DEF HeadMargin
          <5>2. Serves(n, l.block)
            BY <3>2, <3>4, <4>1, <5>1 DEF Serves
          <5>3. l.block < cursor'
            BY <3>3, <3>4, <4>1
          <5>4. QED
            BY <2>5, <4>1, <4>3, <5>2, <5>3, AppendAdds
        <4>4. QED
          BY <3>2, <4>1, <4>2, <4>3
      <3>5. lin # 0 => CoversSettled(rows, start, cursor, head)'
        BY <3>1, <3>4 DEF CoversSettled
      <3>6. lin # 0 /\ ck.st = Ok /\ ck.lin = lin =>
                ck.start = start /\ ck.cursor <= cursor' /\ ck.head = head
        BY <3>1, <3>2, <3>3 DEF SettledPartInv
      <3>7. QED
        BY <2>0, <3>1, <3>5, <3>6, SettledPartKept DEF SettledPartInv, CoversSettled
    <2>6. CASE FlushRaw \/ FinalRaw
      <3>1. /\ UNCHANGED <<memory, ck, changes>> /\ raw' = RawFile /\ RawFile' = RawFile
            /\ start' = start /\ pc \in Loaded
            /\ pc' \in {"checkpoint", "check"} /\ (pc' = "check" => cursor > head)
        BY <2>6 DEF FlushRaw, FinalRaw, RawFile, memory, start
      <3>2. raw'.rows = rows /\ raw'.lin = lin
        BY <3>1 DEF RawFile
      <3>3. ASSUME ck.st = Ok, lin = ck.lin, ck.lin # 0
            PROVE  CoversSettled(rows, ck.start, ck.cursor, ck.head)
        <4>1. /\ CoversSettled(rows, start, cursor, head)
              /\ ck.start = start /\ ck.cursor <= cursor /\ ck.head = head
          BY <3>1, <3>3 DEF SettledPartInv
        <4>2. start \in Int /\ cursor \in Int /\ ck.cursor \in Int
          BY DEF TypeOK, start
        <4>3. QED
          BY <4>1, <4>2 DEF CoversSettled
      <3>4. QED
        BY <2>0, <3>1, <3>2, <3>3, SettledPartKept DEF SettledPartInv, CoversSettled, memory
    <2>7. CASE FlushCheckpoint
      <3>1. /\ UNCHANGED <<memory, raw, changes>> /\ start' = start
            /\ pc = "checkpoint" /\ pc' = "page"
            /\ raw.rows = rows /\ raw.lin = lin
            /\ ck'.start = start /\ ck'.cursor = cursor /\ ck'.head = head /\ ck'.lin = lin
        BY <2>7 DEF FlushCheckpoint, SettledPartInv, RawFile, CkFile, memory, start
      <3>2. lin # 0 => CoversSettled(rows, start, cursor, head)
        BY <3>1 DEF SettledPartInv
      <3>3. cursor \in Int /\ days \in DaysSet /\ head = start + days * BlocksPerDay
        BY <3>1, DaysAreNat DEF SettledPartInv
      <3>4. QED
        BY <2>0, <3>1, <3>2, <3>3, SettledPartKept DEF SettledPartInv, CoversSettled, memory
    <2>8. CASE CheckSwaps
      <3>1. UNCHANGED <<raw, ck, changes>> /\ pc = "check"
        BY <2>8 DEF CheckSwaps, files
      <3>2. CASE pc' = "stamp" /\ UNCHANGED memory
        BY <2>0, <3>1, <3>2, SettledPartQuiet, SettledPartKept DEF memory
      <3>3. CASE Leave("abort")
        BY <2>0, <3>1, <3>3, SettledPartLeave, SettledPartKept
      <3>4. QED
        BY <2>8, <3>2, <3>3 DEF CheckSwaps
    <2>9. CASE Publish
      <3>1. UNCHANGED <<raw, ck>> /\ pc = "publish" /\ changes' = ChangesFile
            /\ Leave("published")
        BY <2>9 DEF Publish
      <3>2. ASSUME lin # 0
            PROVE  LogsIn(start, head + Lag - Skew) \subseteq {l \in Logs : rows[l] > 0}
        <4>1. CoversSettled(rows, start, cursor, head) /\ cursor > head
          BY <3>1, <3>2 DEF SettledPartInv
        <4>2. start \in Int /\ cursor \in Int /\ head \in Int
          BY DaysAreNat
        <4>3. ASSUME NEW l \in Logs, l.block \in start..(head + Lag - Skew)
              PROVE  rows[l] > 0
          BY <4>1, <4>2, <4>3 DEF CoversSettled
        <4>4. QED
          BY <4>3 DEF LogsIn
      <3>3. PublishedSettledPart'
        BY <3>1, <3>2 DEF PublishedSettledPart, ChangesFile, Points, PointsOf
      <3>4. QED
        BY <3>1, <3>3, SettledPartLeave
    <2>10. CASE RpcGivesUp
      BY <2>0, <2>10, SettledPartLeave, SettledPartKept DEF RpcGivesUp, files
    <2>11. CASE Kill
      <3>1. /\ raw' = raw \/ raw'.st = Torn
            /\ ck' = ck \/ ck'.st = Torn
            /\ changes' = changes \/ changes'.st = Torn
        BY <2>11 DEF Kill, files, NoRaw, NoCk, NoChanges
      <3>2. QED
        BY <2>0, <2>11, <3>1, SettledPartLeave, SettledPartKept DEF Kill
    <2>12. CASE UNCHANGED vars \/ \E n \in Nodes : Advance(n)
      <3>1. UNCHANGED <<pc, memory, raw, ck, changes>>
        BY <2>12 DEF vars, Advance, files
      <3>2. QED
        BY <2>0, <3>1, SettledPartQuiet, SettledPartKept DEF memory
    <2>13. QED
      BY <2>1, <2>2, <2>3, <2>4, <2>5, <2>6, <2>7, <2>8, <2>9, <2>10, <2>11, <2>12
      DEF Next, RunStep, NodeStep, LocalStep
  <1>3. QED
    BY <1>1, <1>2, Typing, SafeHeadMargin, LineageInductive, PTL DEF Spec

\* With a lag shorter than the skew, and one value of --days, all that can be
\* missing from the list is the last Skew - Lag blocks of its window.
THEOREM OnlyTheTailIsLost == OneWindow /\ Lag <= Skew => (Spec => []PublishedSettledPart)
  <1> SUFFICES ASSUME OneWindow, Lag <= Skew PROVE Spec => []PublishedSettledPart
    OBVIOUS
  <1>1. SettledPartInv => PublishedSettledPart
    BY DEF SettledPartInv
  <1>2. QED
    BY <1>1, SettledPartInductive, PTL

-----------------------------------------------------------------------------
(* A run told not to resume. *)

LEMMA FreshInductive == Spec => []FreshInv
  <1> USE DEF Loaded, HeadFound
  <1>1. Init => FreshInv
    BY DEF Init, FreshInv, FreshRunHeals
  <1>2. TypeOK /\ FreshInv /\ [Next]_vars => FreshInv'
    <2> SUFFICES ASSUME TypeOK, FreshInv, [Next]_vars
                 PROVE  FreshInv'
      OBVIOUS
    <2>1. runs \in Nat /\ cursor \in Int /\ head \in Int
      BY DEF TypeOK
    <2>2. CASE Start
      BY <2>1, <2>2 DEF Start, FreshInv, FreshRunHeals
    <2>3. ASSUME NEW n \in Nodes, NodeStep(n) PROVE FreshInv'
      <3>1. CASE BlockNumber(n)
        BY <3>1 DEF BlockNumber, FreshInv, FreshRunHeals, history
      <3>2. CASE ResolveHead(n) \/ HeadTimestamp(n)
        BY <3>2 DEF ResolveHead, HeadTimestamp, Leave, FreshInv, FreshRunHeals, memory, history
      <3>3. CASE FetchPage(n)
        <4>1. /\ pc = "page" /\ cursor <= head /\ UNCHANGED <<resume, lin, runs, head>>
              /\ pc' = IF FlushDue(page + 1, cursor') THEN "flush" ELSE "page"
          BY <3>3 DEF FetchPage, history
        <4>2. ~(pc' = "page" /\ cursor' > head')
          BY <4>1 DEF FlushDue
        <4>3. QED
          BY <4>1, <4>2 DEF FreshInv, FreshRunHeals
      <3>4. CASE StampBlocks(n)
        BY <3>4 DEF StampBlocks, Leave, FreshInv, FreshRunHeals, RawFile, CkFile, start, memory,
                    files, history
      <3>5. QED
        BY <2>3, <3>1, <3>2, <3>3, <3>4 DEF NodeStep
    <2>4. CASE Load
      <3>1. CASE pc' = "page"
        <4>1. start \in Int /\ start <= head
          BY StartBeforeHead
        <4>2. UNCHANGED <<resume, head, days, runs>> /\ pc = "load"
          BY <2>4, <3>1 DEF Load, Leave, history
        <4>3. CASE resume
          BY <3>1, <4>2, <4>3 DEF FreshInv, FreshRunHeals
        <4>4. CASE ~resume
          <5>1. cursor' = start /\ lin' = runs
            BY <2>4, <3>1, <4>4 DEF Load, Leave, Considered
          <5>2. QED
            BY <2>1, <3>1, <4>1, <4>2, <5>1 DEF FreshInv, FreshRunHeals
        <4>5. QED
          BY <4>3, <4>4
      <3>2. CASE pc' # "page"
        <4>1. pc' = "idle"
          BY <2>4, <3>2 DEF Load, Leave
        <4>2. QED
          BY <4>1 DEF FreshInv, FreshRunHeals
      <3>3. QED
        BY <3>1, <3>2
    <2>5. CASE FlushRaw
      BY <2>5 DEF FlushRaw, FreshInv, FreshRunHeals, RawFile, memory, history
    <2>6. CASE FlushCheckpoint
      BY <2>6 DEF FlushCheckpoint, FreshInv, FreshRunHeals, CkFile, start, memory, history
    <2>7. CASE FinalRaw
      BY <2>7 DEF FinalRaw, FreshInv, FreshRunHeals, RawFile, CkFile, start, memory, history
    <2>8. CASE CheckSwaps
      BY <2>8 DEF CheckSwaps, Leave, FreshInv, FreshRunHeals, RawFile, CkFile, start, memory,
                  files, history
    <2>9. CASE Publish \/ RpcGivesUp \/ Kill
      <3>1. pc' = "idle"
        BY <2>9 DEF Publish, RpcGivesUp, Kill, Leave
      <3>2. QED
        BY <3>1 DEF FreshInv, FreshRunHeals
    <2>10. CASE UNCHANGED vars \/ \E n \in Nodes : Advance(n)
      BY <2>10 DEF vars, Advance, FreshInv, FreshRunHeals, RawFile, CkFile, start, memory, files,
                   history
    <2>11. QED
      BY <2>2, <2>3, <2>4, <2>5, <2>6, <2>7, <2>8, <2>9, <2>10 DEF Next, RunStep, LocalStep
  <1>3. QED
    BY <1>1, <1>2, Typing, PTL DEF Spec

\* Whatever is on file when it begins, a run that does not resume leaves both files
\* in order before it checks, stamps and publishes.
THEOREM FreshRunHealsFiles == Spec => []FreshRunHeals
  <1>1. FreshInv => FreshRunHeals
    BY DEF FreshInv
  <1>2. QED
    BY <1>1, FreshInductive, PTL

=============================================================================
