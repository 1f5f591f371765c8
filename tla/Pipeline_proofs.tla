---------------------------- MODULE Pipeline_proofs ----------------------------
(***************************************************************************)
(* What the README's order of the stages is worth, for any number of       *)
(* months, runs and other orders in between.                               *)
(*                                                                         *)
(* In that order the files are written one after the other, raw_logs twice.*)
(* Rank is the place at which a file is first written, Here that of the    *)
(* next one; the files of this month are those ranked before it.           *)
(***************************************************************************)
EXTENDS Pipeline, FiniteSetTheorems, TLAPS

Rank(a) ==
    CASE a = "raw_logs" -> 1 [] a = "checkpoint" -> 2 [] a = "state_changes" -> 4
      [] a = "parts" -> 5 [] a = "dex_quotes" -> 6 [] a = "bybit_quotes" -> 7
      [] a = "bybit_book" -> 8 [] a = "swaps_decoded" -> 9 [] a = "attribution" -> 10
      [] a = "opportunities" -> 11 [] a = "intervals" -> 12 [] a = "report" -> 13

First == <<1, 5, 7, 9, 11, 13, 14>>

Here == First[at] + (k - 1)

Made == {a \in Files : Rank(a) < Here}

Place ==
    /\ at \in 1..7
    /\ stage # "none" => /\ at # 7 /\ stage = Documented[at]
                         /\ k \in 1..(Len(Plan[stage]) + 1)

\* Reads, where swaps have been decoded.
MadeFrom(a) ==
    CASE a = "state_changes" -> {"raw_logs"}
      [] a = "parts"         -> {"state_changes"}
      [] a = "dex_quotes"    -> {"parts"}
      [] a = "opportunities" -> ForOpportunities
      [] a = "intervals"     -> ForOpportunities
      [] a = "swaps_decoded" -> ForSwaps
      [] a = "attribution"   -> ForAttribution
      [] a = "report"        -> ForHurdle \cup {"intervals", "bybit_quotes", "swaps_decoded",
                                                "opportunities"}
      [] OTHER -> {}

\* Of an earlier month there is only what the parts have kept.
FromParts(a, x) == ~(x.run < began) \/ (4 < Rank(a) /\ x \in file["parts"].basis)

\* The files of this month are whole and rest on each other, as they are now.
Fresh ==
    \A a \in Made :
        /\ file[a].is = "whole"
        /\ \A x \in file[a].basis : FromParts(a, x)
        /\ a \notin {"raw_logs", "parts"}
           => file[a].basis = {[name |-> a, run |-> file[a].run]}
                                  \cup UNION {file[b].basis : b \in MadeFrom(a)}

\* The rows a checkpoint may fit are of this month.
FittingRows == MayFit => \A x \in file["raw_logs"].basis : ~(x.run < began)

MonthInv == order = Documented => Place /\ Fresh /\ FittingRows /\ broke \notin Stages

Counters ==
    /\ runs \in Nat /\ began \in Nat /\ began <= runs + 1
    /\ stage = "none" => k = 1
    /\ stage # "none" => began <= runs

FilesTyped == DOMAIN file = Files

\* What the rows that are kept from run to run may rest on, in any order.
OwnRows ==
    /\ file["checkpoint"].run \in Nat /\ file["checkpoint"].run <= runs
    /\ \A x \in file["raw_logs"].basis : x.name = "raw_logs"
    /\ \A x \in file["state_changes"].basis : x.name \in {"raw_logs", "state_changes"}
    /\ \A x \in file["parts"].basis : x.name \in {"raw_logs", "state_changes", "parts"}

PInv == Counters /\ FilesTyped /\ OwnRows /\ MonthInv

-----------------------------------------------------------------------------
LEMMA RankTyping == \A a \in Files : Rank(a) \in 1..13 /\ ~(Rank(a) < 1)
<1>1. \A a \in Files : Rank(a) \in 1..13
  BY DEF Files, Rank
<1>2. \A n \in 1..13 : ~(n < 1)
  OBVIOUS
<1> QED
  BY <1>1, <1>2

LEMMA RankInjective == \A a, b \in Files : Rank(a) = Rank(b) => a = b
  BY DEF Files, Rank

\* No file is first written where raw_logs is written again.
LEMMA RankOfRows == Rank("raw_logs") = 1 /\ \A a \in Files : Rank(a) < 4 => Rank(a) < 3
  BY DEF Files, Rank

LEMMA PlanLengths ==
  /\ Len(Plan["m1"]) = 4 /\ Len(Plan["m2"]) = 2 /\ Len(Plan["m3"]) = 2
  /\ Len(Plan["m4"]) = 2 /\ Len(Plan["m5"]) = 1 /\ Len(Plan["m6"]) = 2
  BY DEF Plan, PlanM1, PlanM2, PlanM3, PlanM4, PlanM5, PlanM6

LEMMA Places ==
  /\ Documented[1] = "m1" /\ Documented[2] = "m2" /\ Documented[3] = "m3"
  /\ Documented[4] = "m6" /\ Documented[5] = "m4" /\ Documented[6] = "m5"
  /\ First[1] = 1 /\ First[2] = 5 /\ First[3] = 7 /\ First[4] = 9 /\ First[5] = 11
  /\ First[6] = 13 /\ First[7] = 14
  BY DEF Documented, First

\* What the running stage writes next is the file at Here, or M1's rows once more.
LEMMA DueIsHere ==
  ASSUME Place, NEW a \in Files, Due(a)
  PROVE  Rank(a) = Here \/ (a = "raw_logs" /\ at = 1 /\ k = 3 /\ Here = 3)
<1>1. at \in 1..6 /\ stage = Documented[at] /\ k \in 1..Len(Plan[stage]) /\ Plan[stage][k] = a
  BY DEF Place, Due
<1>2. CASE at = 1
  <2>1. k \in {1, 2, 3, 4} /\ stage = "m1" /\ Here = 1 + (k - 1)
    BY <1>1, <1>2, Places, PlanLengths DEF Here
  <2>2. PlanM1[k] = a
    BY <1>1, <2>1 DEF Plan
  <2> QED
    BY <1>2, <2>1, <2>2 DEF PlanM1, Rank
<1>3. CASE at = 2
  <2>1. k \in {1, 2} /\ stage = "m2" /\ Here = 5 + (k - 1)
    BY <1>1, <1>3, Places, PlanLengths DEF Here
  <2>2. PlanM2[k] = a
    BY <1>1, <2>1 DEF Plan
  <2> QED
    BY <2>1, <2>2 DEF PlanM2, Rank
<1>4. CASE at = 3
  <2>1. k \in {1, 2} /\ stage = "m3" /\ Here = 7 + (k - 1)
    BY <1>1, <1>4, Places, PlanLengths DEF Here
  <2>2. PlanM3[k] = a
    BY <1>1, <2>1 DEF Plan
  <2> QED
    BY <2>1, <2>2 DEF PlanM3, Rank
<1>5. CASE at = 4
  <2>1. k \in {1, 2} /\ stage = "m6" /\ Here = 9 + (k - 1)
    BY <1>1, <1>5, Places, PlanLengths DEF Here
  <2>2. PlanM6[k] = a
    BY <1>1, <2>1 DEF Plan
  <2> QED
    BY <2>1, <2>2 DEF PlanM6, Rank
<1>6. CASE at = 5
  <2>1. k \in {1, 2} /\ stage = "m4" /\ Here = 11 + (k - 1)
    BY <1>1, <1>6, Places, PlanLengths DEF Here
  <2>2. PlanM4[k] = a
    BY <1>1, <2>1 DEF Plan
  <2> QED
    BY <2>1, <2>2 DEF PlanM4, Rank
<1>7. CASE at = 6
  <2>1. k = 1 /\ stage = "m5" /\ Here = 13 + (k - 1)
    BY <1>1, <1>7, Places, PlanLengths DEF Here
  <2>2. PlanM5[k] = a
    BY <1>1, <2>1 DEF Plan
  <2> QED
    BY <2>1, <2>2 DEF PlanM5, Rank
<1> QED
  BY <1>1, <1>2, <1>3, <1>4, <1>5, <1>6, <1>7

\* A stage that is through ends where the next one begins.
LEMMA DoneIsNext ==
  ASSUME Place, stage # "none", k > Len(Plan[stage])
  PROVE  at + 1 \in 1..7 /\ First[at + 1] = Here
<1>1. at \in 1..6 /\ stage = Documented[at] /\ k \in 1..(Len(Plan[stage]) + 1)
  BY DEF Place
<1>2. Len(Plan[stage]) \in {1, 2, 4}
  BY <1>1, Places, PlanLengths
<1>3. k = Len(Plan[stage]) + 1
  BY <1>1, <1>2
<1>4. CASE at = 1
  BY <1>1, <1>3, <1>4, Places, PlanLengths DEF Here
<1>5. CASE at = 2
  BY <1>1, <1>3, <1>5, Places, PlanLengths DEF Here
<1>6. CASE at = 3
  BY <1>1, <1>3, <1>6, Places, PlanLengths DEF Here
<1>7. CASE at = 4
  BY <1>1, <1>3, <1>7, Places, PlanLengths DEF Here
<1>8. CASE at = 5
  BY <1>1, <1>3, <1>8, Places, PlanLengths DEF Here
<1>9. CASE at = 6
  BY <1>1, <1>3, <1>9, Places, PlanLengths DEF Here
<1> QED
  BY <1>1, <1>4, <1>5, <1>6, <1>7, <1>8, <1>9

\* What a file is made from is ranked before it.
LEMMA MadeFromIsBefore ==
  ASSUME NEW a \in Files, NEW b \in MadeFrom(a)
  PROVE  b \in Files /\ Rank(b) < Rank(a) /\ (a = "state_changes" => b = "raw_logs")
<1>1. CASE a = "state_changes"
  BY <1>1 DEF MadeFrom, Rank, Files
<1>2. CASE a = "parts"
  BY <1>2 DEF MadeFrom, Rank, Files
<1>3. CASE a = "dex_quotes"
  BY <1>3 DEF MadeFrom, Rank, Files
<1>4. CASE a = "opportunities" \/ a = "intervals"
  BY <1>4 DEF MadeFrom, ForOpportunities, Rank, Files
<1>5. CASE a = "swaps_decoded"
  BY <1>5 DEF MadeFrom, ForSwaps, Rank, Files
<1>6. CASE a = "attribution"
  BY <1>6 DEF MadeFrom, ForAttribution, ForSwaps, ForHurdle, Rank, Files
<1>7. CASE a = "report"
  BY <1>7 DEF MadeFrom, ForHurdle, Rank, Files
<1>8. CASE a \in {"raw_logs", "checkpoint", "bybit_quotes", "bybit_book"}
  BY <1>8 DEF MadeFrom
<1> QED
  BY <1>1, <1>2, <1>3, <1>4, <1>5, <1>6, <1>7, <1>8 DEF Files

\* A file is made from files of this month.
LEMMA ReadsAreMade ==
  ASSUME Place, Fresh, NEW a \in Files, Due(a)
  PROVE  Reads(a) = MadeFrom(a) /\ MadeFrom(a) \subseteq Made
<1>1. CASE a = "report"
  <2>1. Rank(a) = Here /\ Rank("swaps_decoded") < Rank(a)
    BY <1>1, DueIsHere DEF Rank
  <2>2. "swaps_decoded" \in Made
    BY <2>1 DEF Made, Files
  <2>3. SwapSource = {"swaps_decoded"}
    BY <2>2 DEF Fresh, SwapSource
  <2>4. Reads(a) = MadeFrom(a)
    BY <1>1, <2>3 DEF Reads, MadeFrom, ForReport, ForWindows, ForHurdle
  <2> QED
    BY <2>1, <2>4, MadeFromIsBefore DEF Made
<1>2. CASE a = "raw_logs"
  BY <1>2 DEF Reads, MadeFrom
<1>3. CASE a \notin {"report", "raw_logs"}
  <2>1. Rank(a) = Here
    BY <1>3, DueIsHere
  <2>2. Reads(a) = MadeFrom(a)
    BY <1>3 DEF Reads, MadeFrom, Files
  <2> QED
    BY <2>1, <2>2, MadeFromIsBefore DEF Made
<1> QED
  BY <1>1, <1>2, <1>3

LEMMA ReadsAreReadable ==
  ASSUME Place, Fresh, NEW a \in Files, Due(a)
  PROVE  Readable(a)
<1>1. \A b \in Reads(a) : b \in Made
  BY ReadsAreMade
<1> QED
  BY <1>1 DEF Readable, Fresh

\* Rows are kept in their own file, and the rest of it is of its kind.
LEMMA OwnRowsStay ==
  ASSUME Counters, FilesTyped, OwnRows, NEW a \in Files, NEW f, runs' = runs,
         file' = [file EXCEPT ![a] = f],
         f \in TornAs(a) \/ \E kept \in Kept(a) : f = Written(a, kept)
  PROVE  OwnRows'
<1>1. \A b \in Files : file'[b] = IF b = a THEN f ELSE file[b]
  BY DEF FilesTyped
<1>2. file'["checkpoint"].run \in Nat /\ file'["checkpoint"].run <= runs
  <2>1. f.run \in {0, runs}
    BY DEF TornAs, Torn, Written
  <2> QED
    BY <1>1, <2>1 DEF Counters, OwnRows, Files
<1>3. \A x \in f.basis :
         \/ x \in file[a].basis
         \/ x = [name |-> a, run |-> runs]
         \/ \E b \in Reads(a) : x \in file[b].basis
  <2>1. CASE f \in TornAs(a)
    BY <2>1 DEF TornAs, Torn
  <2>2. CASE \E kept \in Kept(a) : f = Written(a, kept)
    <3>1. PICK kept \in Kept(a) : f = Written(a, kept)
      BY <2>2
    <3>2. kept \subseteq file[a].basis
      BY DEF Kept, Files
    <3> QED
      BY <3>1, <3>2 DEF Written
  <2> QED
    BY <2>1, <2>2
<1>4. a = "raw_logs" => \A x \in f.basis : x.name = "raw_logs"
  BY <1>3 DEF Reads, OwnRows
<1>5. a = "state_changes" => \A x \in f.basis : x.name \in {"raw_logs", "state_changes"}
  BY <1>3 DEF Reads, OwnRows
<1>6. a = "parts" => \A x \in f.basis : x.name \in {"raw_logs", "state_changes", "parts"}
  BY <1>3 DEF Reads, OwnRows
<1>7. \A x \in file'["raw_logs"].basis : x.name = "raw_logs"
  BY <1>1, <1>4 DEF OwnRows, Files
<1>8. \A x \in file'["state_changes"].basis : x.name \in {"raw_logs", "state_changes"}
  BY <1>1, <1>5 DEF OwnRows, Files
<1>9. \A x \in file'["parts"].basis : x.name \in {"raw_logs", "state_changes", "parts"}
  BY <1>1, <1>6 DEF OwnRows, Files
<1>10. runs' = runs
  OBVIOUS
<1> QED
  BY <1>2, <1>7, <1>8, <1>9, <1>10 DEF OwnRows

\* The next file is written: it rests on those of this month, and none of them on it.
LEMMA PutInv ==
  ASSUME PInv, NEW a \in Files, Due(a), Put(a)
  PROVE  PInv'
<1>1. PICK kept \in Kept(a) : file' = [file EXCEPT ![a] = Written(a, kept)]
  BY DEF Put
<1>2. k' = k + 1 /\ UNCHANGED <<stage, at, pass, order, began, runs, broke>>
  BY DEF Put, operator
<1>3. Counters' /\ FilesTyped' /\ OwnRows'
  BY <1>1, <1>2, OwnRowsStay DEF PInv, Counters, FilesTyped, Due
<1>4. /\ runs \in Nat /\ began \in Nat /\ began <= runs /\ began' = began
      /\ stage # "none" /\ k <= Len(Plan[stage])
  BY <1>2 DEF PInv, Counters, Due
<1>5. \A b \in Files : file'[b] = IF b = a THEN Written(a, kept) ELSE file[b]
  BY <1>1 DEF PInv, FilesTyped
<1>6. ASSUME order = Documented
      PROVE  Place' /\ Fresh' /\ FittingRows' /\ broke' \notin Stages
  <2>1. Place /\ Fresh /\ FittingRows /\ broke' \notin Stages
    BY <1>2, <1>6 DEF PInv, MonthInv
  <2>2. /\ k \in Int /\ 1 <= k /\ at \in 1..6 /\ stage = Documented[at]
        /\ Len(Plan[stage]) \in {1, 2, 4}
    BY <1>4, <2>1, Places, PlanLengths DEF Place
  <2>3. Place'
    BY <1>2, <1>4, <2>1, <2>2 DEF Place
  <2>4. Here' = Here + 1 /\ Here \in Int
    <3>1. First[at] \in Int
      BY <2>2, Places
    <3> QED
      BY <1>2, <2>2, <3>1 DEF Here
  <2>5. Rank(a) = Here \/ (a = "raw_logs" /\ k = 3 /\ Here = 3)
    BY <2>1, DueIsHere
  <2>6. Made' = Made \cup {a}
    <3>1. Made' = {b \in Files : Rank(b) < Here + 1}
      BY <2>4 DEF Made
    <3>2. CASE Rank(a) = Here
      <4>1. \A b \in Files : Rank(b) < Here + 1 <=> Rank(b) < Here \/ b = a
        BY <2>4, <3>2, RankTyping, RankInjective
      <4> QED
        BY <3>1, <4>1 DEF Made
    <3>3. CASE a = "raw_logs" /\ Here = 3
      <4>1. \A b \in Files : Rank(b) < 4 <=> Rank(b) < 3
        BY RankOfRows, RankTyping
      <4>2. "raw_logs" \in Files /\ Rank("raw_logs") < 3
        BY RankOfRows DEF Files
      <4>3. Made' = {b \in Files : Rank(b) < 4} /\ Made = {b \in Files : Rank(b) < 3}
        BY <3>1, <3>3 DEF Made
      <4>4. Made' = Made /\ a \in Made
        BY <3>3, <4>1, <4>2, <4>3
      <4> QED
        BY <4>4
    <3> QED
      BY <2>5, <3>2, <3>3
  <2>7. Reads(a) = MadeFrom(a) /\ MadeFrom(a) \subseteq Made
    BY <2>1, ReadsAreMade
  \* What is kept is of this month, the parts' excepted.
  <2>8. ASSUME NEW x \in kept PROVE ~(x.run < began) \/ (a = "parts" /\ x \in file["parts"].basis)
    <3>1. CASE a = "parts"
      BY <2>8, <3>1 DEF Kept
    <3>2. CASE a = "raw_logs" /\ k = 1
      <4>1. x \in file["raw_logs"].basis /\ MayFit
        BY <2>8, <3>2 DEF Kept
      <4> QED
        BY <2>1, <4>1 DEF FittingRows
    <3>3. CASE a = "raw_logs" /\ k # 1
      <4>1. x \in file["raw_logs"].basis
        BY <2>8, <3>3 DEF Kept
      <4>2. at = 1 /\ Here = 3
        <5>1. Rank(a) = 1 /\ Here = First[at] + (k - 1) /\ k >= 2
          BY <2>2, <3>3, RankOfRows DEF Here
        <5>2. First[at] \in Int /\ First[at] >= 1
          BY <2>2, Places
        <5>3. Rank(a) # Here
          BY <2>2, <5>1, <5>2
        <5> QED
          BY <2>1, <3>3, <5>3, DueIsHere
      <4>3. "raw_logs" \in Made
        BY <4>2, RankOfRows DEF Made, Files
      <4> QED
        BY <2>1, <4>1, <4>3, RankOfRows DEF Fresh, FromParts
    <3>4. CASE a \notin {"parts", "raw_logs"}
      BY <2>8, <3>4 DEF Kept
    <3> QED
      BY <3>1, <3>2, <3>3, <3>4
  <2>9. /\ file["parts"].basis \subseteq file'["parts"].basis
        /\ a # "parts" => file'["parts"] = file["parts"]
    BY <1>5 DEF Written, Kept, Files
  \* The new file.
  <2>10. ASSUME NEW x \in Written(a, kept).basis PROVE FromParts(a, x)'
    <3>1. CASE x = [name |-> a, run |-> runs]
      BY <1>4, <3>1 DEF FromParts
    <3>2. CASE x \in kept
      <4>1. CASE a = "parts"
        BY <1>4, <2>8, <2>9, <3>2, <4>1 DEF FromParts, Rank
      <4>2. CASE a # "parts"
        BY <1>4, <2>8, <3>2, <4>2 DEF FromParts
      <4> QED
        BY <4>1, <4>2
    <3>3. CASE \E b \in Reads(a) : x \in file[b].basis
      <4>1. PICK b \in MadeFrom(a) : x \in file[b].basis
        BY <2>7, <3>3
      <4>2. b \in Made /\ b \in Files /\ Rank(b) < Rank(a)
        BY <2>7, <4>1, MadeFromIsBefore
      <4>3. ~(x.run < began) \/ (4 < Rank(b) /\ x \in file["parts"].basis)
        BY <2>1, <4>1, <4>2 DEF Fresh, FromParts
      <4>4. Rank(a) \in Int /\ Rank(b) \in Int
        BY <4>2, RankTyping
      <4>5. ~(x.run < began) \/ (4 < Rank(a) /\ x \in file'["parts"].basis)
        BY <2>9, <4>2, <4>3, <4>4
      <4> QED
        BY <1>4, <4>5 DEF FromParts, Rank
    <3> QED
      BY <3>1, <3>2, <3>3 DEF Written
  <2>11. a \notin {"raw_logs", "parts"}
         => Written(a, kept).basis = {[name |-> a, run |-> runs]}
                                         \cup UNION {file[b].basis : b \in MadeFrom(a)}
    BY <2>7 DEF Written, Kept
  \* The files it may replace are not among those the others rest on.
  <2>12. ASSUME NEW b \in Made', NEW m \in MadeFrom(b) PROVE file'[m] = file[m] \/ b = "state_changes"
    <3>1. b \in Files /\ m \in Files /\ Rank(m) < Rank(b)
      BY <2>12, MadeFromIsBefore DEF Made
    <3>2. CASE m # a
      BY <1>5, <3>1, <3>2
    <3>3. CASE m = a
      <4>1. Rank(b) <= Here
        <5>1. b \in Files /\ Rank(b) \in Int /\ (b \in Made \/ b = a)
          BY <2>6, <3>1, RankTyping
        <5> QED
          BY <2>4, <3>1, <3>3, <5>1 DEF Made
      <4>2. a = "raw_logs" /\ Here = 3
        BY <2>4, <2>5, <3>1, <3>3, <4>1, RankTyping
      <4>3. Rank(b) < 4 /\ Rank(b) > 1
        BY <3>1, <3>3, <4>1, <4>2, RankOfRows, RankTyping
      <4>4. b = "checkpoint"
        BY <3>1, <4>3 DEF Files, Rank
      <4> QED
        BY <4>4 DEF MadeFrom
    <3> QED
      BY <3>2, <3>3
  <2>13. ASSUME NEW b \in Made', b # a
         PROVE  /\ file'[b].is = "whole"
                /\ \A x \in file'[b].basis : FromParts(b, x)'
                /\ b \notin {"raw_logs", "parts"}
                   => file'[b].basis = {[name |-> b, run |-> file'[b].run]}
                                           \cup UNION {file[m].basis : m \in MadeFrom(b)}
    <3>1. b \in Made /\ b \in Files /\ file'[b] = file[b]
      BY <1>5, <2>6, <2>13 DEF Made
    <3>2. file[b].is = "whole" /\ \A x \in file[b].basis : FromParts(b, x)
      BY <2>1, <3>1 DEF Fresh
    <3>3. b \notin {"raw_logs", "parts"}
          => file[b].basis = {[name |-> b, run |-> file[b].run]}
                                 \cup UNION {file[m].basis : m \in MadeFrom(b)}
      BY <2>1, <3>1 DEF Fresh
    <3>4. \A x \in file[b].basis : FromParts(b, x)'
      BY <1>4, <2>9, <3>2 DEF FromParts, Rank
    <3> QED
      BY <3>1, <3>2, <3>3, <3>4
  <2>14. \A b \in Made' : \A m \in MadeFrom(b) : file'[m] = file[m]
    <3> SUFFICES ASSUME NEW b \in Made', NEW m \in MadeFrom(b), b = "state_changes"
                 PROVE  file'[m] = file[m]
      BY <2>12
    <3>1. m = "raw_logs" /\ Rank(b) = 4 /\ b \in Files
      BY MadeFromIsBefore DEF Rank, Files
    <3>2. Here + 1 > 4
      BY <2>4, <3>1 DEF Made
    <3>3. a # "raw_logs"
      BY <2>4, <2>5, <3>2, RankOfRows
    <3> QED
      BY <1>5, <3>1, <3>3 DEF Files
  <2>15. Fresh'
    <3> SUFFICES ASSUME NEW b \in Made'
                 PROVE  /\ file'[b].is = "whole"
                        /\ \A x \in file'[b].basis : FromParts(b, x)'
                        /\ b \notin {"raw_logs", "parts"}
                           => file'[b].basis = {[name |-> b, run |-> file'[b].run]}
                                                   \cup UNION {file'[m].basis : m \in MadeFrom(b)}
      BY DEF Fresh, MadeFrom, ForOpportunities, ForSwaps, ForAttribution, ForHurdle
    <3>1. UNION {file'[m].basis : m \in MadeFrom(b)} = UNION {file[m].basis : m \in MadeFrom(b)}
      BY <2>14
    <3>2. CASE b = a
      <4>1. file'[a] = Written(a, kept) /\ Written(a, kept).is = "whole" /\ Written(a, kept).run = runs
        BY <1>5 DEF Written
      <4> QED
        BY <2>10, <2>11, <3>1, <3>2, <4>1
    <3>3. CASE b # a
      BY <2>13, <3>1, <3>3
    <3> QED
      BY <3>2, <3>3
  <2>16. FittingRows'
    <3> SUFFICES ASSUME MayFit', NEW x \in file'["raw_logs"].basis PROVE ~(x.run < began)
      BY <1>4 DEF FittingRows
    <3>1. CASE a = "raw_logs"
      <4>1. FromParts("raw_logs", x)'
        BY <1>5, <2>10, <3>1
      <4> QED
        BY <1>4, <4>1 DEF FromParts, Rank
    <3>2. CASE a = "checkpoint"
      <4>1. Rank("checkpoint") = Here /\ Rank("checkpoint") = 2
        BY <2>5, <3>2 DEF Rank
      <4>2. "raw_logs" \in Made /\ file'["raw_logs"] = file["raw_logs"]
        BY <1>5, <3>2, <4>1, RankOfRows DEF Made, Files
      <4> QED
        BY <2>1, <4>2, RankOfRows DEF Fresh, FromParts
    <3>3. CASE a \notin {"raw_logs", "checkpoint"}
      <4>1. file'["raw_logs"] = file["raw_logs"] /\ file'["checkpoint"] = file["checkpoint"]
        BY <1>5, <3>3 DEF Files
      <4>2. MayFit
        BY <1>4, <4>1 DEF MayFit
      <4> QED
        BY <2>1, <4>1, <4>2 DEF FittingRows
    <3> QED
      BY <3>1, <3>2, <3>3
  <2> QED
    BY <2>1, <2>3, <2>15, <2>16
<1> QED
  BY <1>2, <1>3, <1>6 DEF PInv, MonthInv

\* The stage breaks off, with what it has written so far and one file perhaps torn.
LEMMA LeaveInv ==
  ASSUME PInv, NEW a \in Files, Due(a), Leave,
         file' = file \/ \E torn \in TornAs(a) : file' = [file EXCEPT ![a] = torn],
         order = Documented => broke' \notin Stages
  PROVE  PInv'
<1>1. /\ stage' = "none" /\ k' = 1 /\ at' = at
      /\ UNCHANGED <<pass, order, began, runs>>
  BY DEF Leave, Advances
<1>2. Counters' /\ FilesTyped'
  BY <1>1 DEF PInv, Counters, FilesTyped
<1>3. OwnRows'
  <2>1. CASE file' = file
    BY <1>1, <2>1 DEF PInv, OwnRows
  <2>2. CASE \E torn \in TornAs(a) : file' = [file EXCEPT ![a] = torn]
    BY <1>1, <2>2, OwnRowsStay DEF PInv
  <2> QED
    BY <2>1, <2>2
<1>4. /\ \A b \in Files : b # a => file'[b] = file[b]
      /\ file' = file \/ file'[a].is = "torn"
      /\ \A x \in file'[a].basis : x \in file[a].basis
  BY DEF PInv, FilesTyped, TornAs, Torn
<1>5. ASSUME order = Documented
      PROVE  Place' /\ Fresh' /\ FittingRows'
  <2>1. Place /\ Fresh /\ FittingRows
    BY <1>5 DEF PInv, MonthInv
  <2>2. k \in Int /\ 1 <= k /\ at \in 1..6
    BY <2>1 DEF Due, Place
  <2>3. Place'
    BY <1>1, <2>1 DEF Place
  <2>4. /\ Here' = First[at] /\ First[at] \in Int /\ Here = First[at] + (k - 1)
        /\ Rank(a) = Here \/ (a = "raw_logs" /\ at = 1)
    BY <1>1, <2>1, <2>2, DueIsHere, Places DEF Here
  <2>5. Made' = {b \in Files : Rank(b) < First[at]}
    BY <2>4 DEF Made
  <2>6. Made' \subseteq Made /\ \A b \in Made' : Rank(b) < Rank(a) \/ at = 1
    BY <2>2, <2>4, <2>5, RankTyping DEF Made
  <2>7. at = 1 => Made' = {}
    BY <2>5, Places, RankTyping
  <2>8. \A b \in Made' : b \in Made /\ b \in Files /\ Rank(b) < Rank(a)
    BY <2>6, <2>7 DEF Made
  <2>9. Fresh'
    <3> SUFFICES ASSUME NEW b \in Made'
                 PROVE  /\ file'[b].is = "whole"
                        /\ \A x \in file'[b].basis : FromParts(b, x)'
                        /\ b \notin {"raw_logs", "parts"}
                           => file'[b].basis = {[name |-> b, run |-> file'[b].run]}
                                                   \cup UNION {file'[m].basis : m \in MadeFrom(b)}
      BY DEF Fresh, MadeFrom, ForOpportunities, ForSwaps, ForAttribution, ForHurdle
    <3>1. /\ b \in Made /\ b \in Files /\ Rank(b) < Rank(a) /\ Rank(a) \in Int /\ Rank(b) \in Int
          /\ b # a /\ file'[b] = file[b]
      BY <1>4, <2>8, RankTyping
    <3>2. file[b].is = "whole" /\ \A x \in file[b].basis : FromParts(b, x)
      BY <2>1, <3>1 DEF Fresh
    <3>3. \A m \in MadeFrom(b) : file'[m] = file[m]
      <4> SUFFICES ASSUME NEW m \in MadeFrom(b) PROVE file'[m] = file[m]
        OBVIOUS
      <4>1. m \in Files /\ Rank(m) < Rank(b) /\ Rank(m) \in Int
        BY <3>1, MadeFromIsBefore, RankTyping
      <4>2. m # a
        BY <3>1, <4>1
      <4> QED
        BY <1>4, <4>1, <4>2
    <3>4. UNION {file'[m].basis : m \in MadeFrom(b)} = UNION {file[m].basis : m \in MadeFrom(b)}
      BY <3>3
    <3>5. 4 < Rank(b) => file'["parts"] = file["parts"]
      <4> SUFFICES ASSUME 4 < Rank(b), a = "parts" PROVE FALSE
        BY <1>4 DEF Files
      <4>1. Rank(a) = 5
        BY DEF Rank
      <4> QED
        BY <3>1, <4>1
    <3>6. \A x \in file[b].basis : FromParts(b, x)'
      BY <1>1, <3>2, <3>5 DEF FromParts, Rank
    <3>7. b \notin {"raw_logs", "parts"}
          => file[b].basis = {[name |-> b, run |-> file[b].run]}
                                 \cup UNION {file[m].basis : m \in MadeFrom(b)}
      BY <2>1, <3>1 DEF Fresh
    <3> QED
      BY <3>1, <3>2, <3>4, <3>6, <3>7
  <2>10. FittingRows'
    <3> SUFFICES ASSUME MayFit', NEW x \in file'["raw_logs"].basis PROVE ~(x.run < began)
      BY <1>1 DEF FittingRows
    <3>1. x \in file["raw_logs"].basis
      BY <1>4 DEF Files
    <3>2. file'["checkpoint"] = file["checkpoint"]
      <4>1. file'["checkpoint"].is = "whole"
        BY DEF MayFit
      <4> QED
        BY <1>4, <4>1 DEF Files
    <3>3. MayFit
      BY <1>1, <3>2 DEF MayFit
    <3> QED
      BY <2>1, <3>1, <3>3 DEF FittingRows
  <2> QED
    BY <2>3, <2>9, <2>10
<1> QED
  BY <1>1, <1>2, <1>3, <1>5 DEF PInv, MonthInv

\* Steps that write nothing and leave the place in the order where it is.
LEMMA SameInv ==
  ASSUME PInv, UNCHANGED <<file, order, began>>, broke' = broke \/ broke' = "no",
         Counters', runs' >= runs, order = Documented => Place' /\ Here' = Here
  PROVE  PInv'
<1>1. order = Documented => Fresh' /\ FittingRows' /\ broke' \notin Stages
  <2> SUFFICES ASSUME order = Documented PROVE Fresh' /\ FittingRows' /\ broke' \notin Stages
    OBVIOUS
  <2>1. Fresh /\ FittingRows /\ broke' \notin Stages
    BY DEF PInv, MonthInv, Stages
  <2>2. Made' = Made
    BY DEF Made, Rank
  <2>3. \A a, x : FromParts(a, x)' <=> FromParts(a, x)
    BY DEF FromParts, Rank
  <2>4. Fresh'
    BY <2>1, <2>2, <2>3
       DEF Fresh, MadeFrom, ForOpportunities, ForSwaps, ForAttribution, ForHurdle
  <2>5. FittingRows'
    BY <2>1 DEF FittingRows, MayFit
  <2> QED
    BY <2>1, <2>4, <2>5
<1>2. OwnRows'
  BY DEF PInv, OwnRows, Counters
<1> QED
  BY <1>1, <1>2 DEF PInv, MonthInv, FilesTyped

LEMMA InitInv == Init => PInv
<1> SUFFICES ASSUME Init PROVE PInv
  OBVIOUS
<1>1. Here = 1
  BY Places DEF Init, Here
<1>2. Made = {}
  BY <1>1, RankTyping DEF Made
<1>3. Counters /\ FilesTyped /\ Place /\ broke \notin Stages
  BY DEF Init, Counters, FilesTyped, Place, Stages
<1>4. OwnRows /\ FittingRows
  BY DEF Init, OwnRows, FittingRows, None, Files
<1> QED
  BY <1>2, <1>3, <1>4 DEF PInv, MonthInv, Fresh

LEMMA StepInv ==
  ASSUME PInv, [Next]_vars
  PROVE  PInv'
<1>1. CASE NextMonth
  <2>1. at' = 1 /\ stage' = "none" /\ k' = 1 /\ runs' = runs /\ began' = runs + 1
        /\ broke' = "no" /\ file' = file
    BY <1>1 DEF NextMonth, PInv, Counters
  <2>2. Here' = 1
    BY <2>1, Places DEF Here, First
  <2>3. Made' = {}
    <3>1. Made' = {a \in Files : Rank(a) < 1}
      BY <2>2 DEF Made
    <3> QED
      BY <3>1, RankTyping
  <2>4. Counters' /\ FilesTyped' /\ OwnRows' /\ Place' /\ broke' \notin Stages
    BY <2>1 DEF PInv, Counters, FilesTyped, OwnRows, Place, Stages
  <2>5. FittingRows'
    <3>1. ~(file["checkpoint"].run >= runs + 1)
      BY DEF PInv, OwnRows, Counters
    <3> QED
      BY <2>1, <3>1 DEF FittingRows, MayFit
  <2> QED
    BY <2>3, <2>4, <2>5 DEF PInv, MonthInv, Fresh
<1>2. CASE Begin
  <2>1. /\ stage = "none" /\ at <= Len(order) /\ stage' = order[at] /\ k' = 1 /\ k = 1
        /\ runs' = runs + 1 /\ broke' = "no" /\ UNCHANGED <<file, at, order, began>>
    BY <1>2 DEF Begin, operator, PInv, Counters
  <2>2. Counters' /\ runs' >= runs
    BY <2>1 DEF PInv, Counters
  <2>3. ASSUME order = Documented
        PROVE  Place' /\ Here' = Here
    <3>1. at \in 1..7 /\ Len(order) = 6
      BY <2>3 DEF PInv, MonthInv, Place, Documented
    <3>2. at # 7 /\ stage' = Documented[at] /\ k' \in 1..(Len(Plan[stage']) + 1)
      BY <2>1, <2>3, <3>1, Places, PlanLengths
    <3> QED
      BY <2>1, <3>1, <3>2 DEF Place, Here
  <2> QED
    BY <2>1, <2>2, <2>3, SameInv
<1>3. CASE Done
  <2>1. /\ stage # "none" /\ k > Len(Plan[stage]) /\ stage' = "none" /\ k' = 1 /\ at' = at + 1
        /\ UNCHANGED <<file, order, began, runs, broke>>
    BY <1>3 DEF Done
  <2>2. Counters' /\ runs' >= runs
    BY <2>1 DEF PInv, Counters
  <2>3. ASSUME order = Documented
        PROVE  Place' /\ Here' = Here
    <3>1. at + 1 \in 1..7 /\ First[at + 1] = Here
      BY <2>1, <2>3, DoneIsNext DEF PInv, MonthInv
    <3>2. First[at + 1] \in Int
      BY <3>1, Places
    <3> QED
      BY <2>1, <3>1, <3>2 DEF Place, Here
  <2> QED
    BY <2>1, <2>2, <2>3, SameInv
<1>4. ASSUME NEW a \in Files, Write(a)
      PROVE  PInv'
  BY <1>4, PutInv DEF Write
<1>5. CASE WriteBook
  BY <1>5, PutInv, "bybit_book" \in Files DEF WriteBook, Files
<1>6. CASE WriteReport
  BY <1>6, PutInv, "report" \in Files DEF WriteReport, Files
<1>7. CASE LacksInput
  <2>1. PICK a \in Files : Due(a) /\ ~Readable(a)
    BY <1>7 DEF LacksInput
  <2>2. order # Documented
    BY <2>1, ReadsAreReadable DEF PInv, MonthInv
  <2> QED
    BY <1>7, <2>1, <2>2, LeaveInv DEF LacksInput
<1>8. CASE LacksOwn
  <2>1. Due("raw_logs") /\ "raw_logs" \in Files /\ broke' \notin Stages
    BY <1>8 DEF LacksOwn, Files, Stages
  <2> QED
    BY <1>8, <2>1, LeaveInv DEF LacksOwn
<1>9. CASE LacksDepth
  <2>1. Due("report") /\ "report" \in Files /\ broke' \notin Stages
    BY <1>9 DEF LacksDepth, Files, Stages
  <2> QED
    BY <1>9, <2>1, LeaveInv DEF LacksDepth
<1>10. CASE Fails
  <2>1. PICK a \in Files :
           Due(a) /\ (file' = file \/ \E torn \in TornAs(a) : file' = [file EXCEPT ![a] = torn])
    BY <1>10 DEF Fails
  <2>2. order = Documented => broke' \notin Stages
    BY <1>10 DEF Fails, PInv, MonthInv
  <2> QED
    BY <1>10, <2>1, <2>2, LeaveInv DEF Fails
<1>11. CASE UNCHANGED vars
  <2>1. UNCHANGED <<file, order, began, broke, stage, k, at, runs>>
    BY <1>11 DEF vars, operator
  <2> QED
    BY <2>1, SameInv DEF PInv, MonthInv, Counters, Place, Here
<1> QED
  BY <1>1, <1>2, <1>3, <1>4, <1>5, <1>6, <1>7, <1>8, <1>9, <1>10, <1>11 DEF Next

THEOREM MonthInvariant == Spec => []PInv
<1>1. PInv /\ [Next]_vars => PInv'
  BY StepInv
<1> QED
  BY InitInv, <1>1, PTL DEF Spec

\* In the README's order no stage lacks a file of another one, whatever the months before
\* left and however often M1 has stopped over its own.
THEOREM InputsAreReady == Spec => []InputsReady
<1>1. PInv => InputsReady
  BY DEF PInv, MonthInv, InputsReady
<1> QED
  BY <1>1, MonthInvariant, PTL

\* At the end of such a month every file is of this month.
LEMMA AllMade ==
  ASSUME PInv, Finished, order = Documented
  PROVE  Fresh /\ Made = Files
<1>1. Place /\ Fresh /\ at > 6 /\ stage = "none" /\ k = 1
  BY DEF PInv, MonthInv, Counters, Finished, Documented
<1>2. Here = 14
  BY <1>1, Places DEF Place, Here
<1>3. \A n \in 1..13 : n < 14
  OBVIOUS
<1> QED
  BY <1>1, <1>2, <1>3, RankTyping DEF Made

\* Both reports then rest on the same versions of what they share, and on what they do not.
LEMMA BehindIs ==
  ASSUME PInv, Finished, order = Documented
  PROVE  \E common :
            /\ \A x \in common : x.name \in {"raw_logs", "state_changes", "parts", "dex_quotes",
                                             "bybit_quotes", "bybit_book"}
            /\ \A x \in file["report"].basis :
                  x \in common \/ x.name \in {"report", "swaps_decoded", "opportunities", "intervals"}
            /\ \A x \in file["attribution"].basis : x \in common \/ x.name = "attribution"
            /\ common \subseteq file["report"].basis /\ common \subseteq file["attribution"].basis
<1> DEFINE Self(a) == [name |-> a, run |-> file[a].run]
           B(a) == file[a].basis
           common == B("raw_logs") \cup B("state_changes") \cup B("bybit_quotes")
                        \cup B("bybit_book") \cup B("dex_quotes")
<1>1. \A a \in Files \ {"raw_logs", "parts"} :
         file[a].basis = {Self(a)} \cup UNION {file[b].basis : b \in MadeFrom(a)}
  BY AllMade DEF Fresh
<1>2. /\ B("bybit_quotes") = {Self("bybit_quotes")} /\ B("bybit_book") = {Self("bybit_book")}
      /\ B("dex_quotes") = {Self("dex_quotes")} \cup B("parts")
  BY <1>1 DEF MadeFrom, Files
<1>3. B("swaps_decoded") = {Self("swaps_decoded")} \cup B("raw_logs") \cup B("state_changes")
                               \cup B("bybit_quotes") \cup B("bybit_book")
  BY <1>1 DEF MadeFrom, ForSwaps, Files
<1>4. \A a \in {"opportunities", "intervals"} :
         B(a) = {Self(a)} \cup B("dex_quotes") \cup B("bybit_quotes") \cup B("bybit_book")
  BY <1>1 DEF MadeFrom, ForOpportunities, Files
<1>5. B("attribution") = {Self("attribution")} \cup common
  BY <1>1 DEF MadeFrom, ForAttribution, ForSwaps, ForHurdle, Files
<1>6. B("report") = {Self("report")} \cup B("bybit_book") \cup B("dex_quotes") \cup B("intervals")
                        \cup B("bybit_quotes") \cup B("swaps_decoded") \cup B("opportunities")
  BY <1>1 DEF MadeFrom, ForHurdle, Files
<1>7. /\ \A x \in B("raw_logs") : x.name = "raw_logs"
      /\ \A x \in B("state_changes") : x.name \in {"raw_logs", "state_changes"}
      /\ \A x \in B("parts") : x.name \in {"raw_logs", "state_changes", "parts"}
  BY DEF PInv, OwnRows
<1>8. \A a : Self(a).name = a
  OBVIOUS
<1> HIDE DEF Self, B
<1>9. \A x \in common : x.name \in {"raw_logs", "state_changes", "parts", "dex_quotes",
                                    "bybit_quotes", "bybit_book"}
  BY <1>2, <1>7, <1>8
<1>10. B("report") = {Self("report"), Self("swaps_decoded"), Self("opportunities"),
                      Self("intervals")} \cup common
  BY <1>3, <1>4, <1>6
<1> HIDE DEF common
<1>11. /\ \A x \in B("report") :
             x \in common \/ x.name \in {"report", "swaps_decoded", "opportunities", "intervals"}
       /\ \A x \in B("attribution") : x \in common \/ x.name = "attribution"
       /\ common \subseteq B("report") /\ common \subseteq B("attribution")
  BY <1>5, <1>8, <1>10
<1> QED
  BY <1>9, <1>11 DEF B

\* At the end of a month in the README's order M5's report and M6's rest on the same
\* versions of every file they share, so that they cannot quote different numbers for the
\* same thing.
THEOREM ReportsAlwaysAgree == Spec => []ReportsAgree
<1>1. PInv => ReportsAgree
  <2> SUFFICES ASSUME PInv, Finished, order = Documented,
                      NEW x \in file["report"].basis \cup file["attribution"].basis,
                      NEW r \in file["report"].basis, r.name = x.name,
                      NEW t \in file["attribution"].basis, t.name = x.name
               PROVE  x \in file["report"].basis /\ x \in file["attribution"].basis
    BY DEF ReportsAgree
  <2>1. PICK common :
           /\ \A y \in common : y.name \in {"raw_logs", "state_changes", "parts", "dex_quotes",
                                            "bybit_quotes", "bybit_book"}
           /\ \A y \in file["report"].basis :
                 y \in common \/ y.name \in {"report", "swaps_decoded", "opportunities", "intervals"}
           /\ \A y \in file["attribution"].basis : y \in common \/ y.name = "attribution"
           /\ common \subseteq file["report"].basis /\ common \subseteq file["attribution"].basis
    BY BehindIs
  <2>2. x \in common
    BY <2>1
  <2> QED
    BY <2>1, <2>2
<1> QED
  BY <1>1, MonthInvariant, PTL

\* ... and on nothing of an earlier month but the rows that M2's parts have kept of it.
THEOREM OnlyPartsOutlive == Spec => []OnlyPartsAreOld
<1>1. PInv => OnlyPartsAreOld
  <2> SUFFICES ASSUME PInv, Finished, order = Documented,
                      NEW a \in {"report", "attribution"}, NEW x \in file[a].basis, x.run < began
               PROVE  x \in file["parts"].basis
    BY DEF OnlyPartsAreOld, Behind
  <2>1. ~(x.run < began) \/ x \in file["parts"].basis
    BY AllMade DEF Fresh, FromParts, Files
  <2> QED
    BY <2>1
<1> QED
  BY <1>1, MonthInvariant, PTL

-----------------------------------------------------------------------------
(* The types, in whatever order the stages are run. *)

TypedFile(f, n) ==
    /\ f.is \in {"none", "torn", "whole"}
    /\ f.run \in 0..n
    /\ \A x \in f.basis : x.name \in Files /\ x.run \in 1..n

Typing == TypeOK /\ (stage # "none" => at <= Len(order))

LEMMA OrdersAreLists ==
  ASSUME NEW o \in Orders
  PROVE  o \in Seq(Stages) /\ Len(o) \in Nat
<1> DEFINE Adding(S) == ((((((S \cup {"m1"}) \cup {"m2"}) \cup {"m3"}) \cup {"m4"})
                            \cup {"m5"}) \cup {"m6"})
<1>1. \A S, x : IsFiniteSet(S) => IsFiniteSet(S \cup {x})
  BY FS_AddElement
<1>2. IsFiniteSet(Adding({}))
  BY <1>1, FS_EmptySet, Zenon
<1>3. Adding({}) = Stages
  BY DEF Stages
<1>4. Cardinality(Stages) \in Nat
  BY <1>2, <1>3, FS_CardinalityType
<1> QED
  BY <1>4, PipelineAssumption

LEMMA WrittenTyping ==
  ASSUME PInv, TypeOK, NEW a \in Files, stage # "none", NEW kept \in Kept(a)
  PROVE  TypedFile(Written(a, kept), runs)
<1>1. runs \in Nat /\ runs \in 1..runs
  BY DEF PInv, Counters, TypeOK
<1>2. Reads(a) \subseteq Files
  BY DEF Reads, Files, ForReport, ForAttribution, ForOpportunities, ForSwaps, ForWindows,
         ForHurdle, SwapSource
<1>3. kept = {} \/ kept = file[a].basis
  BY DEF Kept
<1>4. ASSUME NEW x \in Written(a, kept).basis
      PROVE  x.name \in Files /\ x.run \in 1..runs
  <2>1. CASE x = [name |-> a, run |-> runs]
    BY <2>1, <1>1
  <2>2. CASE x \in UNION {file[b].basis : b \in Reads(a)}
    <3>1. PICK b \in Reads(a) : x \in file[b].basis
      BY <2>2
    <3> QED
      BY <3>1, <1>2 DEF TypeOK
  <2>3. CASE x \in kept
    BY <2>3, <1>3 DEF TypeOK
  <2> QED
    BY <1>4, <2>1, <2>2, <2>3 DEF Written
<1> QED
  BY <1>1, <1>4 DEF Written, TypedFile

\* The files after a step, of which one may be new.
LEMMA FilesStayTyped ==
  ASSUME PInv, TypeOK, NEW a \in Files, NEW f, TypedFile(f, runs),
         file' \in {file, [file EXCEPT ![a] = f]}, runs' = runs
  PROVE  \A b \in Files : TypedFile(file[b], runs)'
<1>1. \A b \in Files : file'[b] = file[b] \/ file'[b] = f
  BY DEF PInv, FilesTyped
<1>2. \A b \in Files : TypedFile(file[b], runs)
  BY DEF TypeOK, TypedFile
<1> QED
  BY <1>1, <1>2 DEF TypedFile

LEMMA PutTyping ==
  ASSUME PInv, Typing, NEW a \in Files, Due(a), Put(a), deep' \in BOOLEAN
  PROVE  Typing'
<1>0. PICK kept \in Kept(a) : file' = [file EXCEPT ![a] = Written(a, kept)]
  BY DEF Put
<1>1. /\ stage # "none" /\ k <= Len(Plan[stage]) /\ k' = k + 1
      /\ UNCHANGED <<stage, at, pass, order, began, runs, broke>>
  BY DEF Due, Put, operator
<1>2. \A b \in Files : TypedFile(file[b], runs)'
  BY <1>0, <1>1, WrittenTyping, FilesStayTyped DEF Typing
<1>3. k' \in 1..(Len(Plan[stage]) + 1)
  BY <1>1, PlanLengths DEF Typing, TypeOK
<1> QED
  BY <1>1, <1>2, <1>3 DEF Typing, TypeOK, TypedFile

LEMMA LeaveTyping ==
  ASSUME PInv, Typing, NEW a \in Files, Due(a), Leave,
         file' = file \/ \E torn \in TornAs(a) : file' = [file EXCEPT ![a] = torn],
         broke' \in Stages \cup {"no", "depth", "resume"}
  PROVE  Typing'
<1>1. /\ stage' = "none" /\ at' = at
      /\ UNCHANGED <<deep, pass, order, began, runs>>
  BY DEF Leave, Advances
<1>2. \A torn \in TornAs(a) : TypedFile(torn, runs)
  <2>1. runs \in Nat /\ TypedFile(file[a], runs)
    BY DEF PInv, Counters, Typing, TypeOK, TypedFile
  <2> QED
    BY <2>1 DEF TornAs, Torn, TypedFile
<1>3. \A b \in Files : TypedFile(file[b], runs)'
  <2>1. \A b \in Files : TypedFile(file[b], runs)
    BY DEF Typing, TypeOK, TypedFile
  <2>2. CASE file' = file
    BY <1>1, <2>1, <2>2 DEF TypedFile
  <2>3. CASE \E torn \in TornAs(a) : file' = [file EXCEPT ![a] = torn]
    <3>1. PICK torn \in TornAs(a) : file' = [file EXCEPT ![a] = torn]
      BY <2>3
    <3> QED
      BY <1>1, <1>2, <3>1, FilesStayTyped DEF Typing
  <2> QED
    BY <2>2, <2>3
<1> QED
  BY <1>1, <1>3 DEF Typing, TypeOK, TypedFile

\* Types of the files and of the operator's place, in whatever order the stages are run.
THEOREM PipelineTyping == Spec => []TypeOK
<1>1. Init => Typing
  <2> SUFFICES ASSUME Init PROVE Typing
    OBVIOUS
  <2>1. order \in Orders /\ Len(order) \in Nat /\ runs = 0 /\ began = 1 /\ at = 1 /\ pass = 1
    BY OrdersAreLists DEF Init
  <2>2. \A a \in Files : TypedFile(file[a], runs)
    BY DEF Init, None, TypedFile
  <2> QED
    BY <2>1, <2>2, PipelineAssumption DEF Init, Typing, TypeOK, TypedFile
<1>2. Typing /\ PInv /\ [Next]_vars => Typing'
  <2> SUFFICES ASSUME Typing, PInv, [Next]_vars PROVE Typing'
    OBVIOUS
  <2>0. order \in Orders /\ Len(order) \in Nat /\ order \in Seq(Stages)
    BY OrdersAreLists DEF Typing, TypeOK
  <2>1. CASE NextMonth
    <3>1. order' \in Orders /\ Len(order') \in Nat
      BY <2>1, OrdersAreLists DEF NextMonth
    <3>2. /\ at' = 1 /\ stage' = "none" /\ began' = runs + 1 /\ pass' \in 1..MaxPasses
          /\ broke' = "no" /\ UNCHANGED <<file, deep, runs>>
      BY <2>1, PipelineAssumption DEF NextMonth, Typing, TypeOK
    <3>3. at' \in 1..(Len(order') + 1) /\ began' \in 1..(runs' + 1)
      BY <3>1, <3>2 DEF PInv, Counters
    <3> QED
      BY <3>1, <3>2, <3>3 DEF Typing, TypeOK
  <2>2. CASE Begin
    <3>1. /\ at <= Len(order) /\ runs' = runs + 1 /\ stage' = order[at] /\ k' = 1
          /\ broke' = "no" /\ runs < MaxRuns
          /\ UNCHANGED <<file, deep, at, pass, order, began>>
      BY <2>2 DEF Begin, operator
    <3>2. stage' \in Stages /\ stage' # "none"
      BY <3>1, <2>0 DEF Typing, TypeOK, Stages
    <3>3. k' \in 1..(Len(Plan[stage']) + 1)
      BY <3>1, <3>2, PlanLengths
    <3>4. runs' \in 0..MaxRuns /\ began' \in 1..(runs' + 1) /\ 0..runs \subseteq 0..runs'
          /\ 1..runs \subseteq 1..runs'
      BY <3>1, PipelineAssumption DEF Typing, TypeOK
    <3> QED
      BY <3>1, <3>2, <3>3, <3>4 DEF Typing, TypeOK
  <2>3. CASE Done
    BY <2>3, <2>0 DEF Done, Typing, TypeOK
  <2>4. ASSUME NEW a \in Files, Write(a)
        PROVE  Typing'
    BY <2>4, PutTyping DEF Write, Typing, TypeOK
  <2>5. CASE WriteBook
    BY <2>5, PutTyping, "bybit_book" \in Files DEF WriteBook, Files
  <2>6. CASE WriteReport
    BY <2>6, PutTyping, "report" \in Files DEF WriteReport, Files, Typing, TypeOK
  <2>7. CASE LacksInput
    <3>1. PICK a \in Files : Due(a)
      BY <2>7 DEF LacksInput
    <3>2. broke' \in Stages
      BY <2>7, <3>1 DEF LacksInput, Due, Typing, TypeOK
    <3> QED
      BY <2>7, <3>1, <3>2, LeaveTyping DEF LacksInput
  <2>8. CASE LacksDepth
    BY <2>8, LeaveTyping, "report" \in Files DEF LacksDepth, Files
  <2>9. CASE Fails
    <3>1. PICK a \in Files :
             /\ Due(a)
             /\ file' = file \/ \E torn \in TornAs(a) : file' = [file EXCEPT ![a] = torn]
      BY <2>9 DEF Fails
    <3> QED
      BY <2>9, <3>1, LeaveTyping DEF Fails, Typing, TypeOK
  <2>10. CASE LacksOwn
    BY <2>10, LeaveTyping, "raw_logs" \in Files DEF LacksOwn, Files
  <2>11. CASE UNCHANGED vars
    BY <2>11 DEF vars, operator, Typing, TypeOK
  <2> QED
    BY <2>1, <2>2, <2>3, <2>4, <2>5, <2>6, <2>7, <2>8, <2>9, <2>10, <2>11 DEF Next
<1>3. Typing => TypeOK
  BY DEF Typing
<1> QED
  BY <1>1, <1>2, <1>3, MonthInvariant, PTL DEF Spec


=============================================================================
