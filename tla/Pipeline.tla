------------------------------- MODULE Pipeline -------------------------------
(***************************************************************************)
(* The six stages of the backtest and the files they hand to each other.   *)
(* A file is known by the run that wrote it and by everything it may rest  *)
(* on; what the stages compute is the business of the other modules.       *)
(* Files no stage reads are left out, the two reports excepted, and so are *)
(* the days M3 keeps, which are those of TickArchive.                      *)
(*                                                                         *)
(* One stage runs at a time.  The operator follows an order, the README's  *)
(* or another, repeats the stage that failed, and may begin the next month *)
(* at any time; the head has moved on by then.                             *)
(***************************************************************************)
EXTENDS Integers, Sequences, FiniteSets

CONSTANTS
    Orders,     \* the orders the stages are run in, one a month
    MaxPasses,  \* bound: months
    MaxRuns     \* bound: runs of stages in all

Stages == {"m1", "m2", "m3", "m4", "m5", "m6"}

ASSUME PipelineAssumption ==
    /\ Orders \subseteq [1..Cardinality(Stages) -> Stages]
    /\ MaxPasses \in Nat \ {0} /\ MaxRuns \in Nat

VARIABLES
    file,   \* file[a]: [is, run, basis], basis the files a rests on, itself included
    deep,   \* whether the book on file can absorb the whole ladder
    stage,  \* the stage that runs, or "none"
    k,      \* the file of its plan it writes next
    at,     \* the position in order of the next stage
    pass,   \* the month
    order,  \* its order
    began,  \* its first run; history
    runs,   \* runs so far
    broke   \* why the last run broke off by itself, if it did; history

operator == <<at, pass, order, began>>
vars     == <<file, deep, stage, k, operator, runs, broke>>

\* "checkpoint" is M1's, "parts" are M2's m2_state_* and m2_quotes_*.
Files == {"raw_logs", "checkpoint", "state_changes", "parts", "dex_quotes", "bybit_quotes",
          "bybit_book", "swaps_decoded", "attribution", "opportunities", "intervals", "report"}

None    == [is |-> "none", run |-> 0, basis |-> {}]
Torn    == [is |-> "torn", run |-> 0, basis |-> {}]

-----------------------------------------------------------------------------
(* What each stage writes, in order, and what each file is made from. *)

PlanM1 == <<"raw_logs", "checkpoint", "raw_logs", "state_changes">>
PlanM2 == <<"parts", "dex_quotes">>
PlanM3 == <<"bybit_quotes", "bybit_book">>
PlanM4 == <<"opportunities", "intervals">>
PlanM5 == <<"report">>
PlanM6 == <<"swaps_decoded", "attribution">>

Plan == [m1 |-> PlanM1, m2 |-> PlanM2, m3 |-> PlanM3, m4 |-> PlanM4, m5 |-> PlanM5,
         m6 |-> PlanM6]

\* _swap_ts: decoded swaps if there are any, of whatever month.
SwapSource ==
    IF file["swaps_decoded"].is # "none" THEN {"swaps_decoded"}
                                         ELSE {"raw_logs", "state_changes"}

ForOpportunities == {"dex_quotes", "bybit_quotes", "bybit_book"}
ForWindows       == {"intervals", "bybit_quotes"} \cup SwapSource
ForHurdle        == {"bybit_book", "dex_quotes"}
ForReport        == ForWindows \cup ForHurdle \cup {"opportunities"}
ForSwaps         == {"raw_logs", "state_changes", "bybit_quotes", "bybit_book"}
ForAttribution   == ForSwaps \cup ForHurdle

Reads(a) ==
    CASE a = "state_changes" -> {"raw_logs"}
      [] a = "parts"         -> {"state_changes"}
      [] a = "dex_quotes"    -> {"parts"}
      [] a = "opportunities" -> ForOpportunities
      [] a = "intervals"     -> ForOpportunities
      [] a = "report"        -> ForReport
      [] a = "swaps_decoded" -> ForSwaps
      [] a = "attribution"   -> ForAttribution
      [] OTHER -> {}

Readable(a) == \A b \in Reads(a) : file[b].is = "whole"

\* M1 goes by its own two files if both exist, and by its rows if the checkpoint's start
\* is that of this run: if the head has not moved since.
Considered == file["checkpoint"].is # "none" /\ file["raw_logs"].is # "none"
MayFit     == file["checkpoint"].is = "whole" /\ file["checkpoint"].run >= began

\* What the rows a run has written or found in its own file rest on.  M1 begins afresh
\* if the head has moved or the operator says --no-resume, and writes its rows twice; M2
\* keeps every row of its parts, of whatever month, and begins those that are torn afresh.
Kept(a) ==
    CASE a = "parts" -> {file[a].basis}
      [] a = "raw_logs" /\ k = 1 ->
            {{}} \cup IF Considered /\ MayFit /\ file[a].is = "whole" THEN {file[a].basis} ELSE {}
      [] a = "raw_logs" /\ k # 1 -> {file[a].basis}
      [] OTHER -> {{}}

Written(a, kept) ==
    [is    |-> "whole",
     run   |-> runs,
     basis |-> {[name |-> a, run |-> runs]} \cup kept \cup UNION {file[b].basis : b \in Reads(a)}]

\* A file cut off in the middle.  There are several parts, and the others keep theirs.
TornAs(a) == {Torn} \cup IF a = "parts" THEN {[Torn EXCEPT !.basis = file[a].basis]} ELSE {}

\* A slip: a stage that fails returns, and its process ends without an error.
Swallowed(ok) == TRUE

\* A stage that fails raises, and its process ends with an error.
Advances(ok) == ok

Init ==
    /\ file = [a \in Files |-> None] /\ deep = TRUE
    /\ stage = "none" /\ k = 1
    /\ at = 1 /\ pass = 1 /\ order \in Orders /\ began = 1
    /\ runs = 0
    /\ broke = "no"

NextMonth ==
    /\ stage = "none"
    /\ pass < MaxPasses
    /\ pass' = pass + 1 /\ at' = 1 /\ began' = runs + 1
    /\ order' \in Orders
    /\ broke' = "no"
    /\ UNCHANGED <<file, deep, stage, k, runs>>

Begin ==
    /\ stage = "none" /\ at <= Len(order)
    /\ runs < MaxRuns
    /\ runs' = runs + 1
    /\ stage' = order[at] /\ k' = 1
    /\ broke' = "no"
    /\ UNCHANGED <<file, deep, operator>>

\* A file of the running stage's plan is next to be written.
Due(a) == stage # "none" /\ k <= Len(Plan[stage]) /\ Plan[stage][k] = a

Put(a) ==
    /\ \E kept \in Kept(a) : file' = [file EXCEPT ![a] = Written(a, kept)]
    /\ k' = k + 1
    /\ UNCHANGED <<stage, operator, runs, broke>>

\* All files but the two below.
Write(a) ==
    /\ a \notin {"bybit_book", "report"}
    /\ Due(a) /\ Readable(a)
    /\ Put(a)
    /\ UNCHANGED deep

\* The live snapshot; it may be too thin for the top of the ladder.
WriteBook ==
    /\ Due("bybit_book")
    /\ Put("bybit_book")
    /\ deep' \in BOOLEAN

\* The shares of the hurdle at both ends of the ladder need a slippage there.
WriteReport ==
    /\ Due("report") /\ Readable("report") /\ deep
    /\ Put("report")
    /\ UNCHANGED deep

Done ==
    /\ stage # "none" /\ k > Len(Plan[stage])
    /\ stage' = "none" /\ k' = 1
    /\ at' = at + 1
    /\ UNCHANGED <<file, deep, pass, order, began, runs, broke>>

Leave ==
    /\ stage' = "none" /\ k' = 1
    /\ at' = IF Advances(FALSE) THEN at + 1 ELSE at
    /\ UNCHANGED <<deep, pass, order, began, runs>>

\* An input is missing or cannot be read.
LacksInput ==
    /\ \E a \in Files : Due(a) /\ ~Readable(a)
    /\ broke' = stage
    /\ Leave
    /\ UNCHANGED file

\* M1's checkpoint cannot be parsed, or it fits and the rows cannot be read.
LacksOwn ==
    /\ Due("raw_logs") /\ k = 1 /\ Considered
    /\ file["checkpoint"].is = "torn" \/ (MayFit /\ file["raw_logs"].is = "torn")
    /\ broke' = "resume"
    /\ Leave
    /\ UNCHANGED file

\* The slippage of a size the book cannot absorb is None, and max() raises.
LacksDepth ==
    /\ Due("report") /\ Readable("report") /\ ~deep
    /\ broke' = "depth"
    /\ Leave
    /\ UNCHANGED file

\* A request fails for good, or the process is killed, perhaps while writing.
Fails ==
    /\ \E a \in Files :
          /\ Due(a)
          /\ file' = file \/ \E torn \in TornAs(a) : file' = [file EXCEPT ![a] = torn]
    /\ Leave
    /\ UNCHANGED broke

Next ==
    \/ NextMonth \/ Begin \/ Done
    \/ \E a \in Files : Write(a)
    \/ WriteBook \/ WriteReport
    \/ LacksInput \/ LacksOwn \/ LacksDepth \/ Fails

Spec == Init /\ [][Next]_vars

-----------------------------------------------------------------------------
(* Properties. *)

Finished == stage = "none" /\ at > Len(order)

\* "M6 before M5, despite the numbering."
Documented == <<"m1", "m2", "m3", "m6", "m4", "m5">>

Behind == file["report"].basis \cup file["attribution"].basis

\* Types of the files and of the operator's place.
TypeOK ==
    /\ \A a \in Files : /\ file[a].is \in {"none", "torn", "whole"}
                        /\ file[a].run \in 0..runs
                        /\ \A x \in file[a].basis : x.name \in Files /\ x.run \in 1..runs
    /\ deep \in BOOLEAN
    /\ stage \in Stages \cup {"none"}
    /\ stage # "none" => stage = order[at] /\ k \in 1..(Len(Plan[stage]) + 1)
    /\ at \in 1..(Len(order) + 1) /\ order \in Orders
    /\ pass \in 1..MaxPasses /\ runs \in 0..MaxRuns /\ began \in 1..(runs + 1)
    /\ broke \in Stages \cup {"no", "depth", "resume"}

\* "So that M5's hurdle table and M6's claim cannot quote different numbers for the
\* same thing": at the end of a month in the README's order the two reports rest on the
\* same versions of every file they share, whatever failed and was repeated on the way
\* and however the months before were run.
ReportsAgree ==
    LET report      == file["report"].basis
        attribution == file["attribution"].basis
        shared      == {x.name : x \in report} \cap {y.name : y \in attribution}
    IN  Finished /\ order = Documented
        => \A x \in report \cup attribution :
              x.name \in shared => x \in report /\ x \in attribution

\* ... and on nothing of an earlier month but what M2's parts have kept of it.
OnlyPartsAreOld ==
    Finished /\ order = Documented
    => \A x \in Behind : x.run < began => x \in file["parts"].basis

\* "Each stage reads the previous one's Parquet": in the order of the README none finds
\* a file of another stage missing or half-written.  M1 may, of its own.
InputsReady == broke \in Stages => order # Documented

\* A claim of the README, whose question is of "the past ~29 days": the reports of a month
\* rest on files of that month.
ReportsOfThisMonth ==
    Finished /\ order = Documented => \A x \in Behind : x.run >= began

\* A claim of _swap_ts, which falls back "if M6 has not run yet (it runs after M5 in the
\* documented order) ... rather than quietly overstating how many windows were taken": the
\* swaps counted are those of this month.
SwapsOfThisMonth ==
    Finished => \A x \in file["report"].basis : x.name = "swaps_decoded" => x.run >= began

\* A claim of the README: "M6 only needs M1 and M3."
SixNeedsOneAndThree == broke # "m6"

\* A size the book cannot absorb is reported as "unfillable".
UnfillableReported == broke # "depth"

=============================================================================
