------------------------- MODULE TickArchive_proofs -------------------------
(***************************************************************************)
(* What a download of TickArchive promises, for any window, any number of  *)
(* threads and kills, and whatever the archive publishes when.             *)
(***************************************************************************)
EXTENDS TickArchive, WellFoundedInduction, TLAPS

USE ArchiveAssumption

\* What a run knows: of the days it wants, what it has taken of them, and how that
\* relates to the cache and to what the archive served.
Known ==
    /\ served \subseteq published
    /\ \A d \in AllDays : result[d] # "none" => pc # "idle" /\ d \in Wanted
    /\ \A d \in AllDays : result[d] = "whole" => cache[d] = "whole"
    /\ \A d \in AllDays : result[d] = "missing" => d \notin served
    /\ pc \in {"running", "deliver"} =>
          /\ today - Days <= next
          /\ \A d \in Wanted : d < next => result[d] \in {"whole", "missing"}
    /\ pc = "deliver" => next > today
    /\ \A w \in Busy : job[w].step # "none" /\ job[w].day \in AllDays

IInv == TypeOK /\ ThreadsApart /\ Known

-----------------------------------------------------------------------------
\* A set of numbers that is not empty has a least one.
LEMMA MinType == ASSUME NEW S \in SUBSET Nat, S # {} PROVE Min(S) \in S
<1>1. PICK x \in S : \A y \in S : ~ (<<y, x>> \in OpToRel(<, Nat))
  BY NatLessThanWellFounded, WFMin
<1>2. \A y \in S : x <= y
  <2> TAKE y \in S
  <2>1. ~ (<<y, x>> \in OpToRel(<, Nat))
    BY <1>1
  <2>2. ~ (y < x)
    BY <2>1 DEF OpToRel
  <2> QED
    BY <2>2
<1> QED
  BY <1>2 DEF Min

LEMMA WindowDays == ASSUME TypeOK PROVE Wanted \subseteq AllDays /\ Min(Wanted) = today - Days
<1>1. today \in Int /\ Days \in Nat /\ 1 <= today - Days /\ today <= LastDay
  BY DEF TypeOK
<1>2. Wanted \subseteq AllDays
  BY <1>1 DEF Wanted, AllDays
<1>3. today - Days \in Wanted /\ \A y \in Wanted : today - Days <= y
  BY <1>1 DEF Wanted
<1>4. \A x \in Wanted : (\A y \in Wanted : x <= y) => x = today - Days
  BY <1>1, <1>3 DEF Wanted
<1> QED
  BY <1>2, <1>3, <1>4 DEF Min

LEMMA QueuedDay == ASSUME TypeOK, Queued # {} PROVE Min(Queued) \in AllDays /\ Min(Queued) \in Queued
<1>1. Queued \subseteq AllDays
  BY WindowDays DEF Queued
<1>2. AllDays \subseteq Nat
  BY DEF AllDays
<1> QED
  BY <1>1, <1>2, MinType

\* A thread at work has a day that counts as begun, one of those the run wants.
LEMMA AtWork ==
  ASSUME IInv, NEW w \in Workers, job[w].step # "none" \/ w \in Busy
  PROVE  /\ w \in Busy /\ job[w].day \in AllDays /\ result[job[w].day] = "begun"
         /\ pc # "idle" /\ job[w].step # "none"
<1>1. w \in Busy
  BY DEF Busy, NoJob
<1> QED
  BY <1>1 DEF IInv, TypeOK, ThreadsApart, Known

-----------------------------------------------------------------------------
LEMMA InitInv == Init => IInv
<1> SUFFICES ASSUME Init PROVE IInv
  OBVIOUS
<1>1. today \in (Days + 1)..LastDay /\ 1..Days \subseteq AllDays
  BY DEF Init, AllDays
<1>2. TypeOK
  BY <1>1 DEF Init, TypeOK, NoJob, NoResult, Busy, Steps, Results
<1>3. ThreadsApart /\ Known
  BY DEF Init, ThreadsApart, Known, Busy, NoResult
<1> QED
  BY <1>2, <1>3 DEF IInv

LEMMA StartInv == IInv /\ Start => IInv'
<1> SUFFICES ASSUME IInv, Start PROVE IInv'
  OBVIOUS
<1>1. next' = today - Days /\ next' \in 0..(LastDay + 1)
  BY WindowDays DEF IInv, TypeOK, Start
<1>2. Wanted' = Wanted /\ job' = job /\ Busy = {} /\ Busy' = {}
  BY DEF Start, Wanted, Busy, IInv, ThreadsApart
<1>3. result' \in [AllDays -> Results] /\ \A d \in AllDays :
         result'[d] = IF d \in Wanted THEN "queued" ELSE "none"
  BY DEF Start, Results
<1>4. TypeOK'
  BY <1>1, <1>2, <1>3 DEF IInv, TypeOK, Start
<1>5. ThreadsApart'
  BY <1>2 DEF ThreadsApart
<1>6. Known'
  <2>1. \A d \in Wanted : ~(d < next')
    BY <1>1 DEF Wanted, IInv, TypeOK
  <2>2. today' - Days' <= next' /\ pc' = "running" /\ served' = published /\ published' = published
    BY <1>1 DEF Start, IInv, TypeOK
  <2> QED
    BY <1>2, <1>3, <2>1, <2>2 DEF Known
<1> QED
  BY <1>4, <1>5, <1>6 DEF IInv

LEMMA TakeInv == ASSUME NEW w \in Workers PROVE IInv /\ Take(w) => IInv'
<1> SUFFICES ASSUME IInv, Take(w) PROVE IInv'
  OBVIOUS
<1> DEFINE day == Min(Queued)
<1>1. day \in AllDays /\ day \in Queued
  BY QueuedDay DEF IInv, Take
<1>2. result[day] = "queued" /\ day \in Wanted
  BY <1>1 DEF Queued
<1>3. /\ job' = [job EXCEPT ![w] = [day |-> day, step |-> "look"]]
      /\ result' = [result EXCEPT ![day] = "begun"]
      /\ pc \in {"running", "failed"} /\ job[w] = NoJob
      /\ UNCHANGED <<today, published, cache, trades, pc, next, served, kills>>
  BY DEF Take
<1> HIDE DEF day
<1>4. job' \in [Workers -> [day: 0..LastDay, step: Steps]] /\ result' \in [AllDays -> Results]
  BY <1>1, <1>3 DEF IInv, TypeOK, Steps, Results, AllDays
<1>5. \A v \in Workers : v # w => job'[v] = job[v]
  BY <1>3 DEF IInv, TypeOK
<1>6. job'[w].day = day /\ job'[w].step = "look"
  BY <1>3 DEF IInv, TypeOK
<1>7. \A v \in Busy' : v = w \/ (v \in Busy /\ job'[v] = job[v] /\ job[v].day # day)
  BY <1>2, <1>5 DEF Busy, NoJob, IInv, TypeOK
<1>8. \A v \in Busy' : result'[job'[v].day] = "begun"
  BY <1>1, <1>3, <1>6, <1>7 DEF IInv, TypeOK
<1>9. TypeOK'
  BY <1>3, <1>4, <1>8 DEF IInv, TypeOK
<1>10. ThreadsApart'
  BY <1>3, <1>6, <1>7 DEF IInv, ThreadsApart
<1>11. Known'
  <2>1. \A d \in AllDays : d # day => result'[d] = result[d]
    BY <1>3 DEF IInv, TypeOK
  <2>2. result'[day] = "begun"
    BY <1>1, <1>3 DEF IInv, TypeOK
  <2>3. Wanted \subseteq AllDays /\ Wanted' = Wanted
    BY <1>3, WindowDays DEF IInv, Wanted
  <2>4. \A v \in Busy' : job'[v].step # "none" /\ job'[v].day \in AllDays
    BY <1>1, <1>6, <1>7 DEF IInv, Known
  <2> QED
    BY <1>2, <1>3, <2>1, <2>2, <2>3, <2>4 DEF IInv, Known
<1> QED
  BY <1>9, <1>10, <1>11 DEF IInv

\* A thread that is through with its day.
LEMMA FinishInv ==
  ASSUME NEW w \in Workers, NEW res \in {"whole", "missing", "failed"}, IInv,
         job[w].step # "none", Finish(w, res),
         UNCHANGED <<today, published, trades, pc, next, served, kills>>,
         cache' \in [AllDays -> {"none", "small", "torn", "whole"}],
         \A d \in AllDays : cache[d] = "whole" => cache'[d] = "whole",
         res = "whole" => cache'[job[w].day] = "whole",
         res = "missing" => job[w].day \notin served
  PROVE  IInv'
<1> DEFINE day == job[w].day
<1>1. day \in AllDays /\ result[day] = "begun" /\ w \in Busy
  BY AtWork
<1>2. job' = [job EXCEPT ![w] = NoJob] /\ result' = [result EXCEPT ![day] = res]
  BY DEF Finish
<1>3. job' \in [Workers -> [day: 0..LastDay, step: Steps]] /\ result' \in [AllDays -> Results]
  BY <1>1, <1>2 DEF IInv, TypeOK, NoJob, Steps, Results
<1>4. \A v \in Busy' : v \in Busy /\ v # w /\ job'[v] = job[v]
  BY <1>2 DEF IInv, TypeOK, Busy
<1>5. \A v \in Busy' : job[v].day # day
  BY <1>1, <1>4 DEF IInv, ThreadsApart
<1> HIDE DEF day
<1>6. \A v \in Busy' : result'[job'[v].day] = "begun"
  <2>1. \A v \in Busy : result[job[v].day] = "begun"
    BY DEF IInv, TypeOK
  <2>2. \A v \in Busy' : job[v].day \in AllDays
    BY <1>4 DEF IInv, Known
  <2> QED
    BY <1>2, <1>4, <1>5, <2>1, <2>2 DEF IInv, TypeOK
<1>7. TypeOK'
  BY <1>3, <1>6 DEF IInv, TypeOK
<1>8. ThreadsApart'
  BY <1>4 DEF IInv, ThreadsApart
<1>9. Known'
  <2>1. \A d \in AllDays : d # day => result'[d] = result[d]
    BY <1>2 DEF IInv, TypeOK
  <2>2. result'[day] = res
    BY <1>1, <1>2 DEF IInv, TypeOK
  <2>3. Wanted \subseteq AllDays /\ Wanted' = Wanted
    BY WindowDays DEF IInv, Wanted
  <2>4. \A v \in Busy' : job'[v].step # "none" /\ job'[v].day \in AllDays
    BY <1>4 DEF IInv, Known
  <2> QED
    BY <1>1, <2>1, <2>2, <2>3, <2>4 DEF IInv, Known, day
<1> QED
  BY <1>7, <1>8, <1>9 DEF IInv

\* A thread that goes on to its next step.
LEMMA AdvanceInv ==
  ASSUME NEW w \in Workers, NEW step \in {"get", "write"}, IInv,
         job[w].step # "none", job' = [job EXCEPT ![w].step = step],
         UNCHANGED <<result, today, published, cache, trades, pc, next, served, kills>>
  PROVE  IInv'
<1>1. job' \in [Workers -> [day: 0..LastDay, step: Steps]]
  BY DEF IInv, TypeOK, Steps
<1>2. Busy' = Busy /\ \A v \in Workers : job'[v].day = job[v].day
  BY DEF IInv, TypeOK, Busy, NoJob
<1>3. TypeOK'
  BY <1>1, <1>2 DEF IInv, TypeOK, Busy
<1>4. ThreadsApart' /\ Known'
  BY <1>2 DEF IInv, ThreadsApart, Known, Wanted, Busy
<1> QED
  BY <1>3, <1>4 DEF IInv

LEMMA LookInv == ASSUME NEW w \in Workers PROVE IInv /\ Look(w) => IInv'
<1> SUFFICES ASSUME IInv, Look(w) PROVE IInv'
  OBVIOUS
<1>1. job[w].step # "none" /\ UNCHANGED <<today, published, cache, trades, pc, next, served, kills>>
  BY DEF Look
<1>2. CASE Hit(job[w].day) /\ Finish(w, Unpacked(job[w].day))
  <2>1. /\ Unpacked(job[w].day) \in {"whole", "missing", "failed"}
        /\ Unpacked(job[w].day) # "missing"
        /\ Unpacked(job[w].day) = "whole" => cache'[job[w].day] = "whole"
    BY <1>1 DEF Unpacked
  <2>2. cache' = cache /\ cache \in [AllDays -> {"none", "small", "torn", "whole"}]
    BY <1>1 DEF IInv, TypeOK
  <2> QED
    BY <1>1, <1>2, <2>1, <2>2, FinishInv
<1>3. CASE job' = [job EXCEPT ![w].step = "get"] /\ UNCHANGED result
  BY <1>1, <1>3, AdvanceInv
<1> QED
  BY <1>2, <1>3 DEF Look

LEMMA GetInv == ASSUME NEW w \in Workers PROVE IInv /\ Get(w) => IInv'
<1> SUFFICES ASSUME IInv, Get(w) PROVE IInv'
  OBVIOUS
<1>1. job[w].step # "none" /\ UNCHANGED <<today, published, cache, trades, pc, next, served, kills>>
  BY DEF Get
<1>2. cache' = cache /\ cache \in [AllDays -> {"none", "small", "torn", "whole"}]
  BY <1>1 DEF IInv, TypeOK
<1>3. CASE job[w].day \notin published /\ Finish(w, "missing")
  <2>1. job[w].day \notin served
    BY <1>3 DEF IInv, Known
  <2> QED
    BY <1>1, <1>2, <1>3, <2>1, FinishInv
<1>4. CASE job' = [job EXCEPT ![w].step = "write"] /\ UNCHANGED result
  BY <1>1, <1>4, AdvanceInv
<1>5. CASE Finish(w, "failed")
  BY <1>1, <1>2, <1>5, FinishInv
<1> QED
  BY <1>3, <1>4, <1>5 DEF Get

LEMMA WriteInv == ASSUME NEW w \in Workers PROVE IInv /\ Write(w) => IInv'
<1> SUFFICES ASSUME IInv, Write(w) PROVE IInv'
  OBVIOUS
<1>1. /\ job[w].step # "none" /\ Finish(w, "whole")
      /\ UNCHANGED <<today, published, trades, pc, next, served, kills>>
      /\ cache' = [cache EXCEPT ![job[w].day] = "whole"]
  BY DEF Write
<1>2. job[w].day \in AllDays
  BY <1>1, AtWork
<1>3. /\ cache' \in [AllDays -> {"none", "small", "torn", "whole"}]
      /\ cache'[job[w].day] = "whole"
      /\ \A d \in AllDays : cache[d] = "whole" => cache'[d] = "whole"
  BY <1>1, <1>2 DEF IInv, TypeOK
<1> QED
  BY <1>1, <1>3, FinishInv

LEMMA CollectInv == IInv /\ Collect => IInv'
<1> SUFFICES ASSUME IInv, Collect PROVE IInv'
  OBVIOUS
<1>1. Wanted \subseteq AllDays /\ Wanted' = Wanted /\ next \in Wanted /\ Busy' = Busy
  BY WindowDays DEF IInv, Collect, Wanted, Busy
<1>2. /\ today \in Int /\ next \in Int /\ next <= today /\ today <= LastDay /\ 0 <= next
      /\ today - Days <= next
  BY <1>1 DEF IInv, TypeOK, Wanted
<1>3. CASE result[next] \in {"whole", "missing"} /\ UNCHANGED result
  <2>1. next' = next + 1 /\ pc' = (IF next' \in Wanted THEN "running" ELSE "deliver") /\ pc = "running"
        /\ UNCHANGED <<today, published, cache, trades, job, served, kills>>
    BY <1>3 DEF Collect
  <2>2. next' \in 0..(LastDay + 1)
    BY <1>2, <2>1
  <2>3. TypeOK'
    BY <1>1, <1>3, <2>1, <2>2 DEF IInv, TypeOK
  <2>4. ThreadsApart'
    BY <1>1, <2>1 DEF IInv, ThreadsApart
  <2>5. \A d \in Wanted : d < next' => d < next \/ d = next
    BY <1>2, <2>1 DEF Wanted
  <2>6. next' \notin Wanted => next' > today
    BY <1>2, <2>1 DEF Wanted
  <2>7. today' - Days <= next'
    BY <1>2, <2>1
  <2>8. Known'
    BY <1>1, <1>3, <2>1, <2>5, <2>6, <2>7 DEF IInv, Known
  <2> QED
    BY <2>3, <2>4, <2>8 DEF IInv
<1>4. CASE pc' = "failed" /\ result' = Cancelled /\ UNCHANGED next
  <2>1. UNCHANGED <<today, published, cache, trades, job, served, kills>> /\ pc = "running"
    BY <1>4 DEF Collect
  <2>2. /\ result' \in [AllDays -> Results]
        /\ \A d \in AllDays : result'[d] = result[d] \/ (result[d] = "queued" /\ result'[d] = "none")
    BY <1>4 DEF Cancelled, IInv, TypeOK, Results
  <2>3. \A v \in Busy : result'[job[v].day] = "begun"
    <3> TAKE v \in Busy
    <3>1. result[job[v].day] = "begun" /\ v \in Workers /\ job[v] # NoJob
      BY DEF IInv, TypeOK, Busy
    <3>2. job[v].day \in AllDays
      BY DEF IInv, Known
    <3> QED
      BY <2>2, <3>1, <3>2
  <2>4. TypeOK'
    BY <1>1, <1>4, <2>1, <2>2, <2>3 DEF IInv, TypeOK
  <2>5. ThreadsApart'
    BY <1>1, <1>4, <2>1 DEF IInv, ThreadsApart
  <2>6. Known'
    BY <1>1, <1>4, <2>1, <2>2 DEF IInv, Known
  <2> QED
    BY <2>4, <2>5, <2>6 DEF IInv
<1> QED
  BY <1>3, <1>4 DEF Collect

\* A run that is over, with no thread left.
LEMMA LeaveInv ==
  ASSUME IInv, Leave, Busy' = {},
         job' \in [Workers -> [day: 0..LastDay, step: Steps]],
         trades' \in SUBSET AllDays, kills' \in 0..MaxKills,
         cache' \in [AllDays -> {"none", "small", "torn", "whole"}],
         UNCHANGED <<today, published>>
  PROVE  IInv'
<1>1. result' \in [AllDays -> Results] /\ \A d \in AllDays : result'[d] = "none"
  BY DEF Leave, NoResult, Results
<1>2. TypeOK'
  BY <1>1 DEF IInv, TypeOK, Leave
<1>3. ThreadsApart' /\ Known'
  BY <1>1 DEF Leave, ThreadsApart, Known
<1> QED
  BY <1>2, <1>3 DEF IInv

LEMMA GiveUpInv == IInv /\ GiveUp => IInv'
<1> SUFFICES ASSUME IInv, GiveUp PROVE IInv'
  OBVIOUS
<1>1. Busy' = {}
  BY DEF GiveUp, Drained, Busy
<1> QED
  BY <1>1, LeaveInv DEF GiveUp, IInv, TypeOK

\* A run that delivers has no thread left: all its days have an outcome.
LEMMA DeliverIsDrained == ASSUME IInv, pc = "deliver" PROVE Busy = {}
<1>1. SUFFICES ASSUME NEW v \in Busy PROVE FALSE
  OBVIOUS
<1>2. result[job[v].day] = "begun" /\ v \in Workers /\ job[v].day \in 0..LastDay
  BY <1>1 DEF IInv, TypeOK, Busy
<1>3. \A d \in Wanted : result[d] \in {"whole", "missing"}
  BY DEF IInv, Known, Wanted, TypeOK
<1>4. job[v].day \in Wanted
  BY <1>2 DEF IInv, Known
<1> QED
  BY <1>2, <1>3, <1>4

LEMMA DeliverInv == IInv /\ Deliver => IInv'
<1> SUFFICES ASSUME IInv, Deliver PROVE IInv'
  OBVIOUS
<1>1. Busy' = {}
  BY DeliverIsDrained DEF Deliver, Busy
<1>2. Frames \in SUBSET AllDays
  BY WindowDays DEF IInv, Frames
<1>3. trades' \in SUBSET AllDays
  BY <1>2 DEF Deliver, IInv, TypeOK
<1> QED
  BY <1>1, <1>3, LeaveInv DEF Deliver, IInv, TypeOK

LEMMA KillInv == IInv /\ Kill => IInv'
<1> SUFFICES ASSUME IInv, Kill PROVE IInv'
  OBVIOUS
<1> DEFINE written == {job[w].day : w \in {v \in Workers : job[v].step = "write"}}
<1>1. PICK left \in [written -> IF TornWrites THEN {"small", "torn", "old"} ELSE {"old"}] :
         cache' = [d \in AllDays |-> IF d \in written /\ left[d] # "old" THEN left[d] ELSE cache[d]]
  BY DEF Kill
<1> HIDE DEF written
<1>2. cache' \in [AllDays -> {"none", "small", "torn", "whole"}]
  BY <1>1 DEF IInv, TypeOK
<1>3. /\ job' \in [Workers -> [day: 0..LastDay, step: Steps]]
      /\ Busy' = {}
  BY DEF Kill, NoJob, Steps, Busy
<1>4. kills' \in 0..MaxKills
  BY DEF Kill, IInv, TypeOK
<1> QED
  BY <1>2, <1>3, <1>4, LeaveInv DEF Kill, IInv, TypeOK

LEMMA PublishInv == IInv /\ Publish => IInv'
<1> SUFFICES ASSUME IInv, Publish PROVE IInv'
  OBVIOUS
<1>1. PICK d \in 1..(today - 1) : published' = published \cup {d}
  BY DEF Publish
<1>2. d \in AllDays
  BY DEF IInv, TypeOK, AllDays
<1>3. TypeOK'
  BY <1>1, <1>2 DEF IInv, TypeOK, Publish, run, Busy
<1>4. ThreadsApart' /\ Known'
  BY <1>1 DEF IInv, ThreadsApart, Known, Publish, run, Busy, Wanted
<1> QED
  BY <1>3, <1>4 DEF IInv

LEMMA MidnightInv == IInv /\ Midnight => IInv'
<1> SUFFICES ASSUME IInv, Midnight PROVE IInv'
  OBVIOUS
<1>1. today' \in (Days + 1)..LastDay
  BY DEF IInv, TypeOK, Midnight
<1>2. TypeOK'
  BY <1>1 DEF IInv, TypeOK, Midnight, run, Busy
<1>3. ThreadsApart' /\ Known'
  BY DEF IInv, ThreadsApart, Known, Midnight, run, Busy
<1> QED
  BY <1>2, <1>3 DEF IInv

LEMMA StepInv == IInv /\ [Next]_vars => IInv'
<1>1. IInv /\ UNCHANGED vars => IInv'
  BY DEF vars, run, IInv, TypeOK, ThreadsApart, Known, Busy, Wanted
<1> QED
  BY <1>1, StartInv, TakeInv, LookInv, GetInv, WriteInv, CollectInv, GiveUpInv, DeliverInv,
     KillInv, PublishInv, MidnightInv DEF Next, Main, Worker

LEMMA Invariance == Spec => []IInv
  BY InitInv, StepInv, PTL DEF Spec

-----------------------------------------------------------------------------
\* The run's memory, the cache and the archive keep their types.
THEOREM ArchiveTyping == Spec => []TypeOK
  BY Invariance, PTL DEF IInv

\* download, the pool of threads: none outlives its run, and no two write one file.
THEOREM ThreadsStayApart == Spec => []ThreadsApart
  BY Invariance, PTL DEF IInv

\* download: a run that delivers has every day the archive served when it began, from
\* whole files only.
THEOREM TapesAreComplete == Spec => []TapeComplete
<1>1. IInv => TapeComplete
  <2> SUFFICES ASSUME IInv, pc = "deliver"
               PROVE  /\ served \cap Wanted \subseteq Frames
                      /\ \A d \in Frames : cache[d] = "whole"
    BY DEF TapeComplete
  <2>1. Wanted \subseteq AllDays
    BY WindowDays DEF IInv
  <2>2. \A d \in Wanted : result[d] \in {"whole", "missing"}
    BY DEF IInv, Known, Wanted, TypeOK
  <2> QED
    BY <2>1, <2>2 DEF IInv, Known, Frames
<1> QED
  BY <1>1, Invariance, PTL

=============================================================================
