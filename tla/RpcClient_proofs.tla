-------------------------- MODULE RpcClient_proofs --------------------------
(***************************************************************************)
(* What RpcClient promises, for every pace, number of retries, set of      *)
(* bodies and latency.  One inductive invariant carries all of it: the     *)
(* properties, and what a request that is under way knows of itself.       *)
(***************************************************************************)
EXTENDS RpcClient, FiniteSetTheorems, TLAPS

\* A request under way has no outcome yet; a call is one call, and the body that
\* answers it is one item with its id.
UnderWay ==
    pc # "idle" =>
        /\ out.st = "none"
        /\ ~batch => size = 1
        /\ pc = "answer" /\ ~batch => body.items[1].id = 0

IInv == TypeOK /\ UnderWay /\ Paced /\ BatchInOrder

-----------------------------------------------------------------------------
\* A clock that stops at Horizon stays within it.
LEMMA LaterType == ASSUME TypeOK, NEW d \in Nat PROVE Later(d) \in 0..Horizon
  BY ClientAssumption DEF TypeOK, Later, Horizon

\* _post's backoff is a time.
LEMMA BackoffType == ASSUME NEW k \in Nat PROVE Backoff(k) \in Nat
<1>1. 2 ^ k \in Nat
  <2>1. IsFiniteSet(1..k) /\ Cardinality(1..k) = k
    BY FS_Interval
  <2>2. IsFiniteSet(SUBSET (1..k)) /\ Cardinality(SUBSET (1..k)) = 2 ^ Cardinality(1..k)
    BY <2>1, FS_SUBSET
  <2> QED
    BY <2>1, <2>2, FS_CardinalityType
<1>2. (2 ^ k) * BackoffUnit \in Nat
  BY <1>1, ClientAssumption
<1> QED
  BY <1>2, ClientAssumption DEF Backoff

\* Slowing down never goes past MaxInterval.
LEMMA SlowerType == ASSUME NEW x \in 0..MaxInterval PROVE Slower(x) \in 0..MaxInterval
  BY ClientAssumption DEF Slower

\* Pairing the items by id: a batch that returns has, at the place of each call, an
\* item with the id of that call.
LEMMA BatchResultInOrder ==
  ASSUME NEW b \in Bodies, size \in Nat, BatchResult(b).st = "returned"
  PROVE  /\ Len(BatchResult(b).values) = size
         /\ \A i \in 1..size : BatchResult(b).values[i] = i - 1
<1> DEFINE v == [i \in 1..size |-> b.items[CHOOSE k \in ById(b, i - 1) : TRUE].id]
<1>1. /\ \A i \in 0..(size - 1) : Answered(b, i)
      /\ BatchResult(b).values = v
  BY DEF BatchResult
<1>2. ASSUME NEW i \in 1..size PROVE v[i] = i - 1
  <2>1. i - 1 \in 0..(size - 1)
    OBVIOUS
  <2>2. PICK k \in ById(b, i - 1) : TRUE
    BY <1>1, <2>1 DEF Answered
  <2>3. (CHOOSE j \in ById(b, i - 1) : TRUE) \in ById(b, i - 1)
    BY <2>2
  <2>4. \A j \in ById(b, i - 1) : b.items[j].id = i - 1
    BY DEF ById
  <2> QED
    BY <2>3, <2>4
<1>3. Len(v) = size
  OBVIOUS
<1> QED
  BY <1>1, <1>2, <1>3

-----------------------------------------------------------------------------
LEMMA InitInv == Init => IInv
<1> SUFFICES ASSUME Init PROVE IInv
  OBVIOUS
<1>1. out.st = "none"
  BY DEF Init
<1>2. attempt \in 0..(Retries - 1) /\ size \in 0..MaxBatch
  BY ClientAssumption DEF Init
<1>3. /\ min_interval \in 0..MaxInterval
      /\ since \in 0..Horizon /\ gap \in 0..Horizon
  BY ClientAssumption DEF Init, Horizon
<1>4. TypeOK
  BY <1>1, <1>2, <1>3 DEF Init, TypeOK
<1>5. UnderWay /\ Paced
  BY DEF Init, UnderWay, Paced
<1> QED
  BY <1>1, <1>4, <1>5 DEF IInv, BatchInOrder

LEMMA RequestInv == IInv /\ Request => IInv'
<1> SUFFICES ASSUME IInv, Request PROVE IInv'
  OBVIOUS
<1> USE DEF IInv
<1>1. PICK d \in Delays : since' = Later(d)
  BY DEF Request
<1>2. since' \in 0..Horizon
  BY <1>1, LaterType, ClientAssumption
<1>3. size' \in 0..MaxBatch /\ (~batch' => size' = 1) /\ batch' \in BOOLEAN
  BY ClientAssumption DEF Request
<1>4. TypeOK'
  BY <1>2, <1>3, ClientAssumption DEF Request, TypeOK
<1>5. UnderWay'
  BY <1>3 DEF Request, UnderWay
<1>6. Paced'
  BY DEF Request, Paced
<1>7. BatchInOrder'
  BY <1>3 DEF Request, BatchInOrder
<1> QED
  BY <1>4, <1>5, <1>6, <1>7

LEMMA ThrottleInv == IInv /\ Throttle => IInv'
<1> SUFFICES ASSUME IInv, Throttle PROVE IInv'
  OBVIOUS
<1> USE DEF IInv
<1>1. GapAfterThrottle \in 0..Horizon /\ GapAfterThrottle >= min_interval
  BY ClientAssumption DEF GapAfterThrottle, TypeOK, Horizon
<1>2. TypeOK'
  BY <1>1, ClientAssumption DEF Throttle, TypeOK, Horizon
<1>3. Paced'
  BY <1>1 DEF Throttle, Paced
<1> QED
  BY <1>2, <1>3 DEF Throttle, UnderWay, BatchInOrder

LEMMA AnswerInv == ASSUME NEW b \in Bodies PROVE IInv /\ Answer(b) => IInv'
<1> SUFFICES ASSUME IInv, Answer(b) PROVE IInv'
  OBVIOUS
<1> USE DEF IInv
<1>1. PICK d \in Delays : since' = Later(d)
  BY DEF Answer
<1>2. since' \in 0..Horizon
  BY <1>1, LaterType, ClientAssumption
<1>3. TypeOK'
  BY <1>2 DEF Answer, TypeOK
<1> QED
  BY <1>3 DEF Answer, UnderWay, Paced, BatchInOrder

LEMMA PostFailsInv == IInv /\ PostFails => IInv'
<1> SUFFICES ASSUME IInv, PostFails PROVE IInv'
  OBVIOUS
<1> USE DEF IInv
<1>1. PICK d \in Delays : since' = Later(d)
  BY DEF PostFails
<1>2. since' \in 0..Horizon
  BY <1>1, LaterType, ClientAssumption
<1>3. TypeOK'
  BY <1>2 DEF PostFails, TypeOK
<1> QED
  BY <1>3 DEF PostFails, UnderWay, Paced, BatchInOrder

LEMMA LimitedInv == IInv /\ Limited => IInv'
<1> SUFFICES ASSUME IInv, Limited PROVE IInv'
  OBVIOUS
<1> USE DEF IInv
<1>1. min_interval' \in 0..MaxInterval
  BY SlowerType DEF Limited, TypeOK
<1>2. TypeOK'
  BY <1>1 DEF Limited, TypeOK
<1> QED
  BY <1>2 DEF Limited, UnderWay, Paced, BatchInOrder

LEMMA ReturnInv == IInv /\ Return => IInv'
<1> SUFFICES ASSUME IInv, Return PROVE IInv'
  OBVIOUS
<1> USE DEF IInv
<1>1. TypeOK'
  BY DEF Return, TypeOK, BatchResult, CallResult
<1>2. BatchInOrder'
  <2> SUFFICES ASSUME out'.st = "returned"
               PROVE  Len(out'.values) = size' /\ \A i \in 1..size' : out'.values[i] = i - 1
    BY DEF BatchInOrder
  <2>1. size' = size /\ size \in Nat
    BY ClientAssumption DEF Return, TypeOK
  <2>2. CASE ~batch
    <3>1. size = 1 /\ body.items[1].id = 0
      BY <2>2 DEF Return, UnderWay
    <3>2. out'.values = <<body.items[1].id>>
      BY <2>2 DEF Return, CallResult
    <3> QED
      BY <2>1, <3>1, <3>2
  <2>3. CASE batch /\ body \in Bodies
    <3>1. out' = BatchResult(body)
      BY <2>3 DEF Return
    <3> QED
      BY <2>1, <2>3, <3>1, BatchResultInOrder
  <2>4. CASE batch /\ body = NoBody
    <3>1. out' = BatchResult(NoBody) /\ ~NoBody.list
      BY <2>4 DEF Return, NoBody
    <3> QED
      BY <3>1 DEF BatchResult
  <2> QED
    BY <2>2, <2>3, <2>4 DEF TypeOK
<1> QED
  BY <1>1, <1>2 DEF Return, UnderWay, Paced

LEMMA BackOffInv == IInv /\ BackOff => IInv'
<1> SUFFICES ASSUME IInv, BackOff PROVE IInv'
  OBVIOUS
<1> USE DEF IInv
<1>1. attempt \in Nat
  BY ClientAssumption DEF TypeOK
<1>2. since' \in 0..Horizon
  BY <1>1, BackoffType, LaterType DEF BackOff
<1>3. attempt' \in 0..(Retries - 1)
  BY ClientAssumption DEF BackOff, TypeOK, LastAttempt, NextAttempt
<1>4. TypeOK'
  BY <1>2, <1>3 DEF BackOff, TypeOK
<1>5. UnderWay'
  BY DEF BackOff, UnderWay
<1> QED
  BY <1>4, <1>5 DEF BackOff, Paced, BatchInOrder

LEMMA StepInv == IInv /\ [Next]_vars => IInv'
<1>1. IInv /\ UNCHANGED vars => IInv'
  BY DEF vars, IInv, TypeOK, UnderWay, Paced, BatchInOrder
<1> QED
  BY <1>1, RequestInv, ThrottleInv, AnswerInv, PostFailsInv, LimitedInv, ReturnInv, BackOffInv
     DEF Next, ClientStep, EndpointStep

LEMMA Invariance == Spec => []IInv
  BY InitInv, StepInv, PTL DEF Spec

-----------------------------------------------------------------------------
\* The client's memory keeps its types; the pace never exceeds three seconds and a
\* request never begins an attempt beyond the last.
THEOREM ClientTyping == Spec => []TypeOK
  BY Invariance, PTL DEF IInv

\* _throttle: no two posts are closer than the pace in force at the second.
THEOREM PostsArePaced == Spec => []Paced
  BY Invariance, PTL DEF IInv

\* Rpc.batch: what is returned are the answers of the calls, in their order.
THEOREM BatchesKeepOrder == Spec => []BatchInOrder
  BY Invariance, PTL DEF IInv

=============================================================================
