------------------------------ MODULE RpcClient ------------------------------
(***************************************************************************)
(* src/mba/rpc.py, class Rpc: the paced, retrying JSON-RPC client that     *)
(* every network stage of the pipeline uses.  One request at a time: a     *)
(* call, or a batch of calls in one HTTP round trip.                       *)
(*                                                                         *)
(* Time is in milliseconds.  What the client reads of the clock is only    *)
(* the time since its last post, so that is all the state keeps of it, up  *)
(* to the bound Horizon beyond which no decision depends on it.            *)
(*                                                                         *)
(* The answer to call i of a batch is known by the item's id: an item is   *)
(* the answer to the call whose id it carries.                             *)
(***************************************************************************)
EXTENDS Integers, Sequences

CONSTANTS
    MinInterval,    \* config.RPC_MIN_INTERVAL, or what the caller passes
    MaxInterval,    \* 3.0 s in _post
    Retries,        \* Rpc(retries=6)
    BackoffUnit,    \* 0.75 s
    BackoffCap,     \* 20.0 s
    MaxBatch,       \* bound: calls in one batch
    Bodies,         \* the JSON bodies an endpoint sends (see BodiesAssumption)
    Delays          \* how long an answer, or the caller between requests, may take

Horizon == MaxInterval

ItemKinds == {"result", "error", "limited"}
Items == [id: 0..(MaxBatch - 1), kind: ItemKinds]

\* A body is a list of items, in any order, or a single object: the answer to a
\* call, or an endpoint's answer to a whole batch.
ASSUME BodiesAssumption == Bodies \subseteq [list: BOOLEAN, items: Seq(Items)]

ASSUME ClientAssumption ==
    /\ MinInterval \in Nat /\ MaxInterval \in Nat /\ MinInterval <= MaxInterval
    /\ Retries \in Nat \ {0}
    /\ BackoffUnit \in Nat /\ BackoffCap \in Nat
    /\ MaxBatch \in Nat \ {0}
    /\ Delays \subseteq Nat /\ Delays # {}

VARIABLES
    pc,             \* "idle", "throttle", "post", "answer" or "backoff"
    batch,          \* the request is a batch
    size,           \* calls in the request
    attempt,        \* attempts of this request that have failed
    min_interval,   \* Rpc.min_interval
    since,          \* time since _last, at most Horizon
    body,           \* the body of the answer being looked at
    out,            \* what the last request returned or raised
    \* A history variable.
    gap             \* time between the last two posts, at most Horizon

vars == <<pc, batch, size, attempt, min_interval, since, body, out, gap>>

NoBody == [list |-> FALSE, items |-> <<>>]

Later(d) == IF since + d <= Horizon THEN since + d ELSE Horizon

-----------------------------------------------------------------------------
(* Slips the code could contain and does not; see ScanEvents. *)

WaitByPosting == IF since < min_interval THEN since ELSE min_interval
ByPosition(b, i) == IF i + 1 <= Len(b.items) THEN {i + 1} ELSE {}
SameAttempt == attempt

-----------------------------------------------------------------------------
(* The pure parts. *)

Slower(interval) ==
    IF (interval * 3) \div 2 <= MaxInterval THEN (interval * 3) \div 2 ELSE MaxInterval

Backoff(k) == IF (2 ^ k) * BackoffUnit <= BackoffCap THEN (2 ^ k) * BackoffUnit ELSE BackoffCap

\* Time since the last post at which _throttle lets the next one through.
GapAfterThrottle == IF since < min_interval THEN min_interval ELSE since

LastAttempt == attempt + 1 = Retries

NextAttempt == attempt + 1

\* _is_rate_limited: one throttled item condemns the whole body.
IsRateLimited(b) == \E k \in DOMAIN b.items : b.items[k].kind = "limited"

\* by_id.get(i): the last item with id i, if any (later items overwrite).
ById(b, i) ==
    {k \in DOMAIN b.items :
        /\ b.items[k].id = i
        /\ \A j \in DOMAIN b.items : j > k => b.items[j].id # i}

Answered(b, i) == \E k \in ById(b, i) : b.items[k].kind = "result"

\* Rpc.batch after _post: all answers in the order of the calls, or RpcError.
BatchResult(b) ==
    IF b.list /\ \A i \in 0..(size - 1) : Answered(b, i)
    THEN [st |-> "returned",
          values |-> [i \in 1..size |-> b.items[CHOOSE k \in ById(b, i - 1) : TRUE].id]]
    ELSE [st |-> "raised", values |-> <<>>]

\* Rpc.call after _post.
CallResult(b) ==
    IF b.items[1].kind = "result"
    THEN [st |-> "returned", values |-> <<b.items[1].id>>]
    ELSE [st |-> "raised", values |-> <<>>]

-----------------------------------------------------------------------------
Init ==
    /\ pc = "idle"
    /\ batch = FALSE /\ size = 0 /\ attempt = 0
    /\ min_interval = MinInterval
    /\ since = Horizon
    /\ body = NoBody
    /\ out = [st |-> "none", values |-> <<>>]
    /\ gap = Horizon

\* A caller asks, after some time; an empty batch never leaves the client.
Request ==
    /\ pc = "idle"
    /\ batch' \in BOOLEAN
    /\ size' \in IF batch' THEN 0..MaxBatch ELSE {1}
    /\ attempt' = 0
    /\ \E d \in Delays : since' = Later(d)
    /\ IF size' = 0
       THEN pc' = "idle" /\ out' = [st |-> "returned", values |-> <<>>]
       ELSE pc' = "throttle" /\ out' = [st |-> "none", values |-> <<>>]
    /\ UNCHANGED <<min_interval, body, gap>>

\* _throttle sleeps what is missing to min_interval, then restarts _last.
Throttle ==
    /\ pc = "throttle"
    /\ gap' = GapAfterThrottle
    /\ since' = 0
    /\ pc' = "post"
    /\ UNCHANGED <<batch, size, attempt, min_interval, body, out>>

\* The endpoint answers with a body.  The body fits the request: an object for a
\* call; a list, or one object with an error, for a batch.
Answer(b) ==
    /\ pc = "post"
    /\ IF batch THEN b.list \/ (Len(b.items) = 1 /\ b.items[1].kind # "result")
                ELSE ~b.list /\ Len(b.items) = 1 /\ b.items[1].id = 0
    /\ body' = b
    /\ \E d \in Delays : since' = Later(d)
    /\ pc' = "answer"
    /\ UNCHANGED <<batch, size, attempt, min_interval, out, gap>>

\* HTTP status, timeout, transport error, a body that is not JSON.
PostFails ==
    /\ pc = "post"
    /\ \E d \in Delays : since' = Later(d)
    /\ pc' = "backoff"
    /\ UNCHANGED <<batch, size, attempt, min_interval, body, out, gap>>

\* A throttled body: slow down for good, and retry.
Limited ==
    /\ pc = "answer"
    /\ IsRateLimited(body)
    /\ min_interval' = Slower(min_interval)
    /\ body' = NoBody
    /\ pc' = "backoff"
    /\ UNCHANGED <<batch, size, attempt, since, out, gap>>

Return ==
    /\ pc = "answer"
    /\ ~IsRateLimited(body)
    /\ out' = IF batch THEN BatchResult(body) ELSE CallResult(body)
    /\ body' = NoBody
    /\ pc' = "idle"
    /\ UNCHANGED <<batch, size, attempt, min_interval, since, gap>>

\* Every failed attempt sleeps, the last one too.
BackOff ==
    /\ pc = "backoff"
    /\ since' = Later(Backoff(attempt))
    /\ IF LastAttempt
       THEN /\ pc' = "idle"
            /\ out' = [st |-> "raised", values |-> <<>>]
            /\ UNCHANGED attempt
       ELSE /\ pc' = "throttle"
            /\ attempt' = NextAttempt
            /\ UNCHANGED out
    /\ UNCHANGED <<batch, size, min_interval, body, gap>>

ClientStep == Throttle \/ Limited \/ Return \/ BackOff

EndpointStep == PostFails \/ \E b \in Bodies : Answer(b)

Next == Request \/ ClientStep \/ EndpointStep

Spec == Init /\ [][Next]_vars

\* Each post is answered or times out (httpx timeout), and the client goes on.
FairSpec == Spec /\ WF_vars(ClientStep) /\ WF_vars(EndpointStep)

-----------------------------------------------------------------------------
\* Types of the client's memory and of the clocks.
TypeOK ==
    /\ pc \in {"idle", "throttle", "post", "answer", "backoff"}
    /\ batch \in BOOLEAN
    /\ size \in 0..MaxBatch
    /\ attempt \in 0..(Retries - 1)
    /\ min_interval \in 0..MaxInterval
    /\ since \in 0..Horizon
    /\ body \in Bodies \cup {NoBody}
    /\ out.st \in {"none", "returned", "raised"}
    /\ gap \in 0..Horizon

\* Two posts are never closer than the pace in force at the second, whatever the
\* latency of the answer, the backoff and the caller's own pauses were.
Paced == pc \in {"post", "answer"} => gap >= min_interval

\* "Preserves order": a batch returns the answer of every call, at its place,
\* however the endpoint ordered, repeated or dropped the items.
BatchInOrder ==
    out.st = "returned" => Len(out.values) = size /\ \A i \in 1..size : out.values[i] = i - 1

\* Every request returns or raises.
RequestEnds == (pc # "idle") ~> (pc = "idle")

=============================================================================
