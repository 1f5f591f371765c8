------------------------------ MODULE NodePool ------------------------------
(***************************************************************************)
(* The load-balanced Mantle RPC endpoint, as src/mba/config.py describes   *)
(* it: "load-balanced and NOT read-your-writes consistent".  Each request  *)
(* is answered by some node of the pool, and nodes have ingested the chain *)
(* up to different blocks.  The pool is not code of the repository; it is  *)
(* modelled from how src/mba/rpc.py talks to it.                           *)
(*                                                                         *)
(* A node answers eth_blockNumber with its own tip, resolves exactly the   *)
(* blocks up to its tip, and answers eth_getLogs over a range that reaches *)
(* past its tip with the logs it knows.                                    *)
(***************************************************************************)
EXTENDS Integers

CONSTANTS
    Nodes,      \* the nodes behind the load balancer
    Skew,       \* how many blocks two nodes may be apart
    FirstTip,   \* tip of every node when the observation begins
    LastTip     \* bound: the chain is followed up to this block

ASSUME PoolAssumption ==
    /\ Nodes # {}
    /\ Skew \in Nat
    /\ FirstTip \in Nat
    /\ LastTip \in Nat
    /\ FirstTip <= LastTip

VARIABLE tip    \* tip[n]: the last block node n has ingested

PoolTypeOK == tip \in [Nodes -> FirstTip..LastTip]

PoolInit == tip = [n \in Nodes |-> FirstTip]

WithinSkew(t) == \A m, n \in Nodes : t[m] <= t[n] + Skew

Serves(n, b) == b <= tip[n]

\* Node n ingests the next block; the others may lag by at most Skew.
Ingest(n) ==
    /\ tip[n] < LastTip
    /\ tip' = [tip EXCEPT ![n] = @ + 1]
    /\ WithinSkew(tip')

=============================================================================
