-------------------------------- MODULE MCRpc --------------------------------
(* Batches of up to two calls, with the intervals of the public endpoint. *)
EXTENDS RpcClient, SequencesExt

Item(i, k) == [id |-> i, kind |-> k]

MCItems == {Item(i, k) : i \in 0..1, k \in {"result", "error", "limited"}}

\* Lists of up to three items: in order, swapped, short, repeated, refused in
\* part; and single objects.
MCBodies ==
    [list: {TRUE}, items: SeqOf(MCItems, 3)] \cup [list: {FALSE}, items: SeqOf(MCItems, 1)]

MCDelays == {0, 400, 60000}

=============================================================================
