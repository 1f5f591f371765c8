--------------------------- MODULE QuoteProperties ---------------------------
(***************************************************************************)
(* What the two passes of QuotePasses promise.                             *)
(***************************************************************************)
EXTENDS QuotePasses

Files(T) == [torn: BOOLEAN, rows: T]

\* Types of the process's memory and of the files.
TypeOK ==
    /\ pc \in {"idle", "load", "fetch", "flush", "put_state", "put_quotes"}
    /\ plan \in [Pools -> SUBSET Blocks]
    /\ pool \in Pools /\ pass \in Passes
    /\ rows \in SUBSET Blocks /\ todo \in SUBSET Blocks
    /\ batch_i \in 0..(FlushEvery - 1)
    /\ st \in [Pools -> SUBSET Blocks] /\ qt \in [Pools -> SUBSET Blocks]
    /\ part \in [Passes -> [Pools -> Files(SUBSET Blocks)]]
    /\ dex_state \in Files([Pools -> SUBSET Blocks])
    /\ dex_quotes \in Files([Pools -> SUBSET Blocks])
    /\ answered \in BOOLEAN
    /\ missed \in [Pools -> SUBSET Blocks] /\ nulls \in 0..MaxNulls
    /\ kills \in 0..MaxKills

Gaps(p) == Undecodable[p] \cup missed[p]

\* A run that is about to deliver has quotes for every block it planned, but for
\* those whose state it could not read itself just now, whatever the earlier runs
\* had missed, saved, lost or torn, over whichever windows.
DeliveryComplete ==
    pc \in {"put_state", "put_quotes"} =>
        \A p \in Pools : plan[p] \ Gaps(p) \subseteq qt[p]

\* "an hour-long job that loses everything on a transient RPC error is not an
\* acceptable design": when a request fails, what is in memory only are the rows
\* of fewer than FlushEvery batches.
LossBounded ==
    pc = "fetch" => Cardinality(rows \ part[pass][pool].rows) <= (FlushEvery - 1) * Batch

\* The part files and the output of each pass are a resumable job: parts grow or
\* are lost whole, and a delivery is what the parts hold.
StateJob == INSTANCE ResumableJob WITH
    Parts <- Pools,
    Items <- Blocks,
    saved <- [p \in Pools |-> part["state"][p].rows],
    delivered <- dex_state.rows

QuotesJob == INSTANCE ResumableJob WITH
    Parts <- Pools,
    Items <- Blocks,
    saved <- [p \in Pools |-> part["quotes"][p].rows],
    delivered <- dex_quotes.rows

ImplementsJobs == StateJob!JobSpec /\ QuotesJob!JobSpec

\* If the first batch of every pass is answered in some of the runs that ask for
\* it, the job is delivered again and again, however all the later requests
\* fail: the first batch of a pass is flushed at once, so that no such run is in
\* vain.  (A batch must hold more blocks than the pool has undecodable ones: those
\* are fetched first again by every run, and could fill a run's only batch.  And
\* null headers must come to an end.)
DeliveredAgain == []<>(pc = "put_quotes")

=============================================================================
