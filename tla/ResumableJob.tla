---------------------------- MODULE ResumableJob ----------------------------
(***************************************************************************)
(* What a resumable, checkpointed job promises its operator, whatever      *)
(* happens to the processes that carry it out: saved work of a part only   *)
(* grows, except that a part may be lost as a whole; and a delivery is     *)
(* nothing but the saved work of all parts.                                *)
(***************************************************************************)
CONSTANTS Parts,    \* the parts the job is split into
          Items     \* the pieces of work

VARIABLES saved,    \* saved[p]: the pieces of part p on file
          delivered \* what was last delivered

jobVars == <<saved, delivered>>

JobInit ==
    /\ saved = [p \in Parts |-> {}]
    /\ delivered = [p \in Parts |-> {}]

Save(p) ==
    /\ \E more \in SUBSET (Items \ saved[p]) : saved' = [saved EXCEPT ![p] = @ \cup more]
    /\ UNCHANGED delivered

Lose(p) ==
    /\ saved' = [saved EXCEPT ![p] = {}]
    /\ UNCHANGED delivered

Deliver ==
    /\ delivered' = saved
    /\ UNCHANGED saved

\* The delivery itself is lost.
Spoil ==
    /\ delivered' = [p \in Parts |-> {}]
    /\ UNCHANGED saved

JobNext == (\E p \in Parts : Save(p) \/ Lose(p)) \/ Deliver \/ Spoil

JobSpec == JobInit /\ [][JobNext]_jobVars

=============================================================================
