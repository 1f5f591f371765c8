-------------------------------- MODULE Sums --------------------------------
(***************************************************************************)
(* Sums in the order of a table's rows, as the columns and loops of M4 and *)
(* M5 take them: a recursive function, which the proofs can reason about,  *)
(* where the folds of the library take operators.                          *)
(***************************************************************************)
EXTENDS Integers

\* f[1] + ... + f[n]
SumTo(f, n) ==
    LET total[k \in Nat] == IF k = 0 THEN 0 ELSE total[k - 1] + f[k]
    IN  total[n]

=============================================================================
