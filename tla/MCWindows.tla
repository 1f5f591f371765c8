------------------------------ MODULE MCWindows ------------------------------
(* Three sizes: the outer two in one direction, the middle one in the other. *)
EXTENDS Verdict, TLC

a1 == [direction |-> "A", size_usd |-> 1]
b2 == [direction |-> "B", size_usd |-> 2]
a3 == [direction |-> "A", size_usd |-> 3]

MCCombos == {a1, b2, a3}
MCMids == {1, 7}

\* The places of the second print of a millisecond: before the first in the orders of the
\* set, and after it in the others.  Between them the pairs meet every two orders at odds.
Tie(a, b, d) ==
    LET at(earlier) == [order \in Orders |-> IF order \in earlier THEN -1 ELSE 0]
    IN  a1 :> at(a) @@ b2 :> at(b) @@ a3 :> at(d)

MCTies == {Tie({"lag", "sum"}, {"sum", "first"}, {"lag"})}

\* Full quotes that make one direction profitable at one of the mids, a block that
\* fills the smallest size only, at half the profit, and one that failed altogether.
MCBlocks ==
    {[swap |-> "A",    breakeven |-> (a1 :> 7) @@ (b2 :> 4) @@ (a3 :> 7)],
     [swap |-> "B",    breakeven |-> (a1 :> 3) @@ (b2 :> 1) @@ (a3 :> 3)],
     [swap |-> "A",    breakeven |-> (a1 :> 4)],
     [swap |-> "none", breakeven |-> <<>>]}

=============================================================================
