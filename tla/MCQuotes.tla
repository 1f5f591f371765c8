------------------------------ MODULE MCQuotes ------------------------------
(* Two pools, two windows that overlap, one block whose state calls fail, and a batch *)
(* that meets a node behind the others. *)
EXTENDS QuoteProperties

MCChanges == {<<{2, 4, 5}, {6}>>, <<{5}, {6}>>}

MCStarts == {1, 4}

MCUndecodable == <<{4}, {}>>

MCLimits == {0, 2}

=============================================================================
