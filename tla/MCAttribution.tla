---------------------------- MODULE MCAttribution ----------------------------
(* Asks deep enough for every swap, bids for the smaller half. *)
EXTENDS Attribution

MCDepth == [sell |-> 3, buy |-> 8]

=============================================================================
