------------------------------- MODULE MCBook -------------------------------
(* Every book of up to three bids and three asks around the mid. *)
EXTENDS NetProfit

MCPrices == {2, 3, 4, 6, 8}
MCSizes  == {1, 2}
MCLadder == {1, 5, 8, 16}

MCPoolMids == 3..6
MCBybitMids == 1..12

=============================================================================
