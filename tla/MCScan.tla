------------------------------- MODULE MCScan -------------------------------
(* Small chains for ScanProperties. *)
EXTENDS ScanProperties, TLC

CONSTANTS n1, n2, agni, moe

Log(p, b, i, e) == [pool |-> p, block |-> b, log_index |-> i, name |-> e]

\* Both pools swap in every two-day window; a one-day window may miss moe's.
MCLogs ==
    {Log(agni, 4, 0, "Swap"), Log(agni, 7, 0, "Mint"), Log(agni, 7, 1, "Swap"),
     Log(moe, 5, 0, "Swap"), Log(moe, 8, 0, "Collect"), Log(agni, 9, 0, "unknown"),
     Log(moe, 9, 0, "Swap")}

MCNodes == {n1, n2}
MCPools == {agni, moe}
MCDays  == {1, 2}
TwoDays == {2}

Symmetry == Permutations(MCNodes)

=============================================================================
