------------------------------- MODULE MCBybit -------------------------------
(* Four ticks, the fewest with which an envelope can cross. *)
EXTENDS BybitQuotes

=============================================================================
