------------------------------ MODULE MCArchive ------------------------------
EXTENDS TickArchive

CONSTANTS w1, w2

MCWorkers == {w1, w2}

=============================================================================
