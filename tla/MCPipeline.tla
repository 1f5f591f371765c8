------------------------------ MODULE MCPipeline ------------------------------
EXTENDS Pipeline

ReadmeOrder == {Documented}

\* The order the docstring of _swap_ts has in mind.
NumericOrder == <<"m1", "m2", "m3", "m4", "m5", "m6">>

MCOrders == {Documented, NumericOrder}

\* M6 as soon as what it is said to need is there; for the claim that it is enough.
EarlyOrder == {<<"m1", "m3", "m6", "m2", "m4", "m5">>}

=============================================================================
