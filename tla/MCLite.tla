------------------------------- MODULE MCLite -------------------------------
EXTENDS Lite

CONSTANTS market, governance

\* One of the two is told to greet the other.
MCGreets == [e \in Entities |-> IF e = market THEN governance ELSE Nobody]

=============================================================================
