----------------------------- MODULE MCRegistry -----------------------------
EXTENDS Registry

CONSTANTS warsaw, madrid, axiom

\* One name, claimed by two DIDs of different homes: an entity that moved and
\* came back under a new key.
MCNameOf == [d \in Dids |-> axiom]
MCHomeOf == [d \in Dids |-> IF d = 1 THEN warsaw ELSE madrid]

\* The second registration is older or newer than the first, the third the oldest.
MCTimes == << {2}, {1, 3}, {1} >>

=============================================================================
