------------------------------ MODULE MCRadio -------------------------------
EXTENDS Radio

CONSTANTS m1, m2, ann, bob

\* Two messages, one of a peer of the node and one from afar.
MCMsgs == {m1, m2}
MCSenderOf == [m \in Msgs |-> IF m = m1 THEN ann ELSE bob]

\* bob is a later registration under ann's name.
MCCalled == [p \in Peers |-> "ann"]
MCSince == [p \in Peers |-> IF p = ann THEN 1 ELSE 2]

=============================================================================
