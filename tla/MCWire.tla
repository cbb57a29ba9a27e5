------------------------------- MODULE MCWire -------------------------------
EXTENDS Wire

\* Two outlets, whose feeds can have the same item.
MCOutlets == <<"VRT NWS", "RTBF">>
MCPrints == [o \in {"VRT NWS", "RTBF"} |-> IF o = "RTBF" THEN {1, 2} ELSE {1}]

=============================================================================
