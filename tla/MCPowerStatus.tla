---------------------------- MODULE MCPowerStatus ----------------------------
EXTENDS PowerStatus, TLC

CONSTANTS p1, p2, n1, b1

Only(read, list) == [read |-> read, list |-> list]
Nowhere == Only({"unavailable"}, {"absent"})

\* A node whose endpoint HSM discovers late, a BMC whose power actions it
\* discovers late, and a node with a BMC that comes and goes.
MCSites ==
    {(n1 :> Only({"on", "off", "unavailable"}, {"absent", "bare", "full"})) @@ (b1 :> Nowhere),
     (b1 :> Only({"on", "unavailable"}, {"empty", "quiet", "full"})) @@ (n1 :> Nowhere),
     (n1 :> Only({"on"}, {"full"})) @@ (b1 :> Only({"on"}, {"absent", "full"}))}
=============================================================================
