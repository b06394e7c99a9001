--------------------------- MODULE MCOverlayAudits ---------------------------
\* OverlayAudits on small instances.
EXTENDS OverlayAudits
CONSTANTS n1, n2, n3

MCAddresses == {n1, n2, n3}
MCSeedLists == {<<n1>>, <<n1, n2>>, <<n2, n2, n1>>, <<n1, n2, n3>>}
MCGraphs == [MCAddresses -> SUBSET MCAddresses]
MCMaxNodes == [d \in Audits |-> IF d = "peers" THEN 4 ELSE 6]
MCMaxDepth == [d \in Audits |-> IF d = "peers" THEN 1 ELSE 2]
MCRequests == {{"crawl"}, {"handshake"}}
=============================================================================
