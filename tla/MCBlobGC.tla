------------------------------- MODULE MCBlobGC -----------------------------
EXTENDS BlobGC

CONSTANTS l1, m1, m2, p1, p2, x1

\* Every artifact has the one layer.
SharedLayer == [a \in Arts |-> {l1}]
=============================================================================
