--------------------------- MODULE MCOutgoingQueue ---------------------------
EXTENDS OutgoingQueue
CONSTANTS p1, p2
\* p2 is the more urgent.
MCTier == [p \in Packets |-> IF p = p2 THEN 0 ELSE 2]
=============================================================================
