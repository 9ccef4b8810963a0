------------------------- MODULE MCPrioritySemaphore -------------------------
(* The data slots of one peer: two slots, and five sends at the two tiers     *)
(* that ask for them (handshakes ask for none, announces for one of theirs).  *)
EXTENDS PrioritySemaphore

CONSTANTS p, q, a, b, c

MCTier == [t \in Tasks |-> IF t \in {p, q} THEN 1 ELSE 2]
=============================================================================
