---------------------------- MODULE MCPriorityLock ----------------------------
(***************************************************************************)
(* Small instances of PriorityLock: one task of each kind the code has.    *)
(***************************************************************************)
EXTENDS PriorityLock

CONSTANTS window, handshake, proof, report, data

MCTier == [t \in Tasks |->
    CASE t = handshake -> HANDSHAKE
      [] t \in {proof, report} -> ANSWER
      [] OTHER -> NORMAL]
=============================================================================
