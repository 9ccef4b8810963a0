------------------------------ MODULE MCRouting ------------------------------
(* A Link's proof and a packet over that Link, which share its identifier,  *)
(* and a path request, which RNS repeats.                                   *)
EXTENDS Routing, TLC

CONSTANTS data, proof, request

MCClass == [p \in Packets |->
    IF p = data THEN "data" ELSE IF p = proof THEN "lrproof" ELSE "request"]
MCDest == [p \in Packets |-> "d"]
MCOverLink == Packets \ {request}
MCExtra == [p \in Packets |-> IF p = data THEN 1 ELSE 0]
Once == [p \in Packets |-> IF p = request THEN 2 ELSE 1]
Twice == [p \in Packets |-> 2]
PeerSymmetry == Permutations(Peers)
=============================================================================
