--------------------------- MODULE MCTextFragments ---------------------------
(* Two sends of the same bytes. *)
EXTENDS TextFragments, TLC

CONSTANTS sendA, sendB, bytes

MCPacketOf == [t \in Sends |-> bytes]
MCSymmetry == Permutations(Sends)
=============================================================================
