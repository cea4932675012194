--------------------------- MODULE MCPacketSplit ---------------------------
(* PacketSplit for TLC. *)
EXTENDS PacketSplit

CONSTANTS n1, n2

\* The tunnels are interchangeable (safety runs only).
TunnelSymmetry == Permutations(Tunnels)
=============================================================================
