---------------------------- MODULE MCUserLimits ----------------------------
(* UserLimits for TLC. *)
EXTENDS UserLimits, TLC

CONSTANTS k1, k2, k3, k4, ip1, ip2, ip3

\* Every way to relay, for a user with and without a bandwidth limit.
AllModes == [packetSplit : BOOLEAN, needsRateLimit : BOOLEAN]

\* Connections, and addresses, are interchangeable.
ConnSymmetry == Permutations(Conns) \cup Permutations(IPs)
=============================================================================
