---------------------------- MODULE MCTunnelPool ----------------------------
(* TunnelPool for TLC: changes of health and Stop() are explored in separate *)
(* behaviours.                                                               *)
EXTENDS TunnelPool

CONSTANTS i1, i2, a1, a2

MCEventSets ==
    {{"health", "death", "stale", "dialErr"},
     {"death", "stale", "dialErr", "stop"}}
=============================================================================
