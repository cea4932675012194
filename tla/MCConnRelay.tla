---------------------------- MODULE MCConnRelay ----------------------------
(* ConnRelay for TLC. *)
EXTENDS ConnRelay

CONSTANTS i1, i2, k1, k2

MCScenes ==
    [server : {"socks"}, events : {{"crash", "stop", "refuse"}, AllEvents \ {"crash", "drop"}}]
    \cup [server : {"ssh"}, events : {{"crash", "stop", "refuse"}, {"crash", "drop"},
                                     {"crash", "idle", "health"}}]
=============================================================================
