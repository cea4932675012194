---------------------------- MODULE MCSupervisor ----------------------------
(* Supervisor for TLC: probes and restarts by the administrator are explored *)
(* in separate behaviours.                                                   *)
EXTENDS Supervisor

CONSTANTS p1, p2

MCEventSets ==
    {{"crash", "startErr", "shutdown", "reload", "restart"},
     {"crash", "startErr", "shutdown", "check"}}
=============================================================================
