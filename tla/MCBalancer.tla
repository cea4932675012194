----------------------------- MODULE MCBalancer -----------------------------
(* Balancer for TLC: pings 2, 5 and none give weights 2, 1 and 1. *)
EXTENDS Balancer

CONSTANTS p1, p2

Scene(s, ps, f) == [strategy |-> s, pickers |-> ps, flaps |-> f, pings |-> <<2, 5, 0>>]

MCScenes ==
    {Scene("splitter", {p1}, TRUE), Scene("splitter", {p1}, FALSE),
     Scene("weighted_rr", {p1}, FALSE), Scene("weighted_rr", {p1, p2}, FALSE), Scene("weighted_rr", {p1}, TRUE),
     Scene("round_robin", {p1, p2}, FALSE), Scene("round_robin", {p1}, TRUE),
     Scene("least_load", {p1, p2}, FALSE), Scene("least_ping", {p1}, FALSE),
     Scene("random", {p1}, FALSE)}
=============================================================================
