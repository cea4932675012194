------------------------------- MODULE MCWire -------------------------------
(* Wire for TLC: connections get IDs 1, 2 or 2, 3, of which 2 looks like SOCKS5. *)
EXTENDS Wire, TLC

CONSTANTS w1, w2

To(atyp, addr) == [atyp |-> atyp, addr |-> addr, port |-> 2]

MCRequests ==
    {w1 :> To(1, <<7>>)    @@ w2 :> To(3, <<2, 7, 1>>),
     w1 :> To(4, <<7, 1>>) @@ w2 :> To(3, <<0>>)}

MCScenes ==
    [side : {"client"}, faults : {{"timeout"}, {"cut", "idle"}}, chunk : {2}]
    \cup [side : {"central"}, faults : {{"timeout"}, {"cut"}}, chunk : {2}]
    \cup [side : {"client"}, faults : {{}}, chunk : {MaxPayloadSize + 1}]
=============================================================================
