------------------------------ MODULE MCAdmin ------------------------------
(* Admin for TLC.  Starts is wide: it is what ExpandInstances is checked on. *)
EXTENDS Admin

CONSTANTS t1, t2

Num(p)      == [kind |-> "num", lo |-> p, hi |-> p]
PortRange(a, b) == [kind |-> "range", lo |-> a, hi |-> b]

Entry(p, r, m) ==
    [named |-> TRUE, port |-> p, replicas |-> r, mode |-> m, ssh |-> m = "ssh", sshPort |-> 0]

MCConfig(es, s, us) ==
    [listen |-> TRUE, strategy |-> s, address |-> TRUE, chunk |-> 0,
     inst |-> es, users |-> us, bin |-> TRUE]

Alice(l) == [name |-> "alice", limit |-> l]

Ports == {Num(p) : p \in 0 .. 2} \cup {PortRange(a, b) : a \in 0 .. 2, b \in 1 .. PortMax + 1}

Expanded ==
    {MCConfig(<<Entry(p, r, "")>>, "", <<>>) : p \in Ports, r \in 0 .. 3}
    \cup {MCConfig(<<Entry(p, r, "ssh"), Entry(q, 2, "")>>, "round_robin", <<>>) :
              p \in Ports, q \in Ports, r \in 0 .. 2}

Played ==
    {MCConfig(<<Entry(Num(1), 1, "")>>, "packet_split", <<>>),
     MCConfig(<<Entry(Num(1), 0, "ssh")>>, "", <<Alice(0)>>)}

MCStarts ==
    [cfg : Expanded, tabs : {{}}, requests : {0}]
    \cup [cfg : {c \in Played : c.users # <<>>}, tabs : {{t1, t2}}, requests : {2}]
    \cup [cfg : Played, tabs : {{t1}}, requests : {3}]

MCNewEntries == {Entry(Num(2), 1, "socks"), Entry(PortRange(1, 2), 2, "")}
MCAccounts   == {Alice(0), Alice(1), [name |-> "bob", limit |-> 0]}
=============================================================================
