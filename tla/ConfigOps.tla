----------------------------- MODULE ConfigOps -----------------------------
(***************************************************************************)
(* Configurations: internal/config.  A configuration is a record of the    *)
(* fields whose values decide whether it is accepted and what it starts;   *)
(* the ones Validate only defaults (buffer size, connection limit, health  *)
(* check, GUI address) and the names it does not interpret are left out.   *)
(*                                                                         *)
(* An entry of "instances" has a port specification                        *)
(*   kind "num": a number, or a string holding one (lo);                   *)
(*   kind "range": a string "lo-hi";  kind "none": no port;                *)
(*   kind "bad": anything else.                                            *)
(***************************************************************************)
EXTENDS Integers, Sequences, SequencesExt

CONSTANT PortMax   \* 65535

ASSUME PortAssumption == PortMax \in Nat \ {0}

Strategies == {"round_robin", "random", "least_ping", "least_load", "packet_split"}

\* What the file holds, after json.Unmarshal.
PortSpec == [kind : {"num", "range", "none", "bad"}, lo : Int, hi : Int]
InstanceConfig ==
    [named : BOOLEAN, port : PortSpec, replicas : Int, mode : STRING, ssh : BOOLEAN, sshPort : Int]
UserConfig == [name : STRING, limit : Int]
Config ==
    [listen : BOOLEAN, strategy : Strategies \cup STRING, address : BOOLEAN, chunk : Int,
     inst : Seq(InstanceConfig), users : Seq(UserConfig), bin : BOOLEAN]

\* The value of an operation that returns a non-nil error.
Failed == [err |-> TRUE]
OK(v)  == [err |-> FALSE, val |-> v]

-----------------------------------------------------------------------------
(* expand.go                                                               *)

\* Only a range is checked against 1 .. PortMax.
ParsePorts(p) ==
    CASE p.kind = "num" -> OK(<<p.lo>>)
      [] p.kind = "range" /\ p.lo <= p.hi /\ p.lo > 0 /\ p.hi <= PortMax ->
            OK([k \in 1 .. p.hi - p.lo + 1 |-> p.lo + k - 1])
      [] OTHER -> Failed

Replicas(e) == IF e.replicas <= 0 THEN 1 ELSE e.replicas

\* The ports an entry provides: a single port is the first of the replicas'.
Offered(e) ==
    LET ports == ParsePorts(e.port).val
    IN  IF Len(ports) = 1 /\ Replicas(e) > 1
        THEN [r \in 1 .. Replicas(e) |-> ports[1] + r - 1]
        ELSE ports

\* The instances of entry i (OriginalIndex), in the order of their replicas.
ExpandEntry(c, i) ==
    LET e == c.inst[i]
    IN  [r \in 1 .. Replicas(e) |->
            [port |-> Offered(e)[r], mode |-> IF e.mode = "" THEN "socks" ELSE e.mode,
             entry |-> i, replica |-> r]]

\* Mutant: entries may share a port.
ExpandInstancesShared(c) ==
    IF \E e \in ToSet(c.inst) :
          \/ ParsePorts(e.port).err
          \/ Len(Offered(e)) < Replicas(e)
    THEN Failed
    ELSE OK(FlattenSeq([i \in DOMAIN c.inst |-> ExpandEntry(c, i)]))

ExpandInstances(c) ==
    IF \E e \in ToSet(c.inst) :
          \/ ParsePorts(e.port).err
          \/ Len(Offered(e)) < Replicas(e)
    THEN Failed
    ELSE LET all == FlattenSeq([i \in DOMAIN c.inst |-> ExpandEntry(c, i)])
         IN  IF \E k, l \in DOMAIN all : k # l /\ all[k].port = all[l].port
             THEN Failed
             ELSE OK(all)

-----------------------------------------------------------------------------
(* config.go.  named: domain and resolver are set; ssh: the entry has an   *)
(* SSH user and a password or key.                                         *)

EntryAccepted(e) ==
    /\ e.named
    /\ e.port.kind # "none"
    /\ e.mode \in {"", "socks", "ssh"}
    /\ e.mode = "ssh" => e.ssh

EntryDefaults(e) ==
    IF e.mode = "ssh" /\ e.sshPort <= 0 THEN [e EXCEPT !.sshPort = 22] ELSE e

Defaults(c) ==
    [c EXCEPT !.strategy = IF c.strategy = "" THEN "round_robin" ELSE c.strategy,
              !.chunk = IF c.strategy = "packet_split" /\ c.chunk <= 0 THEN 8192 ELSE c.chunk,
              !.inst = [i \in DOMAIN c.inst |-> EntryDefaults(c.inst[i])]]

Validate(c) ==
    IF /\ c.listen
       /\ c.inst # <<>>
       /\ c.strategy \in Strategies \cup {""}
       /\ c.strategy = "packet_split" => c.address
       /\ \A e \in ToSet(c.inst) : EntryAccepted(e)
       /\ ~ ExpandInstances(c).err
    THEN OK(Defaults(c))
    ELSE Failed
=============================================================================
