------------------------- MODULE Supervisor_proofs -------------------------
(***************************************************************************)
(* Proof that no running slipstream process is ever lost from sight: for   *)
(* every number of generations, process starts and concurrent probes, and  *)
(* whether or not processes can be killed; and that the dashboard's        *)
(* requests (module Admin), which restart and reload those processes, keep *)
(* the file, the memory, the users and what runs in step, for every        *)
(* configuration.                                                          *)
(***************************************************************************)
EXTENDS Supervisor, Admin, CommonLemmas

\* Where the supervisor is about to start a process, none is running; while
\* it waits for one, no other is.
SupervisorOwns ==
    \A g \in Gens :
       /\ sup[g].pc = "wait" => live[g] \subseteq {sup[g].cmd}
       /\ sup[g].pc \in {"exited", "dead", "backoff", "start"} => live[g] = {}

\* Generations still to come have no process and no supervisor, nor has the
\* one that Reload is about to start.
FutureEmpty ==
    \A g \in Gens : (g > gen \/ (g = gen /\ admin.pc = "start")) =>
                       live[g] = {} /\ sup[g].pc = "none"

\* A Reload under way has a generation to go to.
ReloadBounded ==
    (admin.op = "reload" /\ admin.pc \in {"stop", "stopping", "wait"}) => gen < MaxGen

\* The inductive invariant.
Inv == TypeOK /\ ProcessReachable /\ SupervisorOwns /\ FutureEmpty /\ ReloadBounded

Safe == ProcessReachable /\ SupervisorOwns /\ FutureEmpty /\ ReloadBounded

-----------------------------------------------------------------------------
LEMMA InitInv == Init => Inv
<1> SUFFICES ASSUME Init PROVE Inv
  OBVIOUS
<1> USE SupervisorAssumption
<1>1. 1 \in Gens /\ 1 \in Procs
  BY DEF Gens, Procs
<1>2. TypeOK
  <2>1. inst \in [Gens -> InstanceType]
    BY <1>1 DEF Init, InstanceType
  <2>2. sup \in [Gens -> SupType]
    BY DEF Init, SupType, SupPC
  <2>3. admin \in AdminType
    BY DEF Init, AdminType
  <2>4. probe \in [Probes -> ProbeType]
    BY <1>1 DEF Init, IdleProbe, ProbeType, ProbePC
  <2>5. /\ live \in [Gens -> SUBSET Procs]
        /\ started \in [Gens -> 0 .. MaxStarts]
    BY <1>1 DEF Init
  <2>6. /\ failures \in [Gens -> 0 .. maxConsecutiveFailures]
        /\ procFails \in [Gens -> 0 .. maxConsecutiveFailures]
        /\ verified \in [Gens -> Procs \cup {0}]
    BY DEF Init
  <2> QED BY <1>1, <2>1, <2>2, <2>3, <2>4, <2>5, <2>6 DEF Init, TypeOK
<1>3. ProcessReachable /\ SupervisorOwns /\ ReloadBounded
  BY <1>1 DEF Init, ProcessReachable, SupervisorOwns, ReloadBounded
<1>4. FutureEmpty
  BY <1>1 DEF Init, FutureEmpty, Gens
<1> QED BY <1>2, <1>3, <1>4 DEF Inv

-----------------------------------------------------------------------------
(* The types of what the operations assign.                                *)

LEMMA SetStateType ==
    ASSUME TypeOK, NEW g \in Gens, NEW s \in {"Starting", "Healthy", "Unhealthy", "Dead"},
           SetState(g, s)
    PROVE  inst' \in [Gens -> InstanceType]
<1>1. inst \in [Gens -> InstanceType] /\ inst[g] \in InstanceType
  BY DEF TypeOK
<1>2. [inst[g] EXCEPT !.state = s] \in InstanceType
  BY <1>1 DEF InstanceType
<1>3. inst' = [inst EXCEPT ![g] = [inst[g] EXCEPT !.state = s]]
  BY DEF SetState
<1> QED BY <1>1, <1>2, <1>3

\* SetState leaves the process handle alone.
LEMMA SetStateKeepsCmd ==
    ASSUME TypeOK, NEW g \in Gens, NEW s, SetState(g, s)
    PROVE  \A h \in Gens : inst'[h].cmd = inst[h].cmd
<1>1. \A h \in Gens : inst[h] \in InstanceType
  BY DEF TypeOK
<1> QED BY <1>1 DEF SetState, TypeOK, InstanceType

LEMMA StartType ==
    ASSUME TypeOK, NEW g \in Gens, StartOK(g) \/ StartFails(g)
    PROVE  /\ inst' \in [Gens -> InstanceType]
           /\ live' \in [Gens -> SUBSET Procs]
           /\ started' \in [Gens -> 0 .. MaxStarts]
           /\ procFails' \in [Gens -> 0 .. maxConsecutiveFailures]
           /\ verified' \in [Gens -> Procs \cup {0}]
<1> USE SupervisorAssumption
<1>1. CASE StartFails(g)
  BY <1>1 DEF StartFails, TypeOK, history
<1>2. CASE StartOK(g)
  <2>1. started[g] + 1 \in Procs /\ started[g] + 1 \in 0 .. MaxStarts
    BY <1>2 DEF StartOK, TypeOK, Procs
  <2>2. [inst[g] EXCEPT !.cmd = started[g] + 1, !.state = "Starting"] \in InstanceType
    <3>1. inst[g] \in InstanceType
      BY DEF TypeOK
    <3> QED BY <2>1, <3>1 DEF InstanceType
  <2>3. inst' = [inst EXCEPT ![g] =
                   [inst[g] EXCEPT !.cmd = started[g] + 1, !.state = "Starting"]]
    BY <1>2 DEF StartOK
  <2>4. inst' \in [Gens -> InstanceType]
    BY <2>2, <2>3 DEF TypeOK
  <2> QED BY <1>2, <2>1, <2>4 DEF StartOK, TypeOK
<1> QED BY <1>1, <1>2

\* A successful Start() replaces cmd by the process it adds.
LEMMA StartEffect ==
    ASSUME TypeOK, NEW g \in Gens, StartOK(g)
    PROVE  /\ live'[g] = live[g] \cup {started[g] + 1}
           /\ inst'[g].cmd = started[g] + 1
           /\ \A h \in Gens : h # g => live'[h] = live[h] /\ inst'[h] = inst[h]
<1>1. inst' = [inst EXCEPT ![g] =
                 [inst[g] EXCEPT !.cmd = started[g] + 1, !.state = "Starting"]]
  BY DEF StartOK
<1>2. [inst[g] EXCEPT !.cmd = started[g] + 1, !.state = "Starting"].cmd = started[g] + 1
  BY DEF TypeOK, InstanceType
<1> QED BY <1>1, <1>2 DEF StartOK, TypeOK

LEMMA StopType ==
    ASSUME TypeOK, NEW who \in {"admin"} \cup Probes,
           StopBegin(gen, who) \/ StopEnd(gen, who)
    PROVE  inst' \in [Gens -> InstanceType]
<1>0. gen \in Gens /\ inst \in [Gens -> InstanceType] /\ inst[gen] \in InstanceType
  BY DEF TypeOK
<1>1. CASE StopBegin(gen, who)
  <2>1. inst' = [inst EXCEPT ![gen] = [inst[gen] EXCEPT !.mu = who]]
    BY <1>1 DEF StopBegin
  <2>2. [inst[gen] EXCEPT !.mu = who] \in InstanceType
    BY <1>0 DEF InstanceType
  <2> QED BY <1>0, <2>1, <2>2
<1>2. CASE StopEnd(gen, who)
  <2>1. [state |-> "Dead", cmd |-> 0, mu |-> "free"] \in InstanceType
    BY DEF InstanceType
  <2> QED BY <1>0, <1>2, <2>1 DEF StopEnd
<1> QED BY <1>1, <1>2

LEMMA SupGotoType ==
    ASSUME TypeOK, NEW g \in Gens, NEW pc \in SupPC \ {"wait"}, SupGoto(g, pc)
    PROVE  sup' \in [Gens -> SupType]
BY DEF SupGoto, TypeOK, SupType

LEMMA ProbeGotoType ==
    ASSUME TypeOK, NEW p \in Probes, NEW pc \in ProbePC, ProbeGoto(p, pc)
    PROVE  probe' \in [Probes -> ProbeType]
BY DEF ProbeGoto, TypeOK, ProbeType

LEMMA ProbeEndsType ==
    ASSUME TypeOK, NEW p \in Probes, ProbeEnds(p)
    PROVE  probe' \in [Probes -> ProbeType]
<1>1. IdleProbe \in ProbeType
  BY SupervisorAssumption DEF IdleProbe, ProbeType, ProbePC, Gens
<1> QED BY <1>1 DEF ProbeEnds, TypeOK

-----------------------------------------------------------------------------
(* The supervisor's steps.                                                 *)

LEMMA SupStepType == ASSUME TypeOK, NEW g \in Gens, SupStep(g) PROVE TypeOK'
<1>0. {"top", "load", "exited", "dead", "backoff", "start", "done"} \subseteq SupPC \ {"wait"}
  BY DEF SupPC
<1>1. CASE SupTop(g)
  BY <1>0, <1>1, SupGotoType DEF SupTop, TypeOK, history
<1>2. CASE SupLoad(g)
  <2>1. sup' \in [Gens -> SupType]
    BY <1>2 DEF SupLoad, TypeOK, InstanceType, SupType, SupPC
  <2> QED BY <1>2, <2>1 DEF SupLoad, TypeOK, history
<1>3. CASE SupWait(g)
  BY <1>0, <1>3, SupGotoType, SetStateType DEF SupWait, TypeOK, history
<1>4. CASE SupExited(g)
  BY <1>0, <1>4, SupGotoType DEF SupExited, TypeOK, history
<1>5. CASE SupDead(g)
  BY <1>0, <1>5, SupGotoType, SetStateType DEF SupDead, TypeOK, history
<1>6. CASE SupBackoff(g)
  BY <1>0, <1>6, SupGotoType DEF SupBackoff, TypeOK, history
<1>7. CASE SupStart(g)
  BY <1>0, <1>7, SupGotoType, StartType DEF SupStart, TypeOK
<1> QED BY <1>1, <1>2, <1>3, <1>4, <1>5, <1>6, <1>7 DEF SupStep

\* SupGoto moves one supervisor.
LEMMA SupGotoEffect ==
    ASSUME TypeOK, NEW g \in Gens, NEW pc, SupGoto(g, pc)
    PROVE  \A h \in Gens : sup'[h] = IF h = g THEN [pc |-> pc, cmd |-> 0] ELSE sup[h]
BY DEF SupGoto, TypeOK

LEMMA SupSafe == ASSUME Inv, NEW g \in Gens, SupStep(g) PROVE Safe'
<1> USE SupervisorAssumption DEF Inv, Safe, ProcessReachable, SupervisorOwns, FutureEmpty,
        ReloadBounded
<1>1. CASE SupTop(g)
  <2>1. PICK pc \in {"done", "load"} : SupGoto(g, pc)
    BY <1>1 DEF SupTop
  <2>2. \A h \in Gens : sup'[h] = IF h = g THEN [pc |-> pc, cmd |-> 0] ELSE sup[h]
    BY <2>1, SupGotoEffect
  <2>3. sup[g].pc = "top" /\ UNCHANGED <<gen, inst, live, admin>>
    BY <1>1 DEF SupTop
  <2> QED BY <2>2, <2>3
<1>2. CASE SupLoad(g)
  BY <1>2 DEF SupLoad, TypeOK, InstanceType, SupType, Procs
<1>3. CASE SupWait(g)
  BY <1>3 DEF SupWait, SupGoto, SetState, TypeOK, SupType, InstanceType
<1>4. CASE SupExited(g)
  <2>1. PICK pc \in {"done", "dead"} : SupGoto(g, pc)
    BY <1>4 DEF SupExited
  <2>2. \A h \in Gens : sup'[h] = IF h = g THEN [pc |-> pc, cmd |-> 0] ELSE sup[h]
    BY <2>1, SupGotoEffect
  <2>3. sup[g].pc = "exited" /\ UNCHANGED <<gen, inst, live, admin>>
    BY <1>4 DEF SupExited
  <2> QED BY <2>2, <2>3
<1>5. CASE SupDead(g)
  <2>1. /\ \A h \in Gens : sup'[h] = IF h = g THEN [pc |-> "backoff", cmd |-> 0] ELSE sup[h]
        /\ sup[g].pc = "dead" /\ UNCHANGED <<gen, live, admin>>
    BY <1>5, SupGotoEffect DEF SupDead
  <2>2. \A h \in Gens : inst'[h].cmd = inst[h].cmd
    BY <1>5, SetStateKeepsCmd DEF SupDead
  <2> QED BY <2>1, <2>2
<1>6. CASE SupBackoff(g)
  <2>1. PICK pc \in {"done", "start"} : SupGoto(g, pc)
    BY <1>6 DEF SupBackoff
  <2>2. \A h \in Gens : sup'[h] = IF h = g THEN [pc |-> pc, cmd |-> 0] ELSE sup[h]
    BY <2>1, SupGotoEffect
  <2>3. sup[g].pc = "backoff" /\ UNCHANGED <<gen, inst, live, admin>>
    BY <1>6 DEF SupBackoff
  <2> QED BY <2>2, <2>3
<1>7. CASE SupStart(g)
  <2>1. CASE StartOK(g) /\ SupGoto(g, "top")
    <3>1. \A h \in Gens : sup'[h] = IF h = g THEN [pc |-> "top", cmd |-> 0] ELSE sup[h]
      BY <2>1 DEF SupGoto, TypeOK
    <3>2. live[g] = {} /\ sup[g].pc = "start" /\ UNCHANGED <<gen, admin>>
      BY <1>7 DEF SupStart
    <3>3. \A h \in Gens : h # g => live'[h] = live[h] /\ inst'[h] = inst[h]
      BY <2>1, StartEffect
    <3>4. live'[g] = {started[g] + 1} /\ inst'[g].cmd = started[g] + 1
      BY <2>1, <3>2, StartEffect
    <3>5. ProcessReachable'
      BY <3>3, <3>4
    <3>6. SupervisorOwns'
      BY <3>1, <3>3
    <3>7. FutureEmpty' /\ ReloadBounded'
      BY <3>1, <3>2, <3>3
    <3> QED BY <3>5, <3>6, <3>7
  <2>2. CASE StartFails(g) /\ SupGoto(g, "backoff")
    BY <1>7, <2>2 DEF SupStart, SupGoto, StartFails, TypeOK, SupType, history
  <2> QED BY <1>7, <2>1, <2>2 DEF SupStart
<1> QED BY <1>1, <1>2, <1>3, <1>4, <1>5, <1>6, <1>7 DEF SupStep

-----------------------------------------------------------------------------
(* Shutdown and Reload.                                                    *)

LEMMA AdminStepType ==
    ASSUME Inv, AdminStep \/ (\E op \in {"shutdown", "reload"} : AdminCancel(op))
    PROVE  TypeOK'
<1> USE DEF Inv
<1>1. ASSUME NEW op \in {"shutdown", "reload"}, AdminCancel(op) PROVE TypeOK'
  BY <1>1 DEF AdminCancel, AdminType, TypeOK, history
<1>2. ASSUME NEW pc \in {"stopping", "wait", "exited", "start"}, AdminGoto(pc)
      PROVE admin' \in AdminType
  BY <1>2 DEF AdminGoto, AdminType, TypeOK
<1>3. CASE AdminStop
  BY <1>2, <1>3, StopType DEF AdminStop, TypeOK, history
<1>4. CASE AdminStopped
  BY <1>2, <1>4, StopType DEF AdminStopped, TypeOK, history
<1>5. CASE AdminShutdownDone
  BY <1>2, <1>5 DEF AdminShutdownDone, TypeOK, history
<1>6. CASE AdminReplace
  <2>1. gen + 1 \in Gens
    BY <1>6, SupervisorAssumption DEF AdminReplace, ReloadBounded, TypeOK, Gens
  <2> QED BY <1>2, <1>6, <2>1 DEF AdminReplace, TypeOK, history
<1>7. CASE AdminStart
  <2>1. admin' \in AdminType
    BY <1>7 DEF AdminStart, AdminType
  <2>2. sup' \in [Gens -> SupType]
    BY <1>7 DEF AdminStart, TypeOK, SupType, SupPC
  <2> QED BY <1>7, <2>1, <2>2, StartType DEF AdminStart, TypeOK
<1> QED BY <1>1, <1>3, <1>4, <1>5, <1>6, <1>7 DEF AdminStep

LEMMA AdminSafe ==
    ASSUME Inv, AdminStep \/ (\E op \in {"shutdown", "reload"} : AdminCancel(op))
    PROVE  Safe'
<1> USE SupervisorAssumption DEF Inv, Safe, ProcessReachable, SupervisorOwns, FutureEmpty,
        ReloadBounded
<1>0. gen \in Gens /\ Gens \subseteq Nat
  BY DEF TypeOK, Gens
<1>1. ASSUME NEW op \in {"shutdown", "reload"}, AdminCancel(op) PROVE Safe'
  BY <1>1 DEF AdminCancel, TypeOK, AdminType, SupType, InstanceType
<1>2. CASE AdminStop
  BY <1>0, <1>2 DEF AdminStop, StopBegin, AdminGoto, TypeOK, AdminType, SupType, InstanceType
<1>3. CASE AdminStopped
  BY <1>0, <1>3 DEF AdminStopped, StopEnd, AdminGoto, TypeOK, AdminType, SupType, InstanceType
<1>4. CASE AdminShutdownDone
  BY <1>4 DEF AdminShutdownDone, AdminGoto, TypeOK, AdminType, SupType, InstanceType
<1>5. CASE AdminReplace
  BY <1>0, <1>5 DEF AdminReplace, AdminGoto, TypeOK, AdminType, SupType, InstanceType
<1>6. CASE AdminStart
  <2>1. live[gen] = {} /\ sup[gen].pc = "none" /\ gen' = gen /\ admin'.pc = "idle"
    BY <1>0, <1>6 DEF AdminStart
  <2>2. CASE StartOK(gen) /\ sup' = [sup EXCEPT ![gen].pc = "top"]
    <3>1. \A h \in Gens : /\ sup'[h].pc = IF h = gen THEN "top" ELSE sup[h].pc
                          /\ sup'[h].cmd = sup[h].cmd
      BY <1>0, <2>2 DEF TypeOK, SupType
    <3>2. \A h \in Gens : h # gen => live'[h] = live[h] /\ inst'[h] = inst[h]
      BY <1>0, <2>2, StartEffect
    <3>3. live'[gen] = {started[gen] + 1} /\ inst'[gen].cmd = started[gen] + 1
      BY <1>0, <2>1, <2>2, StartEffect
    <3>4. ProcessReachable'
      BY <3>2, <3>3
    <3>5. SupervisorOwns'
      BY <3>1, <3>2
    <3>6. FutureEmpty' /\ ReloadBounded'
      BY <1>0, <2>1, <3>1, <3>2
    <3> QED BY <3>4, <3>5, <3>6
  <2>3. CASE StartFails(gen) /\ UNCHANGED sup
    BY <1>0, <2>1, <2>3 DEF StartFails
  <2> QED BY <1>6, <2>2, <2>3 DEF AdminStart
<1> QED BY <1>1, <1>2, <1>3, <1>4, <1>5, <1>6 DEF AdminStep

-----------------------------------------------------------------------------
(* Probes and restarts.                                                    *)

LEMMA ProbeStepType ==
    ASSUME TypeOK, NEW p \in Probes, checkAll(p) \/ RestartRequest(p) \/ ProbeStep(p)
    PROVE  TypeOK'
<1>0. {"tunnel", "healthy", "mark", "restart", "stopping"} \subseteq ProbePC
  BY DEF ProbePC
<1>1. CASE checkAll(p) \/ RestartRequest(p)
  <2>1. /\ [IdleProbe EXCEPT !.pc = "dial", !.g = gen] \in ProbeType
        /\ [IdleProbe EXCEPT !.pc = "restart", !.g = gen, !.cause = "user"] \in ProbeType
    BY DEF IdleProbe, TypeOK, ProbeType, ProbePC
  <2>2. probe' \in [Probes -> ProbeType]
    BY <1>1, <2>1 DEF checkAll, RestartRequest, TypeOK
  <2> QED BY <1>1, <2>2 DEF checkAll, RestartRequest, TypeOK, history
<1>2. CASE DialOK(p)
  BY <1>0, <1>2, ProbeGotoType DEF DialOK, TypeOK, history
<1>3. CASE ProbeOK(p)
  <2>1. ASSUME NEW pid \in Procs \cup {0}
        PROVE  /\ [probe[p] EXCEPT !.pc = "e2e"] \in ProbeType
               /\ [probe[p] EXCEPT !.pc = "ok", !.pid = pid] \in ProbeType
    BY <2>1 DEF TypeOK, ProbeType, ProbePC
  <2>2. PICK g \in Gens : \E n \in live[g] :
          probe' = [probe EXCEPT ![p] =
             IF @.pc = "tunnel" /\ EndToEnd THEN [@ EXCEPT !.pc = "e2e"]
             ELSE [@ EXCEPT !.pc = "ok", !.pid = IF g = probe[p].g THEN n ELSE 0]]
    BY <1>3 DEF ProbeOK
  <2>3. PICK n \in live[g] :
          probe' = [probe EXCEPT ![p] =
             IF @.pc = "tunnel" /\ EndToEnd THEN [@ EXCEPT !.pc = "e2e"]
             ELSE [@ EXCEPT !.pc = "ok", !.pid = IF g = probe[p].g THEN n ELSE 0]]
    BY <2>2
  <2>4. n \in Procs \cup {0}
    BY DEF TypeOK
  <2>5. probe' \in [Probes -> ProbeType]
    BY <2>1, <2>3, <2>4 DEF TypeOK
  <2> QED BY <1>3, <2>5 DEF ProbeOK, TypeOK, history
<1>4. CASE ProbeFails(p)
  <2>1. probe[p].g \in Gens
    BY DEF TypeOK, ProbeType
  <2>2. /\ failures' \in [Gens -> 0 .. maxConsecutiveFailures]
        /\ procFails' \in [Gens -> 0 .. maxConsecutiveFailures]
        /\ verified' = verified
    BY <1>4, <2>1, SupervisorAssumption DEF ProbeFails, recordFailure, TypeOK
  <2>3. probe' \in [Probes -> ProbeType]
    <3>1. CASE ProbeEnds(p)
      BY <3>1, ProbeEndsType
    <3>2. CASE probe' = [probe EXCEPT ![p].pc = "failed", ![p].cause = probe[p].pc]
      <4>1. probe[p].pc \in {"dial", "tunnel", "e2e"}
        BY <1>4 DEF ProbeFails
      <4>2. [probe[p] EXCEPT !.pc = "failed", !.cause = probe[p].pc] \in ProbeType
        <5>1. probe[p] \in ProbeType
          BY DEF TypeOK
        <5> QED BY <4>1, <5>1 DEF ProbeType, ProbePC
      <4>3. probe' = [probe EXCEPT ![p] =
                        [probe[p] EXCEPT !.pc = "failed", !.cause = probe[p].pc]]
        BY <3>2
      <4> QED BY <4>2, <4>3 DEF TypeOK
    <3> QED BY <1>4, <3>1, <3>2 DEF ProbeFails
  <2> QED BY <1>4, <2>2, <2>3 DEF ProbeFails, TypeOK
<1>5. CASE SeeState(p)
  BY <1>0, <1>5, ProbeGotoType, ProbeEndsType DEF SeeState, TypeOK, history
<1>6. CASE MarkUnhealthy(p) \/ MarkHealthy(p)
  <2>1. probe[p].g \in Gens /\ probe[p].pid \in Procs \cup {0}
    BY DEF TypeOK, ProbeType
  <2>2. inst' \in [Gens -> InstanceType]
    BY <1>6, <2>1, SetStateType DEF MarkUnhealthy, MarkHealthy
  <2>3. probe' \in [Probes -> ProbeType]
    BY <1>0, <1>6, ProbeGotoType, ProbeEndsType DEF MarkUnhealthy, MarkHealthy
  <2> QED BY <1>6, <2>1, <2>2, <2>3 DEF MarkUnhealthy, MarkHealthy, TypeOK, history
<1>7. CASE recordSuccess(p)
  <2>1. 0 \in 0 .. maxConsecutiveFailures
    BY SupervisorAssumption
  <2> QED BY <1>0, <1>7, <2>1, ProbeGotoType DEF recordSuccess, TypeOK
<1>8. CASE RestartInstance(p)
  BY <1>0, <1>8, ProbeGotoType, StopType DEF RestartInstance, TypeOK, history
<1>9. CASE RestartStopped(p)
  BY <1>9, ProbeEndsType, StopType DEF RestartStopped, TypeOK, history
<1> QED BY <1>1, <1>2, <1>3, <1>4, <1>5, <1>6, <1>7, <1>8, <1>9 DEF ProbeStep

\* Probes only read, except for the instance's state and for Stop().
LEMMA ProbeSafe ==
    ASSUME Inv, NEW p \in Probes, checkAll(p) \/ RestartRequest(p) \/ ProbeStep(p)
    PROVE  Safe'
<1> USE DEF Inv, Safe
<1>1. /\ UNCHANGED <<gen, live, sup, admin>>
      /\ \/ \A g \in Gens : inst'[g].cmd = inst[g].cmd
         \/ StopEnd(gen, p)
  <2>1. CASE checkAll(p) \/ RestartRequest(p) \/ DialOK(p) \/ ProbeOK(p) \/ ProbeFails(p)
                \/ SeeState(p) \/ recordSuccess(p)
    BY <2>1 DEF checkAll, RestartRequest, DialOK, ProbeOK, ProbeFails, SeeState, recordSuccess
  <2>2. CASE MarkUnhealthy(p) \/ MarkHealthy(p)
    BY <2>2 DEF MarkUnhealthy, MarkHealthy, SetState, TypeOK, InstanceType
  <2>3. CASE RestartInstance(p)
    BY <2>3 DEF RestartInstance, StopBegin, TypeOK, InstanceType
  <2>4. CASE RestartStopped(p)
    BY <2>4 DEF RestartStopped
  <2> QED BY <2>1, <2>2, <2>3, <2>4 DEF ProbeStep
<1>2. ProcessReachable'
  BY <1>1 DEF StopEnd, ProcessReachable, TypeOK, InstanceType
<1> QED BY <1>1, <1>2 DEF SupervisorOwns, FutureEmpty, ReloadBounded

-----------------------------------------------------------------------------
(* A process dies.                                                         *)

LEMMA DeathInv == ASSUME Inv, NEW g \in Gens, KilledDies(g) \/ Crash(g) PROVE Inv'
<1> USE DEF Inv
<1>1. PICK n : /\ live' = [live EXCEPT ![g] = @ \ {n}]
               /\ UNCHANGED <<events, gen, ctxDone, inst, started, sup, admin, probe, failures, history>>
  BY DEF KilledDies, Crash
<1>2. TypeOK'
  BY <1>1 DEF TypeOK, history
<1>3. ProcessReachable' /\ SupervisorOwns' /\ FutureEmpty' /\ ReloadBounded'
  BY <1>1 DEF TypeOK, ProcessReachable, SupervisorOwns, FutureEmpty, ReloadBounded
<1> QED BY <1>2, <1>3

-----------------------------------------------------------------------------
LEMMA StepInv == Inv /\ [NextStep]_vars => Inv'
<1> SUFFICES ASSUME Inv, [NextStep]_vars PROVE Inv'
  OBVIOUS
<1>1. ASSUME NEW g \in Gens, SupStep(g) PROVE Inv'
  BY <1>1, SupStepType, SupSafe DEF Inv, Safe
<1>2. ASSUME NEW g \in Gens, KilledDies(g) \/ Crash(g) PROVE Inv'
  BY <1>2, DeathInv
<1>3. CASE AdminStep \/ (\E op \in {"shutdown", "reload"} : AdminCancel(op))
  BY <1>3, AdminStepType, AdminSafe DEF Inv, Safe
<1>4. ASSUME NEW p \in Probes, checkAll(p) \/ RestartRequest(p) \/ ProbeStep(p) PROVE Inv'
  BY <1>4, ProbeStepType, ProbeSafe DEF Inv, Safe
<1>5. CASE UNCHANGED vars
  BY <1>5 DEF Inv, vars, TypeOK, ProcessReachable, SupervisorOwns, FutureEmpty, ReloadBounded
<1> QED BY <1>1, <1>2, <1>3, <1>4, <1>5 DEF NextStep

\* The inductive invariant holds in every reachable state.
THEOREM Invariance == Spec => []Inv
<1> QED BY InitInv, StepInv, PTL DEF Spec

\* The supervisor never waits for a nil command, and all state has its type.
THEOREM TypeCorrect == Spec => []TypeOK
<1>1. Inv => TypeOK
  BY DEF Inv
<1> QED BY Invariance, <1>1, PTL

\* An instance has at most one running process, and its cmd field is the
\* handle of it: Start() and Stop() never lose a process.
THEOREM ProcessNeverLost == Spec => []ProcessReachable
<1>1. Inv => ProcessReachable
  BY DEF Inv
<1> QED BY Invariance, <1>1, PTL
-----------------------------------------------------------------------------
(* The refinement.                                                         *)

LEMMA AbstractStart ==
    ASSUME Inv, NEW g \in Gens, StartOK(g), live[g] = {} PROVE Abstract!Start(g)
<1>1. live' = [live EXCEPT ![g] = {started[g] + 1}]
  BY DEF StartOK, Inv, TypeOK
<1> QED BY <1>1 DEF StartOK, Abstract!Start

LEMMA AbstractExit ==
    ASSUME Inv, NEW g \in Gens, KilledDies(g) \/ Crash(g) PROVE Abstract!Exit(g)
<1>1. PICK n \in live[g] : /\ live' = [live EXCEPT ![g] = @ \ {n}]
                           /\ UNCHANGED started
  BY DEF KilledDies, Crash
<1>2. live[g] = {n}
  BY DEF Inv, ProcessReachable
<1>3. live' = [live EXCEPT ![g] = {}]
  BY <1>1, <1>2
<1> QED BY <1>1, <1>2, <1>3 DEF Abstract!Exit

LEMMA AbstractStep == Inv /\ [NextStep]_vars => [Abstract!Next]_<<live, started>>
<1> SUFFICES ASSUME Inv, [NextStep]_vars PROVE Abstract!Next \/ UNCHANGED <<live, started>>
  OBVIOUS
<1>1. ASSUME NEW g \in Gens, SupStep(g) PROVE Abstract!Next \/ UNCHANGED <<live, started>>
  <2>1. CASE sup[g].pc = "start" /\ StartOK(g)
    <3>1. live[g] = {}
      BY <2>1 DEF Inv, SupervisorOwns
    <3> QED BY <2>1, <3>1, AbstractStart DEF Abstract!Next
  <2>2. CASE UNCHANGED <<live, started>>
    BY <2>2
  <2> QED BY <1>1, <2>1, <2>2 DEF SupStep, SupTop, SupLoad, SupWait, SupExited, SupDead,
                                 SupBackoff, SupStart, StartFails
<1>2. ASSUME NEW g \in Gens, KilledDies(g) \/ Crash(g) PROVE Abstract!Next
  BY <1>2, AbstractExit DEF Abstract!Next
<1>3. CASE AdminStep \/ (\E op \in {"shutdown", "reload"} : AdminCancel(op))
  <2>1. CASE admin.pc = "start" /\ StartOK(gen)
    <3>1. gen \in Gens /\ live[gen] = {}
      BY <2>1 DEF Inv, TypeOK, FutureEmpty
    <3> QED BY <2>1, <3>1, AbstractStart DEF Abstract!Next
  <2>2. CASE UNCHANGED <<live, started>>
    BY <2>2
  <2> QED BY <1>3, <2>1, <2>2 DEF AdminStep, AdminCancel, AdminStop, AdminStopped,
                                  AdminShutdownDone, AdminReplace, AdminStart, StartFails
<1>4. ASSUME NEW p \in Probes, checkAll(p) \/ RestartRequest(p) \/ ProbeStep(p)
      PROVE UNCHANGED <<live, started>>
  BY <1>4 DEF checkAll, RestartRequest, ProbeStep, DialOK, ProbeOK, ProbeFails, SeeState,
              MarkUnhealthy, recordSuccess, MarkHealthy, RestartInstance, RestartStopped
<1>5. CASE UNCHANGED vars
  BY <1>5 DEF vars
<1> QED BY <1>1, <1>2, <1>3, <1>4, <1>5 DEF NextStep

\* Whatever restarts, crashes, probes, reloads and shutdowns happen, an
\* instance starts a process only when the one before it has exited.
THEOREM RefinesSingleProcess == Spec => OneProcessAtATime
<1>1. Init => Abstract!Init
  BY DEF Init, Abstract!Init
<1> QED BY Invariance, AbstractStep, <1>1, PTL DEF Spec, OneProcessAtATime, Abstract!Spec


-----------------------------------------------------------------------------
(* Admin: the dashboard, the configuration file and what runs.              *)

\* Validate accepts what it returns, and does not look at the users.

Acceptable(c) ==
    /\ c.listen
    /\ c.inst # <<>>
    /\ c.strategy \in Strategies \cup {""}
    /\ c.strategy = "packet_split" => c.address
    /\ \A e \in ToSet(c.inst) : EntryAccepted(e)
    /\ ~ ExpandInstances(c).err

LEMMA ConfigFields ==
    ASSUME NEW c \in Config
    PROVE  /\ c.listen \in BOOLEAN /\ c.strategy \in Strategies \cup STRING /\ c.address \in BOOLEAN
           /\ c.chunk \in Int /\ c.inst \in Seq(InstanceConfig)
           /\ c.users \in Seq(UserConfig) /\ c.bin \in BOOLEAN
BY DEF Config

LEMMA ConfigEqual ==
    ASSUME NEW c \in Config, NEW d \in Config,
           c.listen = d.listen, c.strategy = d.strategy, c.address = d.address,
           c.chunk = d.chunk, c.inst = d.inst, c.users = d.users, c.bin = d.bin
    PROVE  c = d
BY DEF Config

LEMMA ValidateCases ==
    ASSUME NEW c
    PROVE  /\ Acceptable(c) => /\ Validate(c) = OK(Defaults(c))
                           /\ ~ Validate(c).err /\ Validate(c).val = Defaults(c)
           /\ ~ Acceptable(c) => Validate(c) = Failed /\ Validate(c).err
BY DEF Acceptable, Validate, OK, Failed

LEMMA OKFacts ==
    ASSUME NEW v
    PROVE  /\ OK(v).err = FALSE /\ OK(v).val = v /\ OK(v) # Failed /\ Failed.err = TRUE
           /\ \A w : OK(v) = OK(w) => v = w
<1>1. OK(v).err = FALSE /\ OK(v).val = v /\ Failed.err = TRUE
  BY DEF OK, Failed
<1>2. \A w : OK(w).val = w
  BY DEF OK
<1> QED BY <1>1, <1>2

LEMMA EntryFields ==
    ASSUME NEW e \in InstanceConfig
    PROVE  /\ EntryDefaults(e) \in InstanceConfig
           /\ EntryDefaults(e).named = e.named /\ EntryDefaults(e).port = e.port
           /\ EntryDefaults(e).replicas = e.replicas /\ EntryDefaults(e).mode = e.mode
           /\ EntryDefaults(e).ssh = e.ssh
           /\ EntryDefaults(EntryDefaults(e)) = EntryDefaults(e)
<1>1. CASE e.mode = "ssh" /\ e.sshPort <= 0
  <2> DEFINE d == [e EXCEPT !.sshPort = 22]
  <2>1. EntryDefaults(e) = d
    BY <1>1 DEF EntryDefaults
  <2>2. /\ d \in InstanceConfig /\ d.named = e.named /\ d.port = e.port
        /\ d.replicas = e.replicas /\ d.mode = e.mode /\ d.ssh = e.ssh /\ d.sshPort = 22
    BY DEF InstanceConfig
  <2> HIDE DEF d
  <2>3. EntryDefaults(d) = d
    BY <2>2 DEF EntryDefaults
  <2> QED BY <2>1, <2>2, <2>3
<1>2. CASE ~ (e.mode = "ssh" /\ e.sshPort <= 0)
  <2>1. EntryDefaults(e) = e
    BY <1>2 DEF EntryDefaults
  <2> QED BY <2>1
<1> QED BY <1>1, <1>2

\* The instances a configuration expands to do not depend on the SSH ports, nor
\* on anything but the list of instances.
LEMMA ExpandSame ==
    ASSUME NEW c \in Config, NEW d \in Config, DOMAIN d.inst = DOMAIN c.inst,
           \A i \in DOMAIN c.inst : /\ d.inst[i].port = c.inst[i].port
                                    /\ d.inst[i].replicas = c.inst[i].replicas
                                    /\ d.inst[i].mode = c.inst[i].mode
    PROVE  ExpandInstances(d) = ExpandInstances(c)
<1>1. \A i \in DOMAIN c.inst : /\ Replicas(d.inst[i]) = Replicas(c.inst[i])
                               /\ ParsePorts(d.inst[i].port) = ParsePorts(c.inst[i].port)
                               /\ Offered(d.inst[i]) = Offered(c.inst[i])
  BY DEF Replicas, Offered
<1>2. \A i \in DOMAIN c.inst : ExpandEntry(d, i) = ExpandEntry(c, i)
  <2> SUFFICES ASSUME NEW i \in DOMAIN c.inst PROVE ExpandEntry(d, i) = ExpandEntry(c, i)
    OBVIOUS
  <2>1. /\ Replicas(d.inst[i]) = Replicas(c.inst[i])
        /\ Offered(d.inst[i]) = Offered(c.inst[i])
        /\ d.inst[i].mode = c.inst[i].mode
    BY <1>1
  <2> QED BY <2>1, Zenon DEF ExpandEntry
<1>3. [i \in DOMAIN d.inst |-> ExpandEntry(d, i)] = [i \in DOMAIN c.inst |-> ExpandEntry(c, i)]
  BY <1>2
<1>4. (\E e \in ToSet(d.inst) : ParsePorts(e.port).err \/ Len(Offered(e)) < Replicas(e))
      <=> (\E e \in ToSet(c.inst) : ParsePorts(e.port).err \/ Len(Offered(e)) < Replicas(e))
  BY <1>1 DEF ToSet
<1> QED BY <1>3, <1>4, ZenonT(60) DEF ExpandInstances

DefStrategy(c) == IF c.strategy = "" THEN "round_robin" ELSE c.strategy
DefChunk(c) == IF c.strategy = "packet_split" /\ c.chunk <= 0 THEN 8192 ELSE c.chunk
DefInst(c) == [i \in DOMAIN c.inst |-> EntryDefaults(c.inst[i])]

LEMMA DefaultsTypes ==
    ASSUME NEW c \in Config
    PROVE  DefStrategy(c) \in Strategies \cup STRING /\ DefChunk(c) \in Int /\ DefInst(c) \in Seq(InstanceConfig)
<1>1. DefStrategy(c) \in Strategies \cup STRING
  <2>1. c.strategy \in Strategies \cup STRING
    BY ConfigFields
  <2>2. "round_robin" \in Strategies \cup STRING
    BY DEF Strategies
  <2>3. DefStrategy(c) = "round_robin" \/ DefStrategy(c) = c.strategy
    BY DEF DefStrategy
  <2> QED BY <2>1, <2>2, <2>3
<1>2. DefChunk(c) \in Int
  <2>1. c.chunk \in Int
    BY ConfigFields
  <2> QED BY <2>1 DEF DefChunk
<1>3. DefInst(c) \in Seq(InstanceConfig)
  <2>1. c.inst \in Seq(InstanceConfig)
    BY ConfigFields
  <2>2. DOMAIN c.inst = 1 .. Len(c.inst) /\ Len(c.inst) \in Nat
    BY <2>1
  <2>3. \A i \in DOMAIN c.inst : EntryDefaults(c.inst[i]) \in InstanceConfig
    BY <2>1, EntryFields
  <2>4. DefInst(c) \in [1 .. Len(c.inst) -> InstanceConfig]
    BY <2>2, <2>3 DEF DefInst
  <2> QED BY <2>2, <2>4
<1> QED BY <1>1, <1>2, <1>3

LEMMA DefaultsFacts ==
    ASSUME NEW c \in Config
    PROVE  /\ Defaults(c) \in Config
           /\ Defaults(c).listen = c.listen /\ Defaults(c).address = c.address
           /\ Defaults(c).users = c.users /\ Defaults(c).bin = c.bin
           /\ Defaults(c).strategy = DefStrategy(c)
           /\ Defaults(c).chunk = DefChunk(c) /\ Defaults(c).inst = DefInst(c)
<1>1. Defaults(c) = [c EXCEPT !.strategy = DefStrategy(c), !.chunk = DefChunk(c), !.inst = DefInst(c)]
  BY SMTT(60) DEF Defaults, DefStrategy, DefChunk, DefInst
<1>2. DefStrategy(c) \in Strategies \cup STRING /\ DefChunk(c) \in Int /\ DefInst(c) \in Seq(InstanceConfig)
  BY DefaultsTypes
<1> QED BY <1>1, <1>2 DEF Config

\* What Validate looks at.
LEMMA AcceptSame ==
    ASSUME NEW c \in Config, NEW d \in Config, d.listen = c.listen, d.strategy = c.strategy,
           d.address = c.address, d.inst = c.inst
    PROVE  Acceptable(d) <=> Acceptable(c)
<1>1. ExpandInstances(d) = ExpandInstances(c)
  BY ExpandSame
<1> QED BY <1>1 DEF Acceptable

LEMMA DefaultsAccepted ==
    ASSUME NEW c \in Config, Acceptable(c)
    PROVE  Acceptable(Defaults(c)) /\ Defaults(Defaults(c)) = Defaults(c)
<1> DEFINE d == Defaults(c)
<1>1. /\ d \in Config /\ d.listen = c.listen /\ d.address = c.address
      /\ d.users = c.users /\ d.bin = c.bin
      /\ d.strategy = DefStrategy(c) /\ d.chunk = DefChunk(c) /\ d.inst = DefInst(c)
  BY DefaultsFacts
<1> HIDE DEF d
<1>2. /\ c.inst \in Seq(InstanceConfig) /\ d.inst \in Seq(InstanceConfig) /\ c.chunk \in Int
      /\ DOMAIN c.inst = DOMAIN d.inst /\ \A i \in DOMAIN c.inst : c.inst[i] \in InstanceConfig
  <2>1. c.inst \in Seq(InstanceConfig) /\ d.inst \in Seq(InstanceConfig) /\ c.chunk \in Int
    BY <1>1, ConfigFields
  <2>2. DOMAIN c.inst = DOMAIN d.inst
    BY <1>1 DEF DefInst
  <2> QED BY <2>1, <2>2
<1>3. \A i \in DOMAIN c.inst :
         /\ d.inst[i].named = c.inst[i].named /\ d.inst[i].port = c.inst[i].port
         /\ d.inst[i].replicas = c.inst[i].replicas /\ d.inst[i].mode = c.inst[i].mode
         /\ d.inst[i].ssh = c.inst[i].ssh
         /\ EntryDefaults(d.inst[i]) = d.inst[i]
  <2>1. \A i \in DOMAIN c.inst : d.inst[i] = EntryDefaults(c.inst[i])
    BY <1>1 DEF DefInst
  <2> QED BY <1>2, <2>1, EntryFields
<1>4. ExpandInstances(d) = ExpandInstances(c)
  BY <1>1, <1>2, <1>3, ExpandSame
<1>5. d.strategy \in Strategies \cup {""} /\ (d.strategy = "packet_split" => d.address)
  BY <1>1 DEF Acceptable, Strategies, DefStrategy
<1>6. \A e \in ToSet(d.inst) : EntryAccepted(e)
  <2>1. \A i \in DOMAIN c.inst : EntryAccepted(c.inst[i])
    BY DEF Acceptable, ToSet
  <2>2. \A i \in DOMAIN d.inst : EntryAccepted(d.inst[i])
    BY <1>2, <1>3, <2>1 DEF EntryAccepted
  <2> QED BY <2>2 DEF ToSet
<1>7. d.inst # <<>>
  <2>1. c.inst # <<>>
    BY DEF Acceptable
  <2> QED BY <1>2, <2>1
<1>8. Acceptable(d)
  BY <1>1, <1>4, <1>5, <1>6, <1>7 DEF Acceptable
<1>9. Defaults(d) = d
  <2>1. /\ Defaults(d) \in Config /\ Defaults(d).listen = d.listen
        /\ Defaults(d).address = d.address /\ Defaults(d).users = d.users
        /\ Defaults(d).bin = d.bin
        /\ Defaults(d).strategy = DefStrategy(d) /\ Defaults(d).chunk = DefChunk(d)
        /\ Defaults(d).inst = DefInst(d)
    BY <1>1, DefaultsFacts
  <2>2. DefStrategy(d) = d.strategy
    BY <1>1 DEF DefStrategy
  <2>3. DefChunk(d) = d.chunk
    <3>1. d.strategy = "packet_split" <=> c.strategy = "packet_split"
      BY <1>1 DEF DefStrategy
    <3>2. d.chunk = DefChunk(c)
      BY <1>1
    <3>3. CASE c.strategy = "packet_split" /\ c.chunk <= 0
      <4>1. d.chunk = 8192
        BY <3>2, <3>3 DEF DefChunk
      <4> QED BY <4>1 DEF DefChunk
    <3>4. CASE ~ (c.strategy = "packet_split" /\ c.chunk <= 0)
      <4>1. d.chunk = c.chunk
        BY <3>2, <3>4 DEF DefChunk
      <4>2. ~ (d.strategy = "packet_split" /\ d.chunk <= 0)
        BY <3>1, <3>4, <4>1
      <4> QED BY <4>2 DEF DefChunk
    <3> QED BY <3>3, <3>4
  <2>4. DefInst(d) = d.inst
    BY <1>2, <1>3 DEF DefInst
  <2> QED BY <1>1, <2>1, <2>2, <2>3, <2>4, ConfigEqual
<1> QED BY <1>8, <1>9 DEF d

\* A configuration that has passed Validate: it loads again to itself.
Fixed(c) == Validate(c) = OK(c)

LEMMA FixedIff ==
    ASSUME NEW c PROVE Fixed(c) <=> Acceptable(c) /\ Defaults(c) = c
BY ValidateCases, OKFacts DEF Fixed

LEMMA ValidatedFixed ==
    ASSUME NEW c \in Config, ~ Validate(c).err
    PROVE  /\ Validate(c) = OK(Validate(c).val)
           /\ Validate(c).val \in Config /\ Fixed(Validate(c).val)
           /\ Validate(c).val.users = c.users /\ Validate(c).val.bin = c.bin
<1>1. Acceptable(c) /\ Validate(c).val = Defaults(c) /\ Validate(c) = OK(Defaults(c))
  BY ValidateCases
<1> QED BY <1>1, DefaultsAccepted, DefaultsFacts, FixedIff

LEMMA WithUsers ==
    ASSUME NEW c \in Config, NEW us \in Seq(UserConfig)
    PROVE  LET d == [c EXCEPT !.users = us]
           IN  /\ d \in Config /\ d.users = us /\ d.bin = c.bin
               /\ Fixed(c) => Fixed(d)
<1> DEFINE d == [c EXCEPT !.users = us]
<1>1. /\ d \in Config /\ d.users = us /\ d.bin = c.bin /\ d.listen = c.listen
      /\ d.strategy = c.strategy /\ d.address = c.address /\ d.chunk = c.chunk /\ d.inst = c.inst
  BY DEF Config
<1> HIDE DEF d
<1>2. ASSUME Fixed(c) PROVE Fixed(d)
  <2>1. Acceptable(c) /\ Defaults(c) = c
    BY <1>2, FixedIff
  <2>2. Acceptable(d)
    BY <1>1, <2>1, AcceptSame
  <2>3. /\ Defaults(d) \in Config /\ Defaults(d).listen = d.listen
        /\ Defaults(d).address = d.address /\ Defaults(d).users = d.users
        /\ Defaults(d).bin = d.bin
        /\ Defaults(d).strategy = DefStrategy(d) /\ Defaults(d).chunk = DefChunk(d)
        /\ Defaults(d).inst = DefInst(d)
    BY <1>1, DefaultsFacts
  <2>4. c.strategy = DefStrategy(c) /\ c.chunk = DefChunk(c) /\ c.inst = DefInst(c)
    BY <2>1, DefaultsFacts
  <2>5. DefStrategy(d) = DefStrategy(c) /\ DefChunk(d) = DefChunk(c) /\ DefInst(d) = DefInst(c)
    BY <1>1 DEF DefStrategy, DefChunk, DefInst
  <2>6. Defaults(d) = d
    BY <1>1, <2>3, <2>4, <2>5, ConfigEqual
  <2> QED BY <2>2, <2>6, FixedIff
<1> QED BY <1>1, <1>2 DEF d

-----------------------------------------------------------------------------
\* What dashboards, handlers and the file hold.  Whatever happens, every
\* configuration has the binary the first start needed.

UserOps == {"add", "edit", "delete"}

\* No list of users has a name twice, if those of the first starts have not.
Unique(us) == \A i, k \in DOMAIN us : us[i].name = us[k].name => i = k
UniqueStarts == \A s \in Starts : Unique(s.cfg.users)
Lists == {us \in Seq(UserConfig) : UniqueStarts => Unique(us)}

SameNames(us, vs) == Len(us) = Len(vs) /\ \A i \in DOMAIN vs : us[i].name = vs[i].name

BinConfig == {c \in Config : c.bin = TRUE /\ c.users \in Lists}

PlainJob == [pc : {"idle", "restart"}]
PostJob == [pc : {"truncate", "write", "assign", "assign2"}, op : {"post"}, cfg : BinConfig,
            then : {"idle", "restart"}]
ReloadJob == [pc : {"stop", "wait", "swap", "assign", "assign2", "checker"}, op : {"reload"},
              then : {"idle"}, cfg : BinConfig]
EditJob ==
    {j \in [pc : {"store", "marshal"}, op : UserOps, user : UserConfig, users : Lists,
            read : Lists, then : {"idle"}] : j.op = "edit" => SameNames(j.users, j.read)}
SaveJob == [pc : {"truncate", "write", "manager"}, op : UserOps, user : UserConfig,
            cfg : BinConfig, then : {"idle"}]
JobType == PlainJob \cup PostJob \cup ReloadJob \cup EditJob \cup SaveJob

Typed ==
    /\ file \in {Empty, Mixed} \cup {Json(c) : c \in BinConfig}
    /\ mem \in BinConfig
    /\ CC \in [Tabs -> {Failed} \cup {OK(c) : c \in BinConfig}]
    /\ job \in [Tabs -> JobType]
    /\ up \in {"up", "killed", "dead"} /\ restart \in {"none", "due", "wait"}
    /\ open \subseteq Tabs

\* Only a running program serves requests; and while no two overlapped there is
\* one at most.
One ==
    /\ up # "up" => Alone
    /\ calm => /\ \A s, t \in Tabs : Waits(s) /\ Waits(t) => s = t
               /\ restart # "none" => \A t \in Tabs : ~ Waits(t)

Same == Load(file) = OK(mem)
Quiet == running = {epoch} /\ chks = {chk.id}

\* How far the request has come with making file, memory and processes agree.
Phase(j) ==
    /\ j.pc \in {"restart", "store", "manager"} => Same /\ Quiet
    /\ j.pc = "marshal" => Quiet /\ ~ Load(file).err /\ Fixed(mem)
    /\ j.pc = "truncate" => Quiet /\ ~ Load(file).err
    /\ j.pc = "write" => Quiet /\ file = Empty
    /\ j.pc \in {"truncate", "write"} => Fixed(j.cfg) /\ (j.op # "post" => j.cfg = mem)
    /\ j.pc \in {"stop", "wait", "swap", "assign", "assign2"} => Load(file) = OK(j.cfg)
    /\ j.pc = "stop" => running = {epoch} /\ chks = {}
    /\ j.pc \in {"wait", "swap"} => running = {} /\ chks = {}
    /\ j.pc \in {"assign", "assign2"} =>
          running = {epoch} /\ chks = IF j.op = "post" THEN {chk.id} ELSE {}
    /\ j.pc = "assign2" => mem.users = j.cfg.users /\ mem.listen = j.cfg.listen
    /\ j.pc = "checker" => running = {epoch} /\ chks = {} /\ Same

Sync ==
    calm => /\ up # "dead"
            /\ up = "killed" => ~ Load(file).err
            /\ up = "up" /\ Alone => Same /\ Quiet
            /\ restart = "due" => Same /\ Quiet
            /\ restart = "wait" => Same
            /\ \A t \in Tabs : Phase(job[t])

AdminInv == Typed /\ One /\ Sync

LEMMA BinFields ==
    ASSUME NEW c \in BinConfig
    PROVE  c \in Config /\ c.bin = TRUE /\ c.users \in Lists
BY ConfigFields DEF BinConfig, Lists

LEMMA PlainFields ==
    ASSUME NEW j \in PlainJob PROVE j.pc \in {"idle", "restart"}
BY DEF PlainJob

LEMMA PostFields ==
    ASSUME NEW j \in PostJob
    PROVE  /\ j.pc \in {"truncate", "write", "assign", "assign2"} /\ j.op = "post"
           /\ j.cfg \in BinConfig /\ j.then \in {"idle", "restart"}
BY DEF PostJob

LEMMA ReloadFields ==
    ASSUME NEW j \in ReloadJob
    PROVE  /\ j.pc \in {"stop", "wait", "swap", "assign", "assign2", "checker"} /\ j.op = "reload"
           /\ j.cfg \in BinConfig /\ j.then = "idle"
BY DEF ReloadJob

LEMMA EditFields ==
    ASSUME NEW j \in EditJob
    PROVE  /\ j.pc \in {"store", "marshal"} /\ j.op \in UserOps /\ j.op # "post"
           /\ j.user \in UserConfig /\ j.users \in Lists /\ j.read \in Lists
BY DEF EditJob, UserOps

LEMMA SaveFields ==
    ASSUME NEW j \in SaveJob
    PROVE  /\ j.pc \in {"truncate", "write", "manager"} /\ j.op \in UserOps /\ j.op # "post"
           /\ j.cfg \in BinConfig /\ j.then = "idle"
BY DEF SaveJob, UserOps

LEMMA JobFields ==
    ASSUME NEW j \in JobType
    PROVE  /\ j.pc \in {"idle", "restart"} => j \in PlainJob
           /\ j.pc \in {"store", "marshal"} => j \in EditJob
           /\ j.pc = "manager" => j \in SaveJob
           /\ j.pc \in {"truncate", "write"} => j \in PostJob \/ j \in SaveJob
           /\ j.pc \in {"stop", "wait", "swap", "checker"} => j \in ReloadJob
           /\ j.pc \in {"assign", "assign2"} => j \in PostJob \/ j \in ReloadJob
<1>1. CASE j \in PlainJob
  BY <1>1, PlainFields
<1>2. CASE j \in PostJob
  BY <1>2, PostFields
<1>3. CASE j \in ReloadJob
  BY <1>3, ReloadFields
<1>4. CASE j \in EditJob
  BY <1>4, EditFields
<1>5. CASE j \in SaveJob
  BY <1>5, SaveFields
<1> QED BY <1>1, <1>2, <1>3, <1>4, <1>5 DEF JobType

LEMMA PostGoto ==
    ASSUME NEW j \in PostJob, NEW x \in {"truncate", "write", "assign", "assign2"}
    PROVE  LET g == [j EXCEPT !.pc = x]
           IN  g \in JobType /\ g.pc = x /\ g.op = j.op /\ g.cfg = j.cfg /\ g.then = j.then
BY DEF JobType, PostJob

LEMMA ReloadGoto ==
    ASSUME NEW j \in ReloadJob, NEW x \in {"stop", "wait", "swap", "assign", "assign2", "checker"}
    PROVE  LET g == [j EXCEPT !.pc = x]
           IN  g \in JobType /\ g.pc = x /\ g.op = j.op /\ g.cfg = j.cfg /\ g.then = j.then
BY DEF JobType, ReloadJob

LEMMA EditGoto ==
    ASSUME NEW j \in EditJob, NEW x \in {"store", "marshal"}
    PROVE  LET g == [j EXCEPT !.pc = x]
           IN  g \in JobType /\ g.pc = x /\ g.op = j.op /\ g.user = j.user
BY DEF JobType, EditJob

LEMMA SaveGoto ==
    ASSUME NEW j \in SaveJob, NEW x \in {"truncate", "write", "manager"}
    PROVE  LET g == [j EXCEPT !.pc = x]
           IN  /\ g \in JobType /\ g.pc = x /\ g.op = j.op /\ g.cfg = j.cfg /\ g.then = j.then
               /\ g.user = j.user
BY DEF JobType, SaveJob

LEMMA PlainJobs ==
    ASSUME NEW x \in {"idle", "restart"}
    PROVE  [pc |-> x] \in JobType /\ [pc |-> x].pc = x /\ Idle \in JobType /\ Idle.pc = "idle"
BY DEF JobType, PlainJob, Idle

\* A goroutine moves on, or begins.
LEMMA JobMoves ==
    ASSUME Typed, NEW t \in Tabs, NEW g \in JobType, job' = [job EXCEPT ![t] = g]
    PROVE  /\ job' \in [Tabs -> JobType] /\ job'[t] = g
           /\ \A s \in Tabs : s # t => job'[s] = job[s]
BY DEF Typed

LEMMA GotoMoves ==
    ASSUME Typed, NEW t \in Tabs, NEW x, Goto(t, x)
    PROVE  job' = [job EXCEPT ![t] = [job[t] EXCEPT !.pc = x]]
BY DEF Typed, Goto

LEMMA AnswerMoves ==
    ASSUME NEW t \in Tabs, NEW x, Answer(t, x)
    PROVE  job' = [job EXCEPT ![t] = [pc |-> x]]
BY DEF Answer

\* The invariant after a step of the only goroutine at work ...
LEMMA SoleStep ==
    ASSUME Typed, NEW t \in Tabs, NEW g \in JobType, job' = [job EXCEPT ![t] = g],
           up = "up", restart = "none", UNCHANGED <<up, restart>>,
           \A s \in Tabs : s # t => ~ Waits(s),
           Phase(g)', g.pc = "idle" => Same' /\ Quiet'
    PROVE  One' /\ Sync'
<1>1. job'[t] = g /\ \A s \in Tabs : s # t => job'[s] = job[s] /\ job'[s].pc = "idle"
  BY JobMoves DEF Waits
<1>2. \A s \in Tabs : Waits(s)' => s = t
  BY <1>1 DEF Waits
<1>3. \A s \in Tabs : Phase(job[s])'
  <2> SUFFICES ASSUME NEW s \in Tabs PROVE Phase(job[s])'
    OBVIOUS
  <2>1. CASE s = t
    <3>1. job[s]' = g
      BY <1>1, <2>1
    <3> QED BY <3>1 DEF Phase
  <2>2. CASE s # t
    <3>1. job[s]'.pc = "idle"
      BY <1>1, <2>2
    <3> QED BY <3>1 DEF Phase
  <2> QED BY <2>1, <2>2
<1>4. Alone' => g.pc = "idle"
  BY <1>1 DEF Alone, Waits
<1>5. up' = "up" /\ restart' = "none"
  OBVIOUS
<1>6. One'
  BY <1>2, <1>5 DEF One
<1>7. Sync'
  BY <1>3, <1>4, <1>5 DEF Sync
<1> QED BY <1>6, <1>7

\* ... and of one of several: nothing is promised.
LEMMA MessyStep ==
    ASSUME up' = "up", ~ calm' PROVE One' /\ Sync'
BY DEF One, Sync

LEMMA Busy ==
    ASSUME Typed, One, NEW t \in Tabs, Waits(t)
    PROVE  /\ up = "up"
           /\ calm => restart = "none" /\ \A s \in Tabs : s # t => ~ Waits(s)
<1>1. up = "up"
  BY DEF One, Alone
<1>2. calm => restart = "none" /\ \A s \in Tabs : s # t => ~ Waits(s)
  BY DEF One
<1> QED BY <1>1, <1>2

\* What the file loads to.
LEMMA LoadFacts ==
    ASSUME Typed
    PROVE  /\ Load(file).err \/ Load(file).err = FALSE
           /\ ~ Load(file).err =>
                 /\ Load(file) = OK(Load(file).val)
                 /\ Load(file).val \in BinConfig /\ Fixed(Load(file).val)
                 /\ Bootable(file)
<1>1. ASSUME NEW c \in BinConfig, file = Json(c), ~ Validate(c).err
      PROVE  /\ Load(file) = Validate(c)
             /\ Validate(c) = OK(Validate(c).val)
             /\ Validate(c).val \in BinConfig /\ Fixed(Validate(c).val)
             /\ Validate(c).val.bin = TRUE
  <2>1. c \in Config /\ c.bin = TRUE
    BY BinFields
  <2>2. Load(file) = Validate(c)
    BY <1>1 DEF Load, Json
  <2> QED BY <1>1, <2>1, <2>2, ValidatedFixed DEF BinConfig
<1>2. \A c : Load(Json(c)) = Validate(c)
  BY DEF Load, Json
<1>3. Load(Empty).err = TRUE /\ Load(Mixed).err = TRUE
  BY OKFacts DEF Load, Empty, Mixed
<1>4. \A c : Validate(c).err = TRUE \/ Validate(c).err = FALSE
  BY ValidateCases, OKFacts
<1>5. CASE \E c \in BinConfig : file = Json(c)
  <2>1. PICK c \in BinConfig : file = Json(c)
    BY <1>5
  <2>2. Load(file) = Validate(c)
    BY <1>2, <2>1
  <2>3. CASE ~ Validate(c).err
    BY <1>1, <1>4, <2>1, <2>2, <2>3 DEF Bootable
  <2>4. CASE Validate(c).err
    BY <1>4, <2>2, <2>4
  <2> QED BY <2>3, <2>4
<1>6. CASE file \in {Empty, Mixed}
  BY <1>3, <1>6
<1> QED BY <1>5, <1>6 DEF Typed

LEMMA SameFacts ==
    ASSUME Typed, NEW c, Load(file) = OK(c)
    PROVE  ~ Load(file).err /\ c \in BinConfig /\ Fixed(c)
<1>1. Load(file).err = FALSE /\ Load(file).val = c
  BY OKFacts
<1> QED BY <1>1, LoadFacts

\* A handler moves on alone or among others.
LEMMA Moved ==
    ASSUME Typed, One, NEW t \in Tabs, Waits(t), NEW g \in JobType,
           job' = [job EXCEPT ![t] = g], UNCHANGED <<up, restart, calm>>,
           calm => Phase(g)' /\ (g.pc = "idle" => Same' /\ Quiet')
    PROVE  One' /\ Sync' /\ job' \in [Tabs -> JobType]
<1>1. up = "up" /\ (calm => restart = "none" /\ \A s \in Tabs : s # t => ~ Waits(s))
  BY Busy
<1>2. CASE calm
  BY <1>1, <1>2, SoleStep, JobMoves
<1>3. CASE ~ calm
  BY <1>1, <1>3, MessyStep, JobMoves
<1> QED BY <1>2, <1>3

LEMMA JsonLoads ==
    ASSUME NEW c, Fixed(c)
    PROVE  Load(Json(c)) = OK(c)
BY DEF Fixed, Load, Json

LEMMA EmptyFails ==
    Load(Empty).err = TRUE
BY OKFacts DEF Load, Empty

LEMMA TruncateInv ==
    ASSUME AdminInv, NEW t \in Tabs, Truncate(t)
    PROVE  AdminInv'
<1>1. PICK j \in JobType : j = job[t]
  BY DEF AdminInv, Typed
<1>2. j.pc = "truncate" /\ Waits(t) /\ Goto(t, "write") /\ file' = Empty
  BY <1>1 DEF Truncate, Waits
<1>3. PICK g \in JobType : /\ g = [j EXCEPT !.pc = "write"]
                           /\ g.pc = "write" /\ g.op = j.op /\ g.cfg = j.cfg
  <2>1. CASE j \in PostJob
    BY <2>1, PostGoto
  <2>2. CASE j \in SaveJob
    BY <2>2, SaveGoto
  <2> QED BY <1>2, <2>1, <2>2, JobFields
<1>4. job' = [job EXCEPT ![t] = g]
  BY <1>1, <1>2, <1>3, GotoMoves DEF AdminInv
<1>5. UNCHANGED <<up, mem, epoch, running, chk, chks, CC, restart, open, calm>>
  BY DEF Truncate, server, notes
<1>6. ASSUME calm PROVE Phase(g)'
  <2>1. Phase(j)
    BY <1>1, <1>6 DEF AdminInv, Sync
  <2> QED BY <1>2, <1>3, <1>5, <2>1 DEF Phase, Quiet
<1>7. One' /\ Sync' /\ job' \in [Tabs -> JobType]
  BY <1>2, <1>3, <1>4, <1>5, <1>6, Moved DEF AdminInv
<1>8. Typed'
  BY <1>2, <1>5, <1>7 DEF AdminInv, Typed
<1> QED BY <1>7, <1>8 DEF AdminInv

LEMMA WriteInv ==
    ASSUME AdminInv, NEW t \in Tabs, Write(t)
    PROVE  AdminInv'
<1>1. PICK j \in JobType : j = job[t]
  BY DEF AdminInv, Typed
<1>2. j.pc = "write" /\ Waits(t)
  BY <1>1 DEF Write, Waits
<1>a. file' = Json(j.cfg) \/ (file # Empty /\ file' = Mixed)
  <2>1. file' \in {Json(job[t].cfg)} \cup (IF file = Empty THEN {} ELSE {Mixed})
    BY Zenon DEF Write
  <2>2. CASE file = Empty
    BY <1>1, <2>1, <2>2
  <2>3. CASE file # Empty
    BY <1>1, <2>1, <2>3
  <2> QED BY <2>2, <2>3
<1>b. Goto(t, IF j.op = "post" THEN "assign" ELSE "manager")
  BY <1>1, Zenon DEF Write
<1>c. j.cfg \in BinConfig
  BY <1>2, JobFields, PostFields, SaveFields
<1>3. PICK x \in {"assign", "manager"}, g \in JobType :
         /\ Goto(t, x) /\ (x = "assign" <=> j.op = "post")
         /\ g = [j EXCEPT !.pc = x] /\ g.pc = x /\ g.op = j.op /\ g.cfg = j.cfg
  <2>1. CASE j \in PostJob
    <3>1. j.op = "post"
      BY <2>1, PostFields
    <3>2. Goto(t, "assign")
      BY <1>b, <3>1
    <3> QED BY <2>1, <3>1, <3>2, PostGoto
  <2>2. CASE j \in SaveJob
    <3>1. j.op # "post"
      BY <2>2, SaveFields
    <3>2. Goto(t, "manager")
      BY <1>b, <3>1
    <3> QED BY <2>2, <3>1, <3>2, SaveGoto
  <2> QED BY <1>2, <2>1, <2>2, JobFields
<1>4. job' = [job EXCEPT ![t] = g]
  BY <1>1, <1>3, GotoMoves DEF AdminInv
<1>5. UNCHANGED <<up, mem, epoch, running, chk, chks, CC, restart, open, calm>>
  BY DEF Write, server, notes
<1>6. ASSUME calm PROVE Phase(g)'
  <2>1. Phase(j)
    BY <1>1, <1>6 DEF AdminInv, Sync
  <2>2. Quiet /\ file = Empty /\ Fixed(j.cfg) /\ (j.op # "post" => j.cfg = mem)
    BY <1>2, <2>1 DEF Phase
  <2>3. Load(file') = OK(j.cfg)
    BY <1>a, <2>2, JsonLoads
  <2>4. CASE j.op = "post"
    BY <1>3, <1>5, <2>2, <2>3, <2>4 DEF Phase, Quiet
  <2>5. CASE j.op # "post"
    <3>1. g.pc = "manager" /\ Same' /\ Quiet'
      BY <1>3, <1>5, <2>2, <2>3, <2>5 DEF Same, Quiet
    <3> QED BY <3>1 DEF Phase
  <2> QED BY <2>4, <2>5
<1>7. One' /\ Sync' /\ job' \in [Tabs -> JobType]
  BY <1>2, <1>3, <1>4, <1>5, <1>6, Moved DEF AdminInv
<1>8. Typed'
  BY <1>a, <1>c, <1>5, <1>7 DEF AdminInv, Typed
<1> QED BY <1>7, <1>8 DEF AdminInv

\* Configuration c with another "socks".
Socks(c, us, b) == [c EXCEPT !.users = us, !.listen = b]

LEMMA WithSocks ==
    ASSUME NEW c \in BinConfig, NEW us \in Lists, NEW b, b \in BOOLEAN
    PROVE  /\ Socks(c, us, b) \in BinConfig
           /\ Socks(c, us, b).users = us /\ Socks(c, us, b).listen = b
           /\ us = c.users /\ b = c.listen => Socks(c, us, b) = c
<1> DEFINE d == Socks(c, us, b)
<1>1. c \in Config /\ c.bin = TRUE
  BY BinFields
<1>2. /\ d \in Config /\ d.users = us /\ d.bin = c.bin /\ d.listen = b
      /\ d.strategy = c.strategy /\ d.address = c.address /\ d.chunk = c.chunk /\ d.inst = c.inst
  BY <1>1 DEF Config, Lists, Socks
<1> HIDE DEF d
<1>3. d \in BinConfig
  BY <1>1, <1>2 DEF BinConfig
<1>4. us = c.users /\ b = c.listen => d = c
  BY <1>1, <1>2, ConfigEqual
<1> QED BY <1>2, <1>3, <1>4 DEF d

LEMMA AssignSocksInv ==
    ASSUME AdminInv, NEW t \in Tabs, AssignSocks(t)
    PROVE  AdminInv'
<1>1. PICK j \in JobType : j = job[t]
  BY DEF AdminInv, Typed
<1>2. /\ j.pc = "assign" /\ Waits(t) /\ Goto(t, "assign2")
      /\ mem' = [mem EXCEPT !.users = j.cfg.users, !.listen = j.cfg.listen]
  BY <1>1 DEF AssignSocks, Waits
<1>c. j.cfg \in BinConfig
  BY <1>2, JobFields, PostFields, ReloadFields
<1>3. PICK g \in JobType : /\ g = [j EXCEPT !.pc = "assign2"]
                           /\ g.pc = "assign2" /\ g.op = j.op /\ g.cfg = j.cfg
  <2>1. CASE j \in PostJob
    BY <2>1, PostGoto
  <2>2. CASE j \in ReloadJob
    BY <2>2, ReloadGoto
  <2> QED BY <1>2, <2>1, <2>2, JobFields
<1>4. job' = [job EXCEPT ![t] = g]
  BY <1>1, <1>2, <1>3, GotoMoves DEF AdminInv
<1>5. UNCHANGED <<file, up, epoch, running, chk, chks, CC, restart, open, calm>>
  BY DEF AssignSocks, notes
<1>6. mem' \in BinConfig /\ mem'.users = j.cfg.users /\ mem'.listen = j.cfg.listen
  <2>1. j.cfg.users \in Lists /\ j.cfg.listen \in BOOLEAN
    BY <1>c, BinFields, ConfigFields
  <2>2. mem \in BinConfig
    BY DEF AdminInv, Typed
  <2>3. mem' = Socks(mem, j.cfg.users, j.cfg.listen)
    BY <1>2, Zenon DEF Socks
  <2> QED BY <2>1, <2>2, <2>3, WithSocks
<1>7. ASSUME calm PROVE Phase(g)'
  <2>1. Phase(j)
    BY <1>1, <1>7 DEF AdminInv, Sync
  <2> QED BY <1>2, <1>3, <1>5, <1>6, <2>1 DEF Phase
<1>8. One' /\ Sync' /\ job' \in [Tabs -> JobType]
  BY <1>2, <1>3, <1>4, <1>5, <1>7, Moved DEF AdminInv
<1>9. Typed'
  BY <1>5, <1>6, <1>8 DEF AdminInv, Typed
<1> QED BY <1>8, <1>9 DEF AdminInv

LEMMA AssignRestInv ==
    ASSUME AdminInv, NEW t \in Tabs, AssignRest(t)
    PROVE  AdminInv'
<1>1. PICK j \in JobType : j = job[t]
  BY DEF AdminInv, Typed
<1>2. /\ j.pc = "assign2" /\ Waits(t)
      /\ IF j.op = "post" THEN Answer(t, j.then) ELSE Goto(t, "checker")
      /\ mem' = [j.cfg EXCEPT !.users = mem.users, !.listen = mem.listen]
  BY <1>1 DEF AssignRest, Waits
<1>3. PICK g \in JobType : /\ job' = [job EXCEPT ![t] = g]
                           /\ IF j.op = "post" THEN g.pc \in {"idle", "restart"} ELSE g.pc = "checker"
  <2>1. CASE j \in PostJob
    <3>1. j.op = "post" /\ j.then \in {"idle", "restart"}
      BY <2>1, PostFields
    <3>2. [pc |-> j.then] \in JobType /\ [pc |-> j.then].pc = j.then
      BY <3>1, PlainJobs
    <3>3. job' = [job EXCEPT ![t] = [pc |-> j.then]]
      BY <1>2, <3>1, AnswerMoves
    <3> QED BY <3>1, <3>2, <3>3
  <2>2. CASE j \in ReloadJob
    <3>1. j.op # "post"
      BY <2>2, ReloadFields
    <3>2. [j EXCEPT !.pc = "checker"] \in JobType /\ [j EXCEPT !.pc = "checker"].pc = "checker"
      BY <2>2, ReloadGoto
    <3>3. job' = [job EXCEPT ![t] = [j EXCEPT !.pc = "checker"]]
      BY <1>1, <1>2, <3>1, GotoMoves DEF AdminInv
    <3> QED BY <3>1, <3>2, <3>3
  <2> QED BY <1>2, <2>1, <2>2, JobFields
<1>4. j.cfg \in BinConfig
  BY <1>2, JobFields, PostFields, ReloadFields
<1>5. UNCHANGED <<file, up, epoch, running, chk, chks, CC, restart, open, calm>>
  BY DEF AssignRest, notes
<1>6. /\ mem' \in BinConfig
      /\ mem.users = j.cfg.users /\ mem.listen = j.cfg.listen => mem' = j.cfg
  <2>1. mem \in BinConfig
    BY DEF AdminInv, Typed
  <2>2. mem.users \in Lists /\ mem.listen \in BOOLEAN
    BY <2>1, BinFields, ConfigFields
  <2>3. mem' = Socks(j.cfg, mem.users, mem.listen)
    BY <1>2, Zenon DEF Socks
  <2> QED BY <1>4, <2>2, <2>3, WithSocks
<1>7. ASSUME calm PROVE Phase(g)' /\ (g.pc = "idle" => Same' /\ Quiet')
  <2>1. Phase(j)
    BY <1>1, <1>7 DEF AdminInv, Sync
  <2>2. /\ Load(file) = OK(j.cfg) /\ mem' = j.cfg /\ running = {epoch}
        /\ chks = IF j.op = "post" THEN {chk.id} ELSE {}
    BY <1>2, <1>6, <2>1 DEF Phase
  <2>3. Same'
    BY <1>5, <2>2 DEF Same
  <2>4. CASE j.op = "post"
    <3>1. Quiet' /\ g.pc \in {"idle", "restart"}
      BY <1>3, <1>5, <2>2, <2>4 DEF Quiet
    <3> QED BY <2>3, <3>1 DEF Phase
  <2>5. CASE j.op # "post"
    <3>1. g.pc = "checker" /\ running' = {epoch'} /\ chks' = {}
      BY <1>3, <1>5, <2>2, <2>5
    <3> QED BY <2>3, <3>1 DEF Phase
  <2> QED BY <2>4, <2>5
<1>8. One' /\ Sync' /\ job' \in [Tabs -> JobType]
  BY <1>2, <1>3, <1>5, <1>7, Moved DEF AdminInv
<1>9. Typed'
  BY <1>5, <1>6, <1>8 DEF AdminInv, Typed
<1> QED BY <1>8, <1>9 DEF AdminInv

LEMMA SameNamesUnique ==
    ASSUME NEW us \in Seq(UserConfig), NEW vs \in Lists, SameNames(us, vs)
    PROVE  us \in Lists
<1>1. DOMAIN us = 1 .. Len(us) /\ DOMAIN vs = 1 .. Len(us)
  BY DEF Lists, SameNames
<1>2. Unique(vs) => Unique(us)
  BY <1>1 DEF Unique, SameNames
<1> QED BY <1>2 DEF Lists

\* Sequence q with its head replaced by a.
Overwritten(a, q) == a \o SubSeq(q, Len(a) + 1, Len(q))

LEMMA OverwriteFacts ==
    ASSUME NEW T, NEW a \in Seq(T), NEW q \in Seq(T), Len(a) <= Len(q)
    PROVE  /\ Overwritten(a, q) \in Seq(T) /\ Len(Overwritten(a, q)) = Len(q)
           /\ \A i \in 1 .. Len(q) : Overwritten(a, q)[i] = IF i <= Len(a) THEN a[i] ELSE q[i]
<1> DEFINE c == Overwritten(a, q)
<1>1. PICK m, n : m = Len(a) /\ n = Len(q)
  OBVIOUS
<1>2. m \in Nat /\ n \in Nat /\ m <= n /\ \A i \in 1 .. n : q[i] \in T
  BY <1>1
<1>3. PICK b : b = SubSeq(q, m + 1, n)
  OBVIOUS
<1>4. /\ b \in Seq(T) /\ Len(b) = IF m + 1 <= n THEN n - (m + 1) + 1 ELSE 0
      /\ \A i \in 1 .. n - (m + 1) + 1 : b[i] = q[m + 1 + i - 1]
  <2>1. \A i \in m + 1 .. n : q[i] \in T
    BY <1>2
  <2> QED BY <1>2, <1>3, <2>1, SubSeqProperties
<1>5. Len(b) = n - m /\ m + (n - m) = n
  BY <1>2, <1>4
<1>6. ASSUME NEW i \in 1 .. n, ~ (i <= m) PROVE b[i - m] = q[i]
  <2>1. i - m \in 1 .. n - (m + 1) + 1 /\ m + 1 + (i - m) - 1 = i
    BY <1>2, <1>6
  <2> QED BY <1>4, <2>1
<1>7. /\ c \in Seq(T) /\ Len(c) = Len(a) + Len(b)
      /\ \A i \in 1 .. Len(a) + Len(b) : c[i] = IF i <= Len(a) THEN a[i] ELSE b[i - Len(a)]
  <2>1. c = a \o b
    BY <1>1, <1>3 DEF Overwritten
  <2>2. /\ a \o b \in Seq(T) /\ Len(a \o b) = Len(a) + Len(b)
        /\ \A i \in 1 .. Len(a) + Len(b) :
              (a \o b)[i] = IF i <= Len(a) THEN a[i] ELSE b[i - Len(a)]
    BY <1>4, ConcatProperties
  <2> QED BY <2>1, <2>2
<1> HIDE DEF c
<1>8. c \in Seq(T) /\ Len(c) = n /\ \A i \in 1 .. n : c[i] = IF i <= m THEN a[i] ELSE q[i]
  BY <1>1, <1>5, <1>6, <1>7
<1> QED BY <1>1, <1>8 DEF c

LEMMA StoredLists ==
    ASSUME Typed, NEW j \in EditJob, NEW us \in Stored(j)
    PROVE  us \in Lists
<1>1. j.users \in Lists /\ j.read \in Lists /\ mem.users \in Lists
  BY EditFields, BinFields DEF Typed
<1>2. CASE us = j.users \/ us = mem.users
  BY <1>1, <1>2
<1>3. CASE us # j.users /\ us # mem.users
  <2>1. /\ us = j.users \o SubSeq(mem.users, Len(j.read) + 1, Len(mem.users))
        /\ j.op = "edit" /\ IsPrefix(j.read, mem.users)
    BY <1>3 DEF Stored
  <2>2. SameNames(j.users, j.read)
    BY <2>1 DEF EditJob
  <2>3. PICK m, n : m = Len(j.read) /\ n = Len(mem.users)
    OBVIOUS
  <2>4. /\ m \in Nat /\ n \in Nat /\ m <= n /\ Len(j.users) = m
        /\ mem.users \in Seq(UserConfig) /\ j.users \in Seq(UserConfig)
        /\ j.read \in Seq(UserConfig)
        /\ DOMAIN j.read = 1 .. m /\ DOMAIN mem.users = 1 .. n
    BY <1>1, <2>1, <2>2, <2>3 DEF Lists, IsPrefix, SameNames
  <2>5. ASSUME NEW i \in 1 .. m PROVE j.users[i].name = mem.users[i].name
    <3>1. SubSeq(j.read, 1, m)[i] = j.read[i]
      BY <2>3, <2>4
    <3>2. SubSeq(mem.users, 1, m)[i] = mem.users[i]
      BY <2>3, <2>4
    <3>3. j.read[i] = mem.users[i]
      BY <2>1, <2>3, <3>1, <3>2 DEF IsPrefix
    <3> QED BY <2>2, <2>4, <3>3 DEF SameNames
  <2>6. /\ us \in Seq(UserConfig) /\ Len(us) = n
        /\ \A i \in 1 .. n : us[i] = IF i <= m THEN j.users[i] ELSE mem.users[i]
    <3>1. us = Overwritten(j.users, mem.users)
      BY <2>1, <2>3, <2>4 DEF Overwritten
    <3>2. Len(j.users) = m /\ Len(mem.users) = n /\ Len(j.users) <= Len(mem.users)
      BY <2>3, <2>4
    <3>3. /\ us \in Seq(UserConfig) /\ Len(us) = Len(mem.users)
          /\ \A i \in 1 .. Len(mem.users) :
                us[i] = IF i <= Len(j.users) THEN j.users[i] ELSE mem.users[i]
      BY <2>4, <3>1, <3>2, OverwriteFacts, SMTT(30)
    <3> QED BY <3>2, <3>3
  <2>7. SameNames(us, mem.users)
    BY <2>3, <2>4, <2>5, <2>6 DEF SameNames
  <2> QED BY <1>1, <2>6, <2>7, SameNamesUnique
<1> QED BY <1>2, <1>3

LEMMA StoreUsersInv ==
    ASSUME AdminInv, NEW t \in Tabs, StoreUsers(t)
    PROVE  AdminInv'
<1>1. PICK j \in JobType : j = job[t]
  BY DEF AdminInv, Typed
<1>2. j.pc = "store" /\ Waits(t) /\ Goto(t, "marshal")
  BY <1>1 DEF StoreUsers, Waits
<1>3. PICK us \in Stored(j) : mem' = [mem EXCEPT !.users = us]
  BY <1>1, Zenon DEF StoreUsers
<1>4. j \in EditJob /\ us \in Lists
  BY <1>2, JobFields, StoredLists DEF AdminInv
<1>5. PICK g \in JobType : g = [j EXCEPT !.pc = "marshal"] /\ g.pc = "marshal"
  BY <1>4, EditGoto
<1>6. job' = [job EXCEPT ![t] = g]
  BY <1>1, <1>2, <1>5, GotoMoves DEF AdminInv
<1>7. UNCHANGED <<file, up, epoch, running, chk, chks, CC, restart, open, calm>>
  BY DEF StoreUsers, notes
<1>8. mem' \in BinConfig /\ (Fixed(mem) => Fixed(mem'))
  <2>1. mem \in Config /\ mem.bin = TRUE
    BY BinFields DEF AdminInv, Typed
  <2>2. PICK d : d = [mem EXCEPT !.users = us]
    OBVIOUS
  <2>3. d \in Config /\ d.users = us /\ d.bin = TRUE /\ (Fixed(mem) => Fixed(d))
    BY <1>4, <2>1, <2>2, WithUsers DEF Lists
  <2>4. mem' = d /\ d \in BinConfig
    BY <1>3, <1>4, <2>2, <2>3 DEF BinConfig
  <2> QED BY <2>3, <2>4
<1>9. ASSUME calm PROVE Phase(g)'
  <2>1. Phase(j)
    BY <1>1, <1>9 DEF AdminInv, Sync
  <2>2. Quiet /\ ~ Load(file).err /\ Fixed(mem)
    BY <1>2, <2>1, SameFacts DEF Phase, Same, AdminInv
  <2> QED BY <1>5, <1>7, <1>8, <2>2 DEF Phase, Quiet
<1>10. One' /\ Sync' /\ job' \in [Tabs -> JobType]
  BY <1>2, <1>5, <1>6, <1>7, <1>9, Moved DEF AdminInv
<1>11. Typed'
  BY <1>7, <1>8, <1>10 DEF AdminInv, Typed
<1> QED BY <1>10, <1>11 DEF AdminInv

LEMMA MarshalInv ==
    ASSUME AdminInv, NEW t \in Tabs, Marshal(t)
    PROVE  AdminInv'
<1>1. PICK j \in JobType : j = job[t]
  BY DEF AdminInv, Typed
<1>2. j.pc = "marshal" /\ Waits(t) /\ j \in EditJob
  BY <1>1, JobFields DEF Marshal, Waits
<1>3. PICK g : g = [pc |-> "truncate", op |-> j.op, user |-> j.user, cfg |-> mem, then |-> "idle"]
  OBVIOUS
<1>4. job' = [job EXCEPT ![t] = g]
  <2>1. job[t] = j /\ t \in DOMAIN job
    BY <1>1 DEF AdminInv, Typed
  <2>2. job' = [job EXCEPT ![t] = [pc |-> "truncate", op |-> job[t].op, user |-> job[t].user,
                                   cfg |-> mem, then |-> "idle"]]
    BY <2>1 DEF Marshal
  <2> QED BY <1>3, <2>1, <2>2
<1>5. g \in JobType /\ g.pc = "truncate" /\ g.cfg = mem
  <2>1. mem \in BinConfig /\ j.op \in UserOps /\ j.user \in UserConfig
    BY <1>2, EditFields DEF AdminInv, Typed
  <2>2. g \in SaveJob
    BY <1>3, <2>1 DEF SaveJob
  <2> QED BY <1>3, <2>2 DEF JobType
<1>6. UNCHANGED <<file, up, mem, epoch, running, chk, chks, CC, restart, open, calm>>
  BY DEF Marshal, server, notes
<1>7. ASSUME calm PROVE Phase(g)'
  <2>1. Phase(j)
    BY <1>1, <1>7 DEF AdminInv, Sync
  <2> QED BY <1>2, <1>5, <1>6, <2>1 DEF Phase, Quiet
<1>8. One' /\ Sync' /\ job' \in [Tabs -> JobType]
  BY <1>2, <1>4, <1>5, <1>6, <1>7, Moved DEF AdminInv
<1>9. Typed'
  BY <1>6, <1>8 DEF AdminInv, Typed
<1> QED BY <1>8, <1>9 DEF AdminInv

LEMMA NewUserManagerInv ==
    ASSUME AdminInv, NEW t \in Tabs, NewUserManager(t)
    PROVE  AdminInv'
<1>1. job[t].pc = "manager" /\ Waits(t) /\ Answer(t, "idle")
  BY DEF NewUserManager, Waits
<1>2. PICK g \in JobType : g = [pc |-> "idle"] /\ g.pc = "idle"
  BY PlainJobs
<1>3. job' = [job EXCEPT ![t] = g]
  BY <1>1, <1>2, AnswerMoves
<1>4. UNCHANGED <<file, up, mem, epoch, running, chk, chks, CC, restart, open, calm>>
  BY DEF NewUserManager
<1>5. ASSUME calm PROVE Phase(g)' /\ Same' /\ Quiet'
  <2>1. Phase(job[t])
    BY <1>5 DEF AdminInv, Sync
  <2>2. Same /\ Quiet
    BY <1>1, <2>1 DEF Phase
  <2> QED BY <1>2, <1>4, <2>2 DEF Phase, Same, Quiet
<1>6. One' /\ Sync' /\ job' \in [Tabs -> JobType]
  BY <1>1, <1>3, <1>4, <1>5, Moved DEF AdminInv
<1>7. Typed'
  BY <1>4, <1>6 DEF AdminInv, Typed
<1> QED BY <1>6, <1>7 DEF AdminInv

\* The goroutine of a reload at x has gone on to y.
LEMMA ReloadMoves ==
    ASSUME Typed, NEW t \in Tabs, job[t].pc \in {"stop", "wait", "swap"},
           NEW y \in {"wait", "swap", "assign"}, Goto(t, y)
    PROVE  /\ Waits(t) /\ job[t] \in ReloadJob
           /\ \E g \in JobType : /\ job' = [job EXCEPT ![t] = g]
                                 /\ g.pc = y /\ g.op = "reload" /\ g.cfg = job[t].cfg
<1>1. PICK j \in JobType : j = job[t]
  BY DEF Typed
<1>2. j \in ReloadJob /\ j.op = "reload" /\ Waits(t)
  BY <1>1, JobFields, ReloadFields DEF Waits
<1>3. PICK g \in JobType : /\ g = [j EXCEPT !.pc = y]
                           /\ g.pc = y /\ g.op = j.op /\ g.cfg = j.cfg
  <2>1. CASE y = "wait"
    BY <1>2, <2>1, ReloadGoto
  <2>2. CASE y = "swap"
    BY <1>2, <2>2, ReloadGoto
  <2>3. CASE y = "assign"
    BY <1>2, <2>3, ReloadGoto
  <2> QED BY <2>1, <2>2, <2>3
<1>4. job' = [job EXCEPT ![t] = g]
  BY <1>1, <1>3, GotoMoves
<1> QED BY <1>1, <1>2, <1>3, <1>4

LEMMA ReloadStopInv ==
    ASSUME AdminInv, NEW t \in Tabs, ReloadStop(t)
    PROVE  AdminInv'
<1>1. job[t].pc = "stop" /\ Goto(t, "wait") /\ running' = running \ {epoch}
  BY DEF ReloadStop
<1>2. Waits(t) /\ job[t] \in ReloadJob
  BY <1>1, ReloadMoves DEF AdminInv
<1>3. PICK g \in JobType : /\ job' = [job EXCEPT ![t] = g]
                           /\ g.pc = "wait" /\ g.op = "reload" /\ g.cfg = job[t].cfg
  BY <1>1, ReloadMoves DEF AdminInv
<1>4. UNCHANGED <<file, up, mem, epoch, chk, chks, CC, restart, open, calm>>
  BY DEF ReloadStop, notes
<1>5. ASSUME calm PROVE Phase(g)'
  <2>1. Phase(job[t])
    BY <1>5 DEF AdminInv, Sync
  <2> QED BY <1>1, <1>3, <1>4, <2>1 DEF Phase
<1>6. One' /\ Sync' /\ job' \in [Tabs -> JobType]
  BY <1>2, <1>3, <1>4, <1>5, Moved DEF AdminInv
<1>7. Typed'
  BY <1>4, <1>6 DEF AdminInv, Typed
<1> QED BY <1>6, <1>7 DEF AdminInv

LEMMA ReloadWaitInv ==
    ASSUME AdminInv, NEW t \in Tabs, ReloadWait(t)
    PROVE  AdminInv'
<1>1. job[t].pc = "wait" /\ Goto(t, "swap")
  BY DEF ReloadWait
<1>2. Waits(t) /\ job[t] \in ReloadJob
  BY <1>1, ReloadMoves DEF AdminInv
<1>3. PICK g \in JobType : /\ job' = [job EXCEPT ![t] = g]
                           /\ g.pc = "swap" /\ g.op = "reload" /\ g.cfg = job[t].cfg
  BY <1>1, ReloadMoves DEF AdminInv
<1>4. UNCHANGED <<file, up, mem, epoch, running, chk, chks, CC, restart, open, calm>>
  BY DEF ReloadWait, server, notes
<1>5. ASSUME calm PROVE Phase(g)'
  <2>1. Phase(job[t])
    BY <1>5 DEF AdminInv, Sync
  <2> QED BY <1>1, <1>3, <1>4, <2>1 DEF Phase
<1>6. One' /\ Sync' /\ job' \in [Tabs -> JobType]
  BY <1>2, <1>3, <1>4, <1>5, Moved DEF AdminInv
<1>7. Typed'
  BY <1>4, <1>6 DEF AdminInv, Typed
<1> QED BY <1>6, <1>7 DEF AdminInv

LEMMA ReloadSwapInv ==
    ASSUME AdminInv, NEW t \in Tabs, ReloadSwap(t)
    PROVE  AdminInv'
<1>1. /\ job[t].pc = "swap" /\ Goto(t, "assign")
      /\ epoch' = epoch + 1 /\ running' = running \cup {epoch + 1}
  BY DEF ReloadSwap
<1>2. Waits(t) /\ job[t] \in ReloadJob
  BY <1>1, ReloadMoves DEF AdminInv
<1>3. PICK g \in JobType : /\ job' = [job EXCEPT ![t] = g]
                           /\ g.pc = "assign" /\ g.op = "reload" /\ g.cfg = job[t].cfg
  BY <1>1, ReloadMoves DEF AdminInv
<1>4. UNCHANGED <<file, up, mem, chk, chks, CC, restart, open, calm>>
  BY DEF ReloadSwap, notes
<1>5. ASSUME calm PROVE Phase(g)'
  <2>1. Phase(job[t])
    BY <1>5 DEF AdminInv, Sync
  <2>2. Load(file) = OK(job[t].cfg) /\ running = {} /\ chks = {}
    BY <1>1, <2>1 DEF Phase
  <2>3. running' = {epoch'}
    BY <1>1, <2>2
  <2> QED BY <1>3, <1>4, <2>2, <2>3 DEF Phase
<1>6. One' /\ Sync' /\ job' \in [Tabs -> JobType]
  BY <1>2, <1>3, <1>4, <1>5, Moved DEF AdminInv
<1>7. Typed'
  BY <1>4, <1>6 DEF AdminInv, Typed
<1> QED BY <1>6, <1>7 DEF AdminInv

LEMMA ReloadFinishInv ==
    ASSUME AdminInv, NEW t \in Tabs, ReloadFinish(t)
    PROVE  AdminInv'
<1>1. /\ job[t].pc = "checker" /\ Waits(t) /\ Answer(t, "idle")
      /\ chk' = [id |-> chk.id + 1, split |-> FALSE] /\ chks' = chks \cup {chk.id + 1}
  BY DEF ReloadFinish, Waits
<1>2. PICK g \in JobType : g = [pc |-> "idle"] /\ g.pc = "idle"
  BY PlainJobs
<1>3. job' = [job EXCEPT ![t] = g]
  BY <1>1, <1>2, AnswerMoves
<1>4. UNCHANGED <<file, up, mem, epoch, running, CC, restart, open, calm>>
  BY DEF ReloadFinish, notes
<1>5. ASSUME calm PROVE Phase(g)' /\ Same' /\ Quiet'
  <2>1. Phase(job[t])
    BY <1>5 DEF AdminInv, Sync
  <2>2. Same /\ running = {epoch} /\ chks = {}
    BY <1>1, <2>1 DEF Phase
  <2>3. chk'.id = chk.id + 1 /\ chks' = {chk.id + 1}
    BY <1>1, <2>2
  <2>4. Same' /\ Quiet'
    BY <1>4, <2>2, <2>3 DEF Same, Quiet
  <2> QED BY <1>2, <2>4 DEF Phase
<1>6. One' /\ Sync' /\ job' \in [Tabs -> JobType]
  BY <1>1, <1>3, <1>4, <1>5, Moved DEF AdminInv
<1>7. Typed'
  BY <1>4, <1>6 DEF AdminInv, Typed
<1> QED BY <1>6, <1>7 DEF AdminInv

LEMMA handleRestartInv ==
    ASSUME AdminInv, NEW t \in Tabs, handleRestart(t)
    PROVE  AdminInv'
<1>1. /\ job[t].pc = "restart" /\ Waits(t) /\ Answer(t, "idle")
      /\ restart' = IF restart = "none" THEN "due" ELSE restart
  BY DEF handleRestart, Waits
<1>2. PICK g \in JobType : g = [pc |-> "idle"] /\ g.pc = "idle"
  BY PlainJobs
<1>3. job' = [job EXCEPT ![t] = g]
  BY <1>1, <1>2, AnswerMoves
<1>4. UNCHANGED <<file, up, mem, epoch, running, chk, chks, CC, open, calm>>
  BY DEF handleRestart, server
<1>5. /\ job' \in [Tabs -> JobType] /\ job'[t].pc = "idle"
      /\ \A s \in Tabs : s # t => job'[s] = job[s]
  BY <1>2, <1>3, JobMoves DEF AdminInv
<1>6. up = "up" /\ (calm => restart = "none" /\ \A s \in Tabs : s # t => ~ Waits(s))
  BY <1>1, Busy DEF AdminInv
<1>7. restart' \in {"due", "wait"} /\ (calm => restart' = "due")
  BY <1>1, <1>6 DEF AdminInv, Typed
<1>8. ASSUME calm PROVE Same' /\ Quiet' /\ \A s \in Tabs : job'[s].pc = "idle"
  <2>1. Phase(job[t])
    BY <1>8 DEF AdminInv, Sync
  <2>2. Same /\ Quiet
    BY <1>1, <2>1 DEF Phase
  <2>3. Same' /\ Quiet'
    BY <1>4, <2>2 DEF Same, Quiet
  <2> QED BY <1>5, <1>6, <1>8, <2>3 DEF Waits
<1>9. One'
  BY <1>4, <1>6, <1>8 DEF One, Waits
<1>10. Sync'
  <2> SUFFICES ASSUME calm' PROVE Sync'
    BY DEF Sync
  <2>1. calm
    BY <1>4
  <2>2. \A s \in Tabs : Phase(job[s])'
    BY <1>8, <2>1 DEF Phase
  <2> QED BY <1>4, <1>6, <1>7, <1>8, <2>1, <2>2 DEF Sync
<1>11. Typed'
  BY <1>4, <1>5, <1>7 DEF AdminInv, Typed
<1> QED BY <1>9, <1>10, <1>11 DEF AdminInv

LEMMA AloneFacts ==
    ASSUME Typed, Sync, calm, up = "up", Alone
    PROVE  Same /\ Quiet /\ ~ Load(file).err /\ Fixed(mem)
<1>1. Same /\ Quiet
  BY DEF Sync
<1>2. ~ Load(file).err /\ Fixed(mem)
  BY <1>1, SameFacts DEF Same
<1> QED BY <1>1, <1>2

\* A request begins, alone or among others.
LEMMA Begun ==
    ASSUME Typed, NEW t \in Tabs, NEW g \in JobType, Begin(t, g), UNCHANGED <<up, restart>>,
           calm /\ Alone => Phase(g)' /\ (g.pc = "idle" => Same' /\ Quiet')
    PROVE  One' /\ Sync' /\ job' \in [Tabs -> JobType] /\ UNCHANGED open
<1>1. /\ up = "up" /\ job' = [job EXCEPT ![t] = g] /\ UNCHANGED open
      /\ calm' = (calm /\ Alone)
  BY DEF Begin, Spend
<1>2. CASE calm /\ Alone
  BY <1>1, <1>2, SoleStep, JobMoves DEF Alone
<1>3. CASE ~ (calm /\ Alone)
  BY <1>1, <1>3, MessyStep, JobMoves
<1> QED BY <1>2, <1>3

LEMMA fullRestartInv ==
    ASSUME AdminInv, NEW t \in Tabs, fullRestart(t)
    PROVE  AdminInv'
<1>1. PICK g \in JobType : g = [pc |-> "restart"] /\ g.pc = "restart"
  BY PlainJobs
<1>2. Begin(t, g) /\ up = "up"
  BY <1>1 DEF fullRestart, Begin
<1>3. UNCHANGED <<file, up, mem, epoch, running, chk, chks, CC, restart>>
  BY DEF fullRestart, server
<1>4. ASSUME calm /\ Alone PROVE Phase(g)'
  <2>1. Same /\ Quiet
    BY <1>2, <1>4, AloneFacts DEF AdminInv
  <2>2. Same' /\ Quiet'
    BY <1>3, <2>1 DEF Same, Quiet
  <2> QED BY <1>1, <2>2 DEF Phase
<1>5. One' /\ Sync' /\ job' \in [Tabs -> JobType] /\ UNCHANGED open
  BY <1>1, <1>2, <1>3, <1>4, Begun DEF AdminInv
<1>6. Typed'
  BY <1>3, <1>5 DEF AdminInv, Typed
<1> QED BY <1>5, <1>6 DEF AdminInv

LEMMA PostInv ==
    ASSUME AdminInv, NEW t \in Tabs, NEW c \in BinConfig, NEW then \in {"idle", "restart"},
           Post(t, c, then)
    PROVE  AdminInv'
<1>1. /\ CC' = [CC EXCEPT ![t] = OK(c)]
      /\ UNCHANGED <<file, up, mem, epoch, running, chk, chks, restart>>
  BY DEF Post, server
<1>2. PICK g \in JobType :
         /\ Begin(t, g)
         /\ \/ g.pc = then
            \/ g.pc = "truncate" /\ g.op = "post" /\ Fixed(g.cfg)
  <2>1. CASE Validate(c).err
    <3>1. [pc |-> then] \in JobType /\ [pc |-> then].pc = then
      BY PlainJobs
    <3>2. Begin(t, [pc |-> then])
      BY <2>1 DEF Post
    <3> QED BY <3>1, <3>2
  <2>2. CASE ~ Validate(c).err
    <3>1. PICK v : v = Validate(c).val
      OBVIOUS
    <3>2. v \in BinConfig /\ Fixed(v)
      BY <2>2, <3>1, BinFields, ValidatedFixed DEF BinConfig
    <3>3. PICK g : g = [pc |-> "truncate", op |-> "post", cfg |-> v, then |-> then]
      OBVIOUS
    <3>4. Begin(t, g)
      BY <2>2, <3>1, <3>3 DEF Post
    <3>5. g \in PostJob /\ g.pc = "truncate" /\ g.op = "post" /\ g.cfg = v
      BY <3>2, <3>3 DEF PostJob
    <3> QED BY <3>2, <3>4, <3>5 DEF JobType
  <2> QED BY <2>1, <2>2
<1>3. up = "up"
  BY <1>2 DEF Begin
<1>4. ASSUME calm /\ Alone PROVE Phase(g)' /\ (g.pc = "idle" => Same' /\ Quiet')
  <2>1. Same /\ Quiet /\ ~ Load(file).err
    BY <1>3, <1>4, AloneFacts DEF AdminInv
  <2>2. Same' /\ Quiet' /\ ~ Load(file').err
    BY <1>1, <2>1 DEF Same, Quiet
  <2>3. CASE g.pc = then
    BY <2>2, <2>3 DEF Phase
  <2>4. CASE g.pc = "truncate" /\ g.op = "post" /\ Fixed(g.cfg)
    BY <2>2, <2>4 DEF Phase
  <2> QED BY <1>2, <2>3, <2>4
<1>5. One' /\ Sync' /\ job' \in [Tabs -> JobType] /\ UNCHANGED open
  BY <1>1, <1>2, <1>4, Begun DEF AdminInv
<1>6. CC' \in [Tabs -> {Failed} \cup {OK(x) : x \in BinConfig}]
  BY <1>1 DEF AdminInv, Typed
<1>7. Typed'
  BY <1>1, <1>5, <1>6 DEF AdminInv, Typed
<1> QED BY <1>5, <1>7 DEF AdminInv

LEMMA CopyFacts ==
    ASSUME Typed, NEW t \in Tabs, ~ CC[t].err
    PROVE  CC[t].val \in BinConfig /\ CC[t].val.inst \in Seq(InstanceConfig)
<1>1. CC[t] \in {Failed} \cup {OK(c) : c \in BinConfig}
  BY DEF Typed
<1>2. CC[t].val \in BinConfig
  <2>1. CC[t] # Failed
    BY OKFacts
  <2>2. PICK c \in BinConfig : CC[t] = OK(c)
    BY <1>1, <2>1
  <2> QED BY <2>2, OKFacts
<1> QED BY <1>2, BinFields, ConfigFields

LEMMA WithInst ==
    ASSUME NEW c \in BinConfig, NEW l \in Seq(InstanceConfig)
    PROVE  [c EXCEPT !.inst = l] \in BinConfig
BY DEF BinConfig, Config

LEMMA UpdatedSeq ==
    ASSUME NEW S, NEW q \in Seq(S), NEW i, NEW e \in S
    PROVE  [q EXCEPT ![i] = e] \in Seq(S)
<1>1. q \in [1 .. Len(q) -> S] /\ Len(q) \in Nat
  BY LenProperties
<1>2. [q EXCEPT ![i] = e] \in [1 .. Len(q) -> S]
  BY <1>1
<1> QED BY <1>1, <1>2

LEMMA submitInstancePosts ==
    ASSUME AdminAssumption, AdminInv, NEW t \in Tabs, submitInstance(t)
    PROVE  \E c \in BinConfig, then \in {"idle", "restart"} : Post(t, c, then)
<1>1. PICK c : c = CC[t].val
  OBVIOUS
<1>2. c \in BinConfig /\ c.inst \in Seq(InstanceConfig)
  BY <1>1, CopyFacts DEF submitInstance, AdminInv
<1> DEFINE New(e, i) == IF i > Len(c.inst) THEN Append(c.inst, e) ELSE [c.inst EXCEPT ![i] = e]
<1>3. PICK e \in NewEntries, i \in 1 .. MaxEntries :
         Post(t, [c EXCEPT !.inst = New(e, i)], "idle")
  BY <1>1 DEF submitInstance
<1>4. e \in InstanceConfig
  BY DEF AdminAssumption
<1>5. New(e, i) \in Seq(InstanceConfig)
  <2>1. Append(c.inst, e) \in Seq(InstanceConfig)
    BY <1>2, <1>4
  <2>2. [c.inst EXCEPT ![i] = e] \in Seq(InstanceConfig)
    BY <1>2, <1>4, UpdatedSeq, Zenon
  <2> QED BY <2>1, <2>2
<1> HIDE DEF New
<1>6. [c EXCEPT !.inst = New(e, i)] \in BinConfig
  BY <1>2, <1>5, WithInst
<1> QED BY <1>3, <1>6

LEMMA deleteInstPosts ==
    ASSUME AdminInv, NEW t \in Tabs, deleteInst(t)
    PROVE  \E c \in BinConfig, then \in {"idle", "restart"} : Post(t, c, then)
<1>1. PICK c : c = CC[t].val
  OBVIOUS
<1>2. c \in BinConfig /\ c.inst \in Seq(InstanceConfig)
  BY <1>1, CopyFacts DEF deleteInst, AdminInv
<1>3. PICK i \in DOMAIN c.inst : Post(t, [c EXCEPT !.inst = RemoveAt(c.inst, i)], "idle")
  BY <1>1 DEF deleteInst
<1>4. RemoveAt(c.inst, i) \in Seq(InstanceConfig)
  <2>1. /\ Len(c.inst) \in Nat /\ i \in 1 .. Len(c.inst)
        /\ \A k \in 1 .. Len(c.inst) : c.inst[k] \in InstanceConfig
    BY <1>2
  <2>2. SubSeq(c.inst, 1, i - 1) \in Seq(InstanceConfig)
    BY <2>1, SubSeqProperties
  <2>3. SubSeq(c.inst, i + 1, Len(c.inst)) \in Seq(InstanceConfig)
    BY <2>1, SubSeqProperties
  <2> QED BY <2>2, <2>3 DEF RemoveAt
<1>5. [c EXCEPT !.inst = RemoveAt(c.inst, i)] \in BinConfig
  BY <1>2, <1>4, WithInst
<1> QED BY <1>3, <1>5

LEMMA saveConfigPosts ==
    ASSUME AdminInv, NEW t \in Tabs, saveConfig(t)
    PROVE  \E c \in BinConfig, then \in {"idle", "restart"} : Post(t, c, then)
<1>1. PICK c : c = CC[t].val
  OBVIOUS
<1>2. c \in BinConfig
  BY <1>1, CopyFacts DEF saveConfig, AdminInv
<1>3. PICK s \in {"round_robin", "packet_split"}, then \in {"idle", "restart"} :
         Post(t, Form(c, s), then)
  BY <1>1 DEF saveConfig
<1>4. Form(c, s) \in BinConfig
  <2> DEFINE chunk == IF c.chunk = 0 THEN 8192 ELSE c.chunk
  <2>1. s \in Strategies \cup STRING
    BY DEF Strategies
  <2>2. chunk \in Int
    <3>1. c.chunk \in Int
      BY <1>2, BinFields, ConfigFields
    <3> QED BY <3>1
  <2>3. Form(c, s) = [c EXCEPT !.strategy = s, !.chunk = chunk]
    BY DEF Form
  <2> HIDE DEF chunk
  <2> QED BY <1>2, <2>1, <2>2, <2>3 DEF BinConfig, Config
<1> QED BY <1>3, <1>4

\* A dashboard posts what it made of its copy.
LEMMA Posted ==
    ASSUME AdminAssumption, AdminInv, NEW t \in Tabs,
           submitInstance(t) \/ deleteInst(t) \/ saveConfig(t)
    PROVE  \E c \in BinConfig, then \in {"idle", "restart"} : Post(t, c, then)
BY submitInstancePosts, deleteInstPosts, saveConfigPosts

\* What a request makes of a list of users.
LEMMA AddFacts ==
    ASSUME NEW us \in Lists, NEW u \in UserConfig, Named(us, u) = {}
    PROVE  /\ Append(us, u) \in Lists /\ Append(us, u) # <<>>
           /\ ToSet(Append(us, u)) = {v \in ToSet(us) : v.name # u.name} \cup {u}
<1> DEFINE n == Len(us)
           r == Append(us, u)
<1>1. /\ us \in Seq(UserConfig) /\ n \in Nat /\ DOMAIN us = 1 .. n
      /\ r \in Seq(UserConfig) /\ Len(r) = n + 1 /\ DOMAIN r = 1 .. n + 1 /\ r[n + 1] = u
      /\ \A i \in 1 .. n : r[i] = us[i]
  BY DEF Lists
<1>2. \A i \in 1 .. n : us[i].name # u.name
  BY <1>1 DEF Named
<1> HIDE DEF r
<1>3. ASSUME Unique(us) PROVE Unique(r)
  BY <1>1, <1>2, <1>3 DEF Unique
<1>4. r \in Lists
  BY <1>1, <1>3 DEF Lists
<1>5. ToSet(r) = ToSet(us) \cup {u}
  <2>1. ToSet(r) = {r[i] : i \in 1 .. n + 1} /\ ToSet(us) = {us[i] : i \in 1 .. n}
    BY <1>1 DEF ToSet
  <2>2. 1 .. n + 1 = (1 .. n) \cup {n + 1}
    BY <1>1
  <2> QED BY <1>1, <2>1, <2>2
<1>6. \A v \in ToSet(us) : v.name # u.name
  BY <1>1, <1>2 DEF ToSet
<1>7. r # <<>>
  BY <1>1
<1> QED BY <1>4, <1>5, <1>6, <1>7 DEF r

LEMMA EditFacts ==
    ASSUME NEW us \in Lists, NEW u \in UserConfig, Named(us, u) # {},
           NEW k, k = CHOOSE i \in Named(us, u) : \A l \in Named(us, u) : i <= l
    PROVE  LET r == [us EXCEPT ![k] = u]
           IN  /\ r \in Lists /\ r # <<>> /\ SameNames(r, us)
               /\ UniqueStarts =>
                     ToSet(r) = {v \in ToSet(us) : v.name # u.name} \cup {u}
<1> DEFINE n == Len(us)
           r == [us EXCEPT ![k] = u]
<1>1. us \in Seq(UserConfig) /\ n \in Nat /\ DOMAIN us = 1 .. n
  BY DEF Lists
<1>2. k \in 1 .. n /\ us[k].name = u.name
  <2>1. Named(us, u) \in SUBSET Nat
    BY <1>1 DEF Named
  <2>2. \E i \in Named(us, u) : \A l \in Named(us, u) : i <= l
    BY <2>1, LeastExists
  <2>3. k \in Named(us, u)
    BY <2>2
  <2> QED BY <1>1, <2>3 DEF Named
<1>3. /\ r \in Seq(UserConfig) /\ Len(r) = n /\ DOMAIN r = 1 .. n
      /\ \A i \in 1 .. n : r[i] = IF i = k THEN u ELSE us[i]
  BY <1>1, <1>2
<1> HIDE DEF r
<1>4. SameNames(r, us)
  BY <1>1, <1>2, <1>3 DEF SameNames
<1>5. r \in Lists /\ r # <<>>
  <2>1. r # <<>>
    BY <1>2, <1>3
  <2> QED BY <1>3, <1>4, <2>1, SameNamesUnique
<1>6. ASSUME UniqueStarts
      PROVE  ToSet(r) = {v \in ToSet(us) : v.name # u.name} \cup {u}
  <2>1. \A i \in 1 .. n : us[i].name = u.name => i = k
    BY <1>1, <1>2, <1>6 DEF Lists, Unique
  <2>2. ToSet(r) = {r[i] : i \in 1 .. n} /\ ToSet(us) = {us[i] : i \in 1 .. n}
    BY <1>1, <1>3 DEF ToSet
  <2>3. ASSUME NEW v \in ToSet(r)
        PROVE  v \in {w \in ToSet(us) : w.name # u.name} \cup {u}
    BY <1>3, <2>1, <2>2
  <2>4. u \in ToSet(r)
    BY <1>2, <1>3, <2>2
  <2>5. ASSUME NEW v \in ToSet(us), v.name # u.name PROVE v \in ToSet(r)
    <3>1. PICK i \in 1 .. n : v = us[i]
      BY <2>2
    <3>2. i # k
      BY <1>2, <2>5, <3>1
    <3> QED BY <1>3, <2>2, <3>1, <3>2
  <2> QED BY <2>3, <2>4, <2>5
<1> QED BY <1>4, <1>5, <1>6 DEF r

LEMMA DeleteFacts ==
    ASSUME NEW us \in Lists, NEW S
    PROVE  Filter(us, S) \in Lists /\ ToSet(Filter(us, S)) = ToSet(us) \cap S
<1> DEFINE r == Filter(us, S)
<1>1. us \in Seq(UserConfig) /\ DOMAIN us = 1 .. Len(us)
  BY DEF Lists
<1>2. /\ r \in Seq(UserConfig) /\ ToSet(r) = ToSet(us) \cap S
      /\ (\A i, k \in 1 .. Len(us) : us[i] = us[k] => i = k) =>
            \A i, k \in 1 .. Len(r) : r[i] = r[k] => i = k
  BY <1>1, FilterFacts
<1> HIDE DEF r
<1>3. DOMAIN r = 1 .. Len(r)
  BY <1>2
<1>4. ASSUME Unique(us) PROVE Unique(r)
  <2>1. \A i, k \in 1 .. Len(us) : us[i] = us[k] => i = k
    BY <1>1, <1>4 DEF Unique
  <2> SUFFICES ASSUME NEW i \in 1 .. Len(r), NEW k \in 1 .. Len(r), r[i].name = r[k].name
               PROVE  i = k
    BY <1>3 DEF Unique
  <2>2. r[i] \in ToSet(us) /\ r[k] \in ToSet(us)
    <3>1. r[i] \in ToSet(r) /\ r[k] \in ToSet(r)
      BY <1>3 DEF ToSet
    <3> QED BY <1>2, <3>1
  <2>3. PICK a \in 1 .. Len(us), b \in 1 .. Len(us) : r[i] = us[a] /\ r[k] = us[b]
    BY <1>1, <2>2 DEF ToSet
  <2>4. a = b
    BY <1>1, <1>4, <2>3 DEF Unique
  <2> QED BY <1>2, <2>1, <2>3, <2>4
<1>5. r \in Lists
  BY <1>2, <1>4 DEF Lists
<1>6. ToSet(r) = ToSet(us) \cap S
  BY <1>2 DEF ToSet
<1> QED BY <1>5, <1>6 DEF r

LEMMA ChangedFacts ==
    ASSUME NEW op \in UserOps, NEW us \in Lists, NEW u \in UserConfig,
           ~ Changed(op, us, u).err
    PROVE  LET r == Changed(op, us, u).val
           IN  /\ r \in Lists
               /\ op = "edit" => SameNames(r, us)
               /\ op # "delete" => r # <<>>
               /\ UniqueStarts =>
                     ToSet(r) = {v \in ToSet(us) : v.name # u.name}
                                    \cup (IF op = "delete" THEN {} ELSE {u})
<1>1. CASE op = "add"
  <2>1. Named(us, u) = {} /\ Changed(op, us, u) = OK(Append(us, u))
    BY <1>1, OKFacts DEF Changed
  <2>2. Changed(op, us, u).val = Append(us, u)
    BY <2>1, OKFacts
  <2> QED BY <1>1, <2>1, <2>2, AddFacts
<1>2. CASE op = "edit"
  <2>1. PICK k : k = CHOOSE i \in Named(us, u) : \A l \in Named(us, u) : i <= l
    OBVIOUS
  <2>2. Named(us, u) # {} /\ Changed(op, us, u) = OK([us EXCEPT ![k] = u])
    BY <1>2, <2>1, OKFacts DEF Changed
  <2>3. PICK r : r = [us EXCEPT ![k] = u]
    OBVIOUS
  <2>4. Changed(op, us, u).val = r
    BY <2>2, <2>3, OKFacts
  <2>5. /\ r \in Lists /\ r # <<>> /\ SameNames(r, us)
        /\ UniqueStarts => ToSet(r) = {v \in ToSet(us) : v.name # u.name} \cup {u}
    BY <2>1, <2>2, <2>3, EditFacts
  <2> QED BY <1>2, <2>4, <2>5
<1>3. CASE op = "delete"
  <2> DEFINE S == {v \in ToSet(us) : v.name # u.name}
  <2>1. Changed(op, us, u) = OK(Filter(us, S))
    BY <1>3 DEF Changed
  <2>2. Changed(op, us, u).val = Filter(us, S)
    BY <2>1, OKFacts
  <2>3. Filter(us, S) \in Lists /\ ToSet(Filter(us, S)) = ToSet(us) \cap S
    BY DeleteFacts
  <2>4. ToSet(us) \cap S = S
    OBVIOUS
  <2> QED BY <1>3, <2>2, <2>3, <2>4
<1> QED BY <1>1, <1>2, <1>3 DEF UserOps

LEMMA UserRequestInv ==
    ASSUME AdminAssumption, AdminInv, NEW t \in Tabs, UserRequest(t)
    PROVE  AdminInv'
<1>1. PICK op \in UserOps, u \in Accounts :
         LET us == Changed(op, mem.users, u)
         IN  Begin(t, IF us.err THEN Idle
                        ELSE [pc |-> "store", op |-> op, user |-> u, users |-> us.val,
                              read |-> mem.users, then |-> "idle"])
  BY DEF UserRequest, UserOps
<1>2. UNCHANGED <<file, up, mem, epoch, running, chk, chks, CC, restart>>
  BY DEF UserRequest, server
<1>3. PICK us : us = Changed(op, mem.users, u)
  OBVIOUS
<1>4. PICK g \in JobType : Begin(t, g) /\ g.pc \in {"idle", "store"}
  <2>1. CASE us.err
    BY <1>1, <1>3, <2>1, PlainJobs
  <2>2. CASE ~ us.err
    <3>1. PICK g : g = [pc |-> "store", op |-> op, user |-> u, users |-> us.val,
                        read |-> mem.users, then |-> "idle"]
      OBVIOUS
    <3>2. Begin(t, g)
      BY <1>1, <1>3, <2>2, <3>1
    <3>3. mem.users \in Lists /\ u \in UserConfig
      BY BinFields DEF AdminInv, Typed, AdminAssumption
    <3>4. us.val \in Lists /\ (op = "edit" => SameNames(us.val, mem.users))
      BY <1>3, <2>2, <3>3, ChangedFacts
    <3>5. g \in EditJob /\ g.pc = "store"
      BY <3>1, <3>3, <3>4 DEF EditJob
    <3> QED BY <3>2, <3>5 DEF JobType
  <2> QED BY <2>1, <2>2
<1>5. up = "up"
  BY <1>4 DEF Begin
<1>6. ASSUME calm /\ Alone PROVE Phase(g)' /\ Same' /\ Quiet'
  <2>1. Same /\ Quiet
    BY <1>5, <1>6, AloneFacts DEF AdminInv
  <2>2. Same' /\ Quiet'
    BY <1>2, <2>1 DEF Same, Quiet
  <2> QED BY <1>4, <2>2 DEF Phase
<1>7. One' /\ Sync' /\ job' \in [Tabs -> JobType] /\ UNCHANGED open
  BY <1>2, <1>4, <1>6, Begun DEF AdminInv
<1>8. Typed'
  BY <1>2, <1>7 DEF AdminInv, Typed
<1> QED BY <1>7, <1>8 DEF AdminInv

LEMMA ReloadLoadInv ==
    ASSUME AdminInv, NEW t \in Tabs, ReloadLoad(t)
    PROVE  AdminInv'
<1>1. UNCHANGED <<file, up, mem, epoch, running, chk, CC, restart>>
  BY DEF ReloadLoad
<1>2. PICK c : c = Load(file)
  OBVIOUS
<1>3. CASE c.err
  <2>1. Begin(t, Idle) /\ UNCHANGED chks
    BY <1>2, <1>3 DEF ReloadLoad
  <2>2. PICK g \in JobType : g = Idle /\ g.pc = "idle"
    BY PlainJobs
  <2>3. Begin(t, g) /\ up = "up"
    BY <2>1, <2>2 DEF Begin
  <2>4. ASSUME calm /\ Alone PROVE Phase(g)' /\ Same' /\ Quiet'
    <3>1. Same /\ Quiet
      BY <2>3, <2>4, AloneFacts DEF AdminInv
    <3>2. Same' /\ Quiet'
      BY <1>1, <2>1, <3>1 DEF Same, Quiet
    <3> QED BY <2>2, <3>2 DEF Phase
  <2>5. One' /\ Sync' /\ job' \in [Tabs -> JobType] /\ UNCHANGED open
    BY <1>1, <2>3, <2>4, Begun DEF AdminInv
  <2>6. Typed'
    BY <1>1, <2>5 DEF AdminInv, Typed
  <2> QED BY <2>5, <2>6 DEF AdminInv
<1>4. CASE ~ c.err
  <2>1. c = OK(c.val) /\ c.val \in BinConfig
    BY <1>2, <1>4, LoadFacts DEF AdminInv
  <2>2. PICK d : d = c.val
    OBVIOUS
  <2>3. d \in BinConfig /\ Load(file) = OK(d)
    BY <1>2, <2>1, <2>2
  <2>4. [d EXCEPT !.bin = d.bin \/ mem.bin] = d
    <3>1. d \in Config /\ d.bin = TRUE
      BY <2>3, BinFields
    <3>2. (d.bin \/ mem.bin) = TRUE
      BY <3>1
    <3>3. [d EXCEPT !.bin = TRUE] = d
      BY <3>1 DEF Config
    <3> QED BY <3>2, <3>3
  <2>5. PICK g : g = [pc |-> "stop", op |-> "reload", then |-> "idle", cfg |-> d]
    OBVIOUS
  <2>6. Begin(t, g) /\ chks' = chks \ {chk.id}
    <3>1. Begin(t, [pc |-> "stop", op |-> "reload", then |-> "idle",
                      cfg |-> [d EXCEPT !.bin = d.bin \/ mem.bin]])
      BY <1>2, <1>4, <2>2 DEF ReloadLoad
    <3>2. Begin(t, g)
      BY <2>4, <2>5, <3>1
    <3>3. chks' = chks \ {chk.id}
      BY <1>2, <1>4 DEF ReloadLoad
    <3> QED BY <3>2, <3>3
  <2>7. g \in JobType /\ g.pc = "stop" /\ g.cfg = d
    <3>1. g \in ReloadJob /\ g.pc = "stop" /\ g.cfg = d
      BY <2>3, <2>5 DEF ReloadJob
    <3> QED BY <3>1 DEF JobType
  <2>8. up = "up"
    BY <2>6 DEF Begin
  <2>9. ASSUME calm /\ Alone PROVE Phase(g)'
    <3>1. running = {epoch} /\ chks = {chk.id}
      BY <2>8, <2>9, AloneFacts DEF AdminInv, Quiet
    <3>2. running' = {epoch'} /\ chks' = {} /\ Load(file') = OK(g.cfg)
      BY <1>1, <2>3, <2>6, <2>7, <3>1
    <3> QED BY <2>7, <3>2 DEF Phase
  <2>10. One' /\ Sync' /\ job' \in [Tabs -> JobType] /\ UNCHANGED open
    BY <1>1, <2>6, <2>7, <2>9, Begun DEF AdminInv
  <2>11. Typed'
    BY <1>1, <2>10 DEF AdminInv, Typed
  <2> QED BY <2>10, <2>11 DEF AdminInv
<1> QED BY <1>3, <1>4

\* A step that changes none of what One and Sync are about.
LEMMA Unmoved ==
    ASSUME One, Sync,
           UNCHANGED <<file, up, mem, epoch, running, chk, chks, job, restart, calm>>
    PROVE  One' /\ Sync'
<1>1. Alone' <=> Alone
  BY DEF Alone, Waits
<1>2. One'
  BY <1>1 DEF One, Waits
<1>3. \A t \in Tabs : Phase(job[t]) => Phase(job[t])'
  BY DEF Phase, Same, Quiet
<1>4. Sync'
  BY <1>1, <1>3 DEF Sync, Same, Quiet
<1> QED BY <1>2, <1>4

LEMMA loadCfgInv ==
    ASSUME AdminInv, NEW t \in Tabs, loadCfg(t)
    PROVE  AdminInv'
<1>1. /\ UNCHANGED <<file, up, mem, epoch, running, chk, chks, job, restart, open, calm>>
      /\ CC' = [CC EXCEPT ![t] = OK(mem)]
  BY DEF loadCfg, server, notes
<1>2. One' /\ Sync'
  BY <1>1, Unmoved DEF AdminInv
<1>3. CC' \in [Tabs -> {Failed} \cup {OK(c) : c \in BinConfig}]
  BY <1>1 DEF AdminInv, Typed
<1>4. Typed'
  BY <1>1, <1>3 DEF AdminInv, Typed
<1> QED BY <1>2, <1>4 DEF AdminInv

LEMMA AdminStutterInv ==
    ASSUME AdminInv, UNCHANGED adminVars
    PROVE  AdminInv'
<1>1. UNCHANGED <<file, up, mem, epoch, running, chk, chks, job, CC, restart, open, calm>>
  BY DEF adminVars, server, notes
<1>2. One' /\ Sync'
  BY <1>1, Unmoved DEF AdminInv
<1>3. Typed'
  BY <1>1 DEF AdminInv, Typed
<1> QED BY <1>2, <1>3 DEF AdminInv

LEMMA SaveFailsInv ==
    ASSUME AdminInv, NEW t \in Tabs, SaveFails(t)
    PROVE  AdminInv'
<1>1. PICK j \in JobType : j = job[t]
  BY DEF AdminInv, Typed
<1>2. /\ j.pc \in {"truncate", "write"} /\ Waits(t) /\ Answer(t, j.then) /\ ~ calm'
      /\ file' \in {file, Empty, Mixed}
      /\ UNCHANGED <<up, mem, CC, restart, open>>
  BY <1>1 DEF SaveFails, Waits, Spend, server
<1>3. j.then \in {"idle", "restart"}
  BY <1>2, JobFields, PostFields, SaveFields
<1>4. PICK g \in JobType : g = [pc |-> j.then]
  BY <1>3, PlainJobs
<1>5. job' \in [Tabs -> JobType]
  BY <1>2, <1>4, AnswerMoves, JobMoves DEF AdminInv
<1>6. up' = "up"
  BY <1>2, Busy DEF AdminInv
<1>7. One' /\ Sync'
  BY <1>2, <1>6, MessyStep
<1>8. Typed'
  BY <1>2, <1>5 DEF AdminInv, Typed
<1> QED BY <1>7, <1>8 DEF AdminInv

\* A goroutine that waits for nothing.
LEMMA IdlePhase == ASSUME NEW j, j.pc = "idle" PROVE Phase(j) /\ Phase(j)'
BY DEF Phase

LEMMA RestartStopInv ==
    ASSUME AdminInv, RestartStop
    PROVE  AdminInv'
<1>1. /\ restart = "due" /\ restart' = "wait"
      /\ UNCHANGED <<file, up, mem, job, CC, open, calm>>
  BY DEF RestartStop, notes
<1>2. up = "up"
  BY <1>1 DEF AdminInv, One, Alone
<1>3. One'
  BY <1>1, <1>2 DEF AdminInv, One, Waits
<1>4. Sync'
  <2> SUFFICES ASSUME calm PROVE Sync'
    BY <1>1 DEF Sync
  <2>1. Same'
    BY <1>1 DEF AdminInv, Sync, Same
  <2>2. \A t \in Tabs : Phase(job[t])'
    <3>1. \A t \in Tabs : job'[t].pc = "idle"
      BY <1>1 DEF AdminInv, One, Waits
    <3> QED BY <3>1 DEF Phase
  <2>3. ~ Alone'
    BY <1>1 DEF Alone
  <2> QED BY <1>1, <1>2, <2>1, <2>2, <2>3 DEF Sync
<1>5. Typed'
  BY <1>1 DEF AdminInv, Typed
<1> QED BY <1>3, <1>4, <1>5 DEF AdminInv

LEMMA RestartFailsInv ==
    ASSUME AdminInv, RestartFails
    PROVE  AdminInv'
<1>1. /\ restart = "wait" /\ restart' = "none" /\ ~ calm'
      /\ UNCHANGED <<file, up, mem, job, CC, open>>
  BY DEF RestartFails, server, Spend
<1>2. up = "up"
  BY <1>1 DEF AdminInv, One, Alone
<1>3. One' /\ Sync'
  BY <1>1, <1>2, MessyStep
<1>4. Typed'
  BY <1>1 DEF AdminInv, Typed
<1> QED BY <1>3, <1>4 DEF AdminInv

\* No goroutine of the program is left.
Ended == job' \in [Tabs -> JobType] /\ restart' = "none" /\ \A t \in Tabs : job'[t].pc = "idle"

LEMMA EndedFacts ==
    ASSUME Ended
    PROVE  Alone' /\ \A t \in Tabs : Phase(job[t])'
<1>1. Alone'
  BY DEF Ended, Alone, Waits
<1>2. \A t \in Tabs : Phase(job[t])'
  BY DEF Ended, Phase
<1> QED BY <1>1, <1>2

LEMMA AllIdle ==
    ASSUME job' = [t \in Tabs |-> Idle], restart' = "none"
    PROVE  Ended
<1>1. Idle \in JobType /\ Idle.pc = "idle"
  BY PlainJobs
<1> QED BY <1>1 DEF Ended

\* The program comes up on a configuration that loads.
LEMMA BootedInv ==
    ASSUME Ended, NEW f, f = file', Booted(f), NEW c \in BinConfig, Load(f) = OK(c),
           f \in {Empty, Mixed} \cup {Json(d) : d \in BinConfig},
           Typed, UNCHANGED <<CC, open>>
    PROVE  AdminInv'
<1>1. /\ up' = "up" /\ mem' = c /\ epoch' = epoch + 1 /\ running' = {epoch + 1}
      /\ chk'.id = chk.id + 1 /\ chks' = {chk.id + 1}
  BY OKFacts DEF Booted
<1>2. Same' /\ Quiet'
  BY <1>1 DEF Same, Quiet
<1>3. Alone' /\ \A t \in Tabs : Phase(job[t])'
  BY EndedFacts
<1>4. One'
  BY <1>1, <1>3 DEF One, Alone
<1>5. Sync'
  BY <1>1, <1>2, <1>3 DEF Sync, Ended
<1>6. Typed'
  BY <1>1 DEF Typed, Ended
<1> QED BY <1>4, <1>5, <1>6 DEF AdminInv

LEMMA MainInv ==
    ASSUME Typed, Ended, Main, UNCHANGED <<CC, open>>, calm => ~ Load(file).err
    PROVE  AdminInv'
<1>1. CASE Bootable(file) /\ Booted(file) /\ UNCHANGED file
  <2>1. ~ Load(file).err
    BY <1>1 DEF Bootable
  <2>2. PICK c \in BinConfig : Load(file) = OK(c)
    BY <2>1, LoadFacts
  <2>3. PICK f : f = file
    OBVIOUS
  <2>4. f \in {Empty, Mixed} \cup {Json(d) : d \in BinConfig}
    BY <2>3 DEF Typed
  <2> QED BY <1>1, <2>2, <2>3, <2>4, BootedInv
<1>2. CASE /\ ~ Bootable(file) /\ up' = "dead" /\ UNCHANGED <<file, mem, calm>>
  <2>1. ~ calm'
    BY <1>2, LoadFacts
  <2>2. One'
    BY <2>1, EndedFacts DEF One
  <2>3. Sync'
    BY <2>1 DEF Sync
  <2>4. Typed'
    BY <1>2 DEF Typed, Ended
  <2> QED BY <2>2, <2>3, <2>4 DEF AdminInv
<1> QED BY <1>1, <1>2 DEF Main

LEMMA RestartExecInv ==
    ASSUME AdminInv, RestartExec
    PROVE  AdminInv'
<1>1. Ended
  BY AllIdle DEF RestartExec
<1>2. calm => ~ Load(file).err
  <2>1. calm => Same
    BY DEF RestartExec, AdminInv, Sync
  <2> QED BY <2>1, SameFacts DEF Same, AdminInv
<1> QED BY <1>1, <1>2, MainInv DEF RestartExec, AdminInv

LEMMA KillInv ==
    ASSUME AdminInv, Kill
    PROVE  AdminInv'
<1>1. /\ up = "up" /\ up' = "killed" /\ UNCHANGED <<file, mem, CC, open>>
      /\ calm' = (calm /\ \A t \in Tabs : job[t].pc # "write")
  BY DEF Kill, Spend
<1>2. Ended
  BY AllIdle DEF Kill
<1>3. ASSUME calm, \A t \in Tabs : job[t].pc # "write" PROVE ~ Load(file).err
  <2>1. CASE Alone
    BY <1>1, <1>3, <2>1, AloneFacts DEF AdminInv
  <2>2. CASE restart # "none"
    <3>1. Same
      BY <1>3, <2>2 DEF AdminInv, Sync, Typed
    <3> QED BY <3>1, SameFacts DEF Same, AdminInv
  <2>3. CASE \E t \in Tabs : Waits(t)
    <3>1. PICK t \in Tabs : Waits(t)
      BY <2>3
    <3>2. PICK j \in JobType : j = job[t]
      BY DEF AdminInv, Typed
    <3>3. Phase(j)
      BY <1>3, <3>2 DEF AdminInv, Sync
    <3>4. j.pc \in {"truncate", "assign", "assign2", "store", "marshal", "manager", "stop",
                    "wait", "swap", "checker", "restart"}
      <4>1. j.pc # "idle" /\ j.pc # "write"
        BY <1>3, <3>1, <3>2 DEF Waits
      <4>2. CASE j \in PlainJob
        BY <4>1, <4>2, PlainFields
      <4>3. CASE j \in PostJob
        BY <4>1, <4>3, PostFields
      <4>4. CASE j \in ReloadJob
        BY <4>1, <4>4, ReloadFields
      <4>5. CASE j \in EditJob
        BY <4>1, <4>5, EditFields
      <4>6. CASE j \in SaveJob
        BY <4>1, <4>6, SaveFields
      <4> QED BY <4>2, <4>3, <4>4, <4>5, <4>6 DEF JobType
    <3>5. Load(file) = OK(j.cfg) \/ Load(file) = OK(mem) \/ ~ Load(file).err
      BY <3>3, <3>4 DEF Phase, Same
    <3> QED BY <3>5, SameFacts DEF AdminInv
  <2> QED BY <2>1, <2>2, <2>3 DEF Alone
<1>4. One'
  BY <1>2, EndedFacts, <1>1 DEF One, Alone
<1>5. Sync'
  BY <1>1, <1>2, <1>3, EndedFacts DEF Sync, Ended
<1>6. Typed'
  BY <1>1, <1>2 DEF AdminInv, Typed, Ended
<1> QED BY <1>4, <1>5, <1>6 DEF AdminInv

\* A configuration the first start accepts.
LEMMA StartFacts ==
    ASSUME AdminAssumption, NEW s \in Starts, Bootable(Json(s.cfg))
    PROVE  /\ s.cfg \in BinConfig /\ s.tabs \subseteq Tabs
           /\ Load(Json(s.cfg)) = Validate(s.cfg)
           /\ Validate(s.cfg) = OK(Validate(s.cfg).val)
           /\ Validate(s.cfg).val \in BinConfig /\ Fixed(Validate(s.cfg).val)
<1>1. s.cfg \in Config /\ s.tabs \subseteq Tabs /\ s.cfg.users \in Lists
  <2>1. s.cfg \in Config /\ s.tabs \subseteq Tabs
    BY DEF AdminAssumption
  <2>2. s.cfg.users \in Seq(UserConfig)
    BY <2>1, ConfigFields
  <2> QED BY <2>1, <2>2 DEF Lists, UniqueStarts
<1>2. Load(Json(s.cfg)) = Validate(s.cfg)
  BY DEF Load, Json
<1>3. ~ Validate(s.cfg).err /\ Validate(s.cfg).val.bin
  BY <1>2 DEF Bootable
<1>4. /\ Validate(s.cfg) = OK(Validate(s.cfg).val)
      /\ Validate(s.cfg).val \in Config /\ Fixed(Validate(s.cfg).val)
      /\ Validate(s.cfg).val.bin = s.cfg.bin
      /\ Validate(s.cfg).val.users = s.cfg.users
  BY <1>1, <1>3, ValidatedFixed
<1>5. s.cfg.bin = TRUE
  <2>1. s.cfg.bin \in BOOLEAN
    BY <1>1, ConfigFields
  <2> QED BY <1>3, <1>4, <2>1
<1> QED BY <1>1, <1>2, <1>4, <1>5 DEF BinConfig

LEMMA StartInv ==
    ASSUME AdminAssumption, AdminInv, Start
    PROVE  AdminInv'
<1>1. up # "up" /\ UNCHANGED <<job, CC, restart, open>>
  BY DEF Start
<1>2. Ended
  BY <1>1 DEF AdminInv, One, Typed, Alone, Waits, Ended
<1>3. CASE up = "killed" /\ Main
  <2>1. calm => ~ Load(file).err
    BY <1>3 DEF AdminInv, Sync
  <2> QED BY <1>1, <1>2, <1>3, <2>1, MainInv DEF AdminInv
<1>4. CASE \E s \in Starts : /\ s.requests > 0 /\ Bootable(Json(s.cfg))
                             /\ file' = Json(s.cfg) /\ Booted(Json(s.cfg))
  <2>1. PICK s \in Starts : /\ Bootable(Json(s.cfg))
                            /\ file' = Json(s.cfg) /\ Booted(Json(s.cfg))
    BY <1>4
  <2>2. PICK f : f = Json(s.cfg)
    OBVIOUS
  <2>3. PICK c \in BinConfig : Load(f) = OK(c)
    BY <2>1, <2>2, StartFacts
  <2>4. f \in {Json(d) : d \in BinConfig}
    BY <2>1, <2>2, StartFacts
  <2> QED BY <1>1, <1>2, <2>1, <2>2, <2>3, <2>4, BootedInv DEF AdminInv
<1> QED BY <1>3, <1>4 DEF Start

LEMMA AdminInitInv ==
    ASSUME AdminAssumption, AdminInit
    PROVE  AdminInv
<1>1. PICK s \in Starts :
         /\ Bootable(Json(s.cfg)) /\ file = Json(s.cfg) /\ mem = Validate(s.cfg).val
         /\ chk = [id |-> 1, split |-> mem.strategy = "packet_split"] /\ open = s.tabs
  BY DEF AdminInit
<1>2. /\ up = "up" /\ epoch = 1 /\ running = {1} /\ chks = {1} /\ restart = "none"
      /\ job = [t \in Tabs |-> Idle] /\ CC = [t \in Tabs |-> Failed]
  BY DEF AdminInit
<1>3. /\ s.cfg \in BinConfig /\ open \subseteq Tabs /\ Load(file) = OK(mem)
      /\ mem \in BinConfig
  BY <1>1, StartFacts
<1>4. Idle \in JobType /\ Idle.pc = "idle"
  BY PlainJobs
<1>5. \A t \in Tabs : job[t].pc = "idle"
  BY <1>2, <1>4
<1>6. Same /\ Quiet
  BY <1>1, <1>2, <1>3 DEF Same, Quiet
<1>7. Typed
  BY <1>1, <1>2, <1>3, <1>4 DEF Typed
<1>8. One
  BY <1>2, <1>5 DEF One, Waits
<1>9. Sync
  BY <1>2, <1>5, <1>6 DEF Sync, Phase
<1> QED BY <1>7, <1>8, <1>9 DEF AdminInv

LEMMA AdminNextInv ==
    ASSUME AdminAssumption, AdminInv, [AdminNext]_adminVars
    PROVE  AdminInv'
<1>1. ASSUME NEW t \in open, Dashboard(t) PROVE AdminInv'
  <2>0. t \in Tabs
    BY DEF AdminInv, Typed
  <2>1. CASE submitInstance(t) \/ deleteInst(t) \/ saveConfig(t)
    BY <2>0, <2>1, Posted, PostInv
  <2> QED BY <1>1, <2>0, <2>1, loadCfgInv, fullRestartInv, UserRequestInv, ReloadLoadInv
          DEF Dashboard
<1>2. ASSUME NEW t \in open, Handler(t) PROVE AdminInv'
  <2>0. t \in Tabs
    BY DEF AdminInv, Typed
  <2> QED BY <1>2, <2>0, TruncateInv, WriteInv, AssignSocksInv, AssignRestInv, StoreUsersInv,
             MarshalInv, NewUserManagerInv, ReloadStopInv, ReloadWaitInv, ReloadSwapInv,
             ReloadFinishInv, handleRestartInv DEF Handler
<1>3. ASSUME NEW t \in open, SaveFails(t) PROVE AdminInv'
  <2>0. t \in Tabs
    BY DEF AdminInv, Typed
  <2> QED BY <1>3, <2>0, SaveFailsInv
<1>4. CASE UNCHANGED adminVars
  BY <1>4, AdminStutterInv
<1> QED BY <1>1, <1>2, <1>3, <1>4, RestartStopInv, RestartExecInv, RestartFailsInv, KillInv,
           StartInv DEF AdminNext

\* handlers.go, main.go: while requests come one at a time and no save fails, whenever
\* none is in progress the file loads to the configuration in memory, one list of
\* processes runs and one checker, whatever was posted, killed and started again.
THEOREM ConfigurationInSync == AdminSpec => []InSync
<1>1. AdminInit => AdminInv
  BY AdminAssumption, AdminInitInv
<1>2. AdminInv /\ [AdminNext]_adminVars => AdminInv'
  BY AdminAssumption, AdminNextInv
<1>3. AdminInv => InSync
  BY DEF AdminInv, Sync, Same, Quiet, InSync, Settled
<1> QED BY <1>1, <1>2, <1>3, PTL DEF AdminSpec

\* config.go, handlers.go: what applyDefaults and validate accepted, saved and loaded
\* again, is accepted again, so main does not end in log.Fatalf at the next start.
THEOREM AcceptedConfigsBoot == AdminSpec => []AcceptedConfigBoots
<1>1. AdminInit => AdminInv
  BY AdminAssumption, AdminInitInv
<1>2. AdminInv /\ [AdminNext]_adminVars => AdminInv'
  BY AdminAssumption, AdminNextInv
<1>3. AdminInv => AcceptedConfigBoots
  BY DEF AdminInv, Sync, AcceptedConfigBoots
<1> QED BY <1>1, <1>2, <1>3, PTL DEF AdminSpec

-----------------------------------------------------------------------------
\* The users: what the requests leave is in memory and in the user manager.

Shown == ToSet(mem.users) = accepted /\ gui = Users(mem.users)

\* The list in memory is the one request j makes.
Made(j) ==
    /\ ToSet(mem.users) = Remembered(j.op, j.user)
    /\ j.op # "delete" => mem.users # <<>>

Told(j) ==
    /\ j.pc \in {"restart", "stop", "wait", "swap", "assign", "assign2", "checker"} => Shown
    /\ j.pc = "store" => /\ Shown /\ j.read = mem.users
                         /\ ToSet(j.users) = Remembered(j.op, j.user)
                         /\ j.op # "delete" => j.users # <<>>
    /\ j.pc \in {"marshal", "manager"} => Made(j)
    /\ j.pc \in {"truncate", "write"} =>
          IF j.op = "post" THEN Shown /\ j.cfg.users = mem.users ELSE Made(j)
    /\ j.pc \in {"stop", "wait", "swap", "assign", "assign2"} => j.cfg.users = mem.users

Known == UniqueStarts /\ calm /\ fresh

Kept ==
    Known /\ up = "up" => /\ Alone \/ restart # "none" => Shown
                          /\ \A t \in Tabs : Told(job[t])

\* A handler moves on.
LEMMA KeptMoved ==
    ASSUME Typed, One, Kept, NEW t \in Tabs, Waits(t), NEW g \in JobType,
           job' = [job EXCEPT ![t] = g], UNCHANGED <<up, restart, calm, fresh>>,
           Known => Told(g)' /\ (g.pc = "idle" => Shown')
    PROVE  Kept'
<1> SUFFICES ASSUME Known PROVE Kept'
  BY DEF Kept, Known
<1>1. /\ up = "up" /\ restart = "none" /\ up' = "up" /\ restart' = "none"
      /\ \A s \in Tabs : s # t => ~ Waits(s)
  BY Busy DEF Known
<1>2. job'[t] = g /\ \A s \in Tabs : s # t => job'[s] = job[s] /\ job'[s].pc = "idle"
  BY <1>1, JobMoves DEF Waits
<1>3. \A s \in Tabs : Told(job[s])'
  <2> SUFFICES ASSUME NEW s \in Tabs PROVE Told(job[s])'
    OBVIOUS
  <2>1. CASE s = t
    <3>1. job[s]' = g
      BY <1>2, <2>1
    <3> QED BY <3>1 DEF Told, Made
  <2>2. CASE s # t
    <3>1. job[s]'.pc = "idle"
      BY <1>2, <2>2
    <3> QED BY <3>1 DEF Told
  <2> QED BY <2>1, <2>2
<1>4. Alone' => Shown'
  BY <1>2 DEF Alone, Waits
<1> QED BY <1>1, <1>3, <1>4 DEF Kept

\* A request begins.
LEMMA KeptBegun ==
    ASSUME Typed, Kept, NEW t \in Tabs, NEW g \in JobType, Begin(t, g), UNCHANGED <<up, restart>>,
           fresh' => fresh,
           Known /\ Known' /\ Alone /\ Shown => Told(g)' /\ (g.pc = "idle" => Shown')
    PROVE  Kept'
<1>1. /\ up = "up" /\ job' = [job EXCEPT ![t] = g] /\ calm' = (calm /\ Alone)
  BY DEF Begin
<1> SUFFICES ASSUME Known' PROVE Kept'
  BY DEF Kept
<1>2. Known /\ Alone /\ UniqueStarts
  BY <1>1 DEF Known
<1>3. Shown
  BY <1>1, <1>2 DEF Kept
<1>4. Told(g)' /\ (g.pc = "idle" => Shown')
  BY <1>2, <1>3
<1>5. restart' = "none" /\ \A s \in Tabs : ~ Waits(s)
  BY <1>2 DEF Alone
<1>6. job'[t] = g /\ \A s \in Tabs : s # t => job'[s] = job[s] /\ job'[s].pc = "idle"
  BY <1>1, <1>5, JobMoves DEF Waits
<1>7. \A s \in Tabs : Told(job[s])'
  <2> SUFFICES ASSUME NEW s \in Tabs PROVE Told(job[s])'
    OBVIOUS
  <2>1. CASE s = t
    <3>1. job[s]' = g
      BY <1>6, <2>1
    <3> QED BY <1>4, <3>1 DEF Told, Made
  <2>2. CASE s # t
    <3>1. job[s]'.pc = "idle"
      BY <1>6, <2>2
    <3> QED BY <3>1 DEF Told
  <2> QED BY <2>1, <2>2
<1>8. Alone' => Shown'
  BY <1>4, <1>6 DEF Alone, Waits
<1> QED BY <1>5, <1>7, <1>8 DEF Kept

LEMMA TruncateKept ==
    ASSUME AdminInv, Kept, NEW t \in Tabs, Truncate(t)
    PROVE  Kept'
<1>1. PICK j \in JobType : j = job[t]
  BY DEF AdminInv, Typed
<1>2. j.pc = "truncate" /\ Waits(t) /\ Goto(t, "write")
  BY <1>1 DEF Truncate, Waits
<1>3. PICK g \in JobType : /\ g = [j EXCEPT !.pc = "write"] /\ g.pc = "write"
                           /\ g.op = j.op /\ g.cfg = j.cfg /\ (j.op # "post" => g.user = j.user)
  <2>1. CASE j \in PostJob
    <3>1. j.op = "post"
      BY <2>1, PostFields
    <3>2. PICK g \in JobType : /\ g = [j EXCEPT !.pc = "write"] /\ g.pc = "write"
                               /\ g.op = j.op /\ g.cfg = j.cfg
      BY <2>1, PostGoto
    <3> QED BY <3>1, <3>2
  <2>2. CASE j \in SaveJob
    BY <2>2, SaveGoto
  <2> QED BY <1>2, <2>1, <2>2, JobFields
<1>4. job' = [job EXCEPT ![t] = g]
  BY <1>1, <1>2, <1>3, GotoMoves DEF AdminInv
<1>5. UNCHANGED <<up, mem, gui, restart, calm, fresh, accepted>>
  BY DEF Truncate, server, notes
<1>6. ASSUME Known PROVE Told(g)'
  <2>1. Told(j)
    BY <1>1, <1>2, <1>6, Busy DEF AdminInv, Kept
  <2>2. IF j.op = "post" THEN Shown /\ j.cfg.users = mem.users ELSE Made(j)
    BY <1>2, <2>1 DEF Told
  <2>3. CASE j.op = "post"
    BY <1>3, <1>5, <2>2, <2>3 DEF Told, Shown
  <2>4. CASE j.op # "post"
    BY <1>3, <1>5, <2>2, <2>4 DEF Told, Made, Remembered
  <2> QED BY <2>3, <2>4
<1> QED BY <1>2, <1>3, <1>4, <1>5, <1>6, KeptMoved DEF AdminInv

LEMMA WriteKept ==
    ASSUME AdminInv, Kept, NEW t \in Tabs, Write(t)
    PROVE  Kept'
<1>1. PICK j \in JobType : j = job[t]
  BY DEF AdminInv, Typed
<1>2. j.pc = "write" /\ Waits(t)
  BY <1>1 DEF Write, Waits
<1>3. Goto(t, IF j.op = "post" THEN "assign" ELSE "manager")
  BY <1>1, Zenon DEF Write
<1>4. UNCHANGED <<up, mem, gui, restart, calm, fresh, accepted>>
  BY DEF Write, server, notes
<1>5. ASSUME Known
      PROVE  IF j.op = "post" THEN Shown /\ j.cfg.users = mem.users ELSE Made(j)
  <2>1. Told(j)
    BY <1>1, <1>2, <1>5, Busy DEF AdminInv, Kept
  <2> QED BY <1>2, <2>1 DEF Told
<1>6. CASE j \in PostJob
  <2>1. j.op = "post"
    BY <1>6, PostFields
  <2>2. PICK g \in JobType : g = [j EXCEPT !.pc = "assign"] /\ g.pc = "assign" /\ g.cfg = j.cfg
    BY <1>6, PostGoto
  <2>3. Goto(t, "assign")
    BY <1>3, <2>1
  <2>4. job' = [job EXCEPT ![t] = g]
    BY <1>1, <2>2, <2>3, GotoMoves DEF AdminInv
  <2>5. Known => Told(g)'
    BY <1>4, <1>5, <2>1, <2>2 DEF Told, Shown
  <2> QED BY <1>2, <1>4, <2>2, <2>4, <2>5, KeptMoved DEF AdminInv
<1>7. CASE j \in SaveJob
  <2>1. j.op # "post"
    BY <1>7, SaveFields
  <2>2. PICK g \in JobType : /\ g = [j EXCEPT !.pc = "manager"] /\ g.pc = "manager"
                             /\ g.op = j.op /\ g.user = j.user
    BY <1>7, SaveGoto
  <2>3. Goto(t, "manager")
    BY <1>3, <2>1
  <2>4. job' = [job EXCEPT ![t] = g]
    BY <1>1, <2>2, <2>3, GotoMoves DEF AdminInv
  <2>5. Known => Told(g)'
    BY <1>4, <1>5, <2>1, <2>2 DEF Told, Made, Remembered
  <2> QED BY <1>2, <1>4, <2>2, <2>4, <2>5, KeptMoved DEF AdminInv
<1> QED BY <1>2, <1>6, <1>7, JobFields

LEMMA AssignSocksKept ==
    ASSUME AdminInv, Kept, NEW t \in Tabs, AssignSocks(t)
    PROVE  Kept'
<1>1. PICK j \in JobType : j = job[t]
  BY DEF AdminInv, Typed
<1>2. /\ j.pc = "assign" /\ Waits(t) /\ Goto(t, "assign2")
      /\ mem' = [mem EXCEPT !.users = j.cfg.users, !.listen = j.cfg.listen]
  BY <1>1 DEF AssignSocks, Waits
<1>3. PICK g \in JobType : /\ g = [j EXCEPT !.pc = "assign2"]
                           /\ g.pc = "assign2" /\ g.op = j.op /\ g.cfg = j.cfg
  <2>1. CASE j \in PostJob
    BY <2>1, PostGoto
  <2>2. CASE j \in ReloadJob
    BY <2>2, ReloadGoto
  <2> QED BY <1>2, <2>1, <2>2, JobFields
<1>4. job' = [job EXCEPT ![t] = g]
  BY <1>1, <1>2, <1>3, GotoMoves DEF AdminInv
<1>5. UNCHANGED <<up, gui, restart, calm, fresh, accepted>>
  BY DEF AssignSocks, notes
<1>6. mem'.users = j.cfg.users
  <2>1. mem \in Config
    BY BinFields DEF AdminInv, Typed
  <2> QED BY <1>2, <2>1 DEF Config
<1>7. ASSUME Known PROVE Told(g)'
  <2>1. Told(j)
    BY <1>1, <1>2, <1>7, Busy DEF AdminInv, Kept
  <2>2. Shown /\ j.cfg.users = mem.users
    BY <1>2, <2>1 DEF Told
  <2>3. Shown'
    BY <1>5, <1>6, <2>2 DEF Shown
  <2> QED BY <1>3, <1>6, <2>3 DEF Told
<1> QED BY <1>2, <1>3, <1>4, <1>5, <1>7, KeptMoved DEF AdminInv

LEMMA AssignRestKept ==
    ASSUME AdminInv, Kept, NEW t \in Tabs, AssignRest(t)
    PROVE  Kept'
<1>1. PICK j \in JobType : j = job[t]
  BY DEF AdminInv, Typed
<1>2. /\ j.pc = "assign2" /\ Waits(t)
      /\ IF j.op = "post" THEN Answer(t, j.then) ELSE Goto(t, "checker")
      /\ mem' = [j.cfg EXCEPT !.users = mem.users, !.listen = mem.listen]
  BY <1>1 DEF AssignRest, Waits
<1>3. PICK g \in JobType : /\ job' = [job EXCEPT ![t] = g]
                           /\ g.pc \in {"idle", "restart", "checker"}
  <2>1. CASE j \in PostJob
    <3>1. j.op = "post" /\ j.then \in {"idle", "restart"}
      BY <2>1, PostFields
    <3>2. [pc |-> j.then] \in JobType /\ [pc |-> j.then].pc = j.then
      BY <3>1, PlainJobs
    <3>3. job' = [job EXCEPT ![t] = [pc |-> j.then]]
      BY <1>2, <3>1, AnswerMoves
    <3> QED BY <3>1, <3>2, <3>3
  <2>2. CASE j \in ReloadJob
    <3>1. j.op # "post"
      BY <2>2, ReloadFields
    <3>2. [j EXCEPT !.pc = "checker"] \in JobType /\ [j EXCEPT !.pc = "checker"].pc = "checker"
      BY <2>2, ReloadGoto
    <3>3. job' = [job EXCEPT ![t] = [j EXCEPT !.pc = "checker"]]
      BY <1>1, <1>2, <3>1, GotoMoves DEF AdminInv
    <3> QED BY <3>1, <3>2, <3>3
  <2> QED BY <1>2, <2>1, <2>2, JobFields
<1>4. j.cfg \in Config
  BY <1>2, JobFields, PostFields, ReloadFields, BinFields
<1>5. UNCHANGED <<up, gui, restart, calm, fresh, accepted>>
  BY DEF AssignRest, notes
<1>6. mem'.users = mem.users
  BY <1>2, <1>4 DEF Config
<1>7. ASSUME Known PROVE Told(g)' /\ Shown'
  <2>1. Told(j)
    BY <1>1, <1>2, <1>7, Busy DEF AdminInv, Kept
  <2>2. Shown
    BY <1>2, <2>1 DEF Told
  <2>3. Shown'
    BY <1>5, <1>6, <2>2 DEF Shown
  <2> QED BY <1>3, <2>3 DEF Told
<1> QED BY <1>2, <1>3, <1>5, <1>7, KeptMoved DEF AdminInv

LEMMA StoreUsersKept ==
    ASSUME AdminInv, Kept, NEW t \in Tabs, StoreUsers(t)
    PROVE  Kept'
<1>1. PICK j \in JobType : j = job[t]
  BY DEF AdminInv, Typed
<1>2. j.pc = "store" /\ Waits(t) /\ Goto(t, "marshal")
  BY <1>1 DEF StoreUsers, Waits
<1>3. PICK us \in Stored(j) : mem' = [mem EXCEPT !.users = us]
  BY <1>1, Zenon DEF StoreUsers
<1>4. j \in EditJob
  BY <1>2, JobFields
<1>5. PICK g \in JobType : /\ g = [j EXCEPT !.pc = "marshal"] /\ g.pc = "marshal"
                           /\ g.op = j.op /\ g.user = j.user
  BY <1>4, EditGoto
<1>6. job' = [job EXCEPT ![t] = g]
  BY <1>1, <1>2, <1>5, GotoMoves DEF AdminInv
<1>7. UNCHANGED <<up, gui, restart, calm, fresh, accepted>>
  BY DEF StoreUsers, notes
<1>8. mem'.users = us
  <2>1. mem \in Config
    BY BinFields DEF AdminInv, Typed
  <2> QED BY <1>3, <2>1 DEF Config
<1>9. ASSUME Known PROVE Told(g)'
  <2>1. Told(j)
    BY <1>1, <1>2, <1>9, Busy DEF AdminInv, Kept
  <2>2. /\ j.read = mem.users /\ ToSet(j.users) = Remembered(j.op, j.user)
        /\ j.op # "delete" => j.users # <<>>
    BY <1>2, <2>1 DEF Told
  <2>3. us = j.users
    BY <2>2 DEF Stored
  <2> QED BY <1>5, <1>7, <1>8, <2>2, <2>3 DEF Told, Made, Remembered
<1> QED BY <1>2, <1>5, <1>6, <1>7, <1>9, KeptMoved DEF AdminInv

LEMMA MarshalKept ==
    ASSUME AdminInv, Kept, NEW t \in Tabs, Marshal(t)
    PROVE  Kept'
<1>1. PICK j \in JobType : j = job[t]
  BY DEF AdminInv, Typed
<1>2. j.pc = "marshal" /\ Waits(t) /\ j \in EditJob
  BY <1>1, JobFields DEF Marshal, Waits
<1>3. PICK g : g = [pc |-> "truncate", op |-> j.op, user |-> j.user, cfg |-> mem, then |-> "idle"]
  OBVIOUS
<1>4. job' = [job EXCEPT ![t] = g]
  <2>1. job[t] = j /\ t \in DOMAIN job
    BY <1>1 DEF AdminInv, Typed
  <2>2. job' = [job EXCEPT ![t] = [pc |-> "truncate", op |-> job[t].op, user |-> job[t].user,
                                   cfg |-> mem, then |-> "idle"]]
    BY <2>1 DEF Marshal
  <2> QED BY <1>3, <2>1, <2>2
<1>5. g \in JobType /\ g.pc = "truncate" /\ g.op = j.op /\ g.user = j.user /\ j.op # "post"
  <2>1. mem \in BinConfig /\ j.op \in UserOps /\ j.user \in UserConfig /\ j.op # "post"
    BY <1>2, EditFields DEF AdminInv, Typed
  <2>2. g \in SaveJob
    BY <1>3, <2>1 DEF SaveJob
  <2> QED BY <1>3, <2>1, <2>2 DEF JobType
<1>6. UNCHANGED <<up, mem, gui, restart, calm, fresh, accepted>>
  BY DEF Marshal, server, notes
<1>7. ASSUME Known PROVE Told(g)'
  <2>1. Told(j)
    BY <1>1, <1>2, <1>7, Busy DEF AdminInv, Kept
  <2>2. Made(j)
    BY <1>2, <2>1 DEF Told
  <2> QED BY <1>5, <1>6, <2>2 DEF Told, Made, Remembered
<1> QED BY <1>2, <1>4, <1>5, <1>6, <1>7, KeptMoved DEF AdminInv

LEMMA NewUserManagerKept ==
    ASSUME AdminInv, Kept, NEW t \in Tabs, NewUserManager(t)
    PROVE  Kept'
<1>1. PICK j \in JobType : j = job[t]
  BY DEF AdminInv, Typed
<1>2. /\ j.pc = "manager" /\ Waits(t) /\ Answer(t, "idle")
      /\ gui' = IF j.op = "delete" THEN Users(mem.users) ELSE OK(mem.users)
      /\ accepted' = Remembered(j.op, j.user)
  BY <1>1 DEF NewUserManager, Waits
<1>3. PICK g \in JobType : g = [pc |-> "idle"] /\ g.pc = "idle"
  BY PlainJobs
<1>4. job' = [job EXCEPT ![t] = g]
  BY <1>2, <1>3, AnswerMoves
<1>5. UNCHANGED <<up, mem, restart, calm, fresh>>
  BY DEF NewUserManager
<1>6. ASSUME Known PROVE Told(g)' /\ Shown'
  <2>1. Told(j)
    BY <1>1, <1>2, <1>6, Busy DEF AdminInv, Kept
  <2>2. Made(j)
    BY <1>2, <2>1 DEF Told
  <2>3. gui' = Users(mem.users)
    BY <1>2, <2>2 DEF Made, Users
  <2>4. Shown'
    BY <1>2, <1>5, <2>2, <2>3 DEF Shown, Made
  <2> QED BY <1>3, <2>4 DEF Told
<1> QED BY <1>2, <1>3, <1>4, <1>5, <1>6, KeptMoved DEF AdminInv

\* The steps of a reload up to the assignment leave the users alone.
LEMMA ReloadKept ==
    ASSUME AdminInv, Kept, NEW t \in Tabs,
           ReloadStop(t) \/ ReloadWait(t) \/ ReloadSwap(t)
    PROVE  Kept'
<1>1. UNCHANGED <<up, mem, gui, restart, calm, fresh, accepted>>
  BY DEF ReloadStop, ReloadWait, ReloadSwap, server, notes
<1>2. PICK y \in {"wait", "swap", "assign"} :
         job[t].pc \in {"stop", "wait", "swap"} /\ Goto(t, y)
  BY DEF ReloadStop, ReloadWait, ReloadSwap
<1>3. Waits(t)
  BY <1>2, ReloadMoves DEF AdminInv
<1>4. PICK g \in JobType : /\ job' = [job EXCEPT ![t] = g]
                           /\ g.pc = y /\ g.op = "reload" /\ g.cfg = job[t].cfg
  BY <1>2, ReloadMoves DEF AdminInv
<1>5. ASSUME Known PROVE Told(g)'
  <2>1. Told(job[t])
    BY <1>3, <1>5, Busy DEF AdminInv, Kept
  <2>2. Shown /\ job[t].cfg.users = mem.users
    BY <1>2, <2>1 DEF Told
  <2>3. Shown' /\ g.cfg.users = mem'.users
    BY <1>1, <1>4, <2>2 DEF Shown
  <2> QED BY <1>4, <2>3 DEF Told
<1>6. g.pc # "idle"
  BY <1>4
<1> QED BY <1>1, <1>3, <1>4, <1>5, <1>6, KeptMoved DEF AdminInv

LEMMA ReloadFinishKept ==
    ASSUME AdminInv, Kept, NEW t \in Tabs, ReloadFinish(t)
    PROVE  Kept'
<1>1. /\ job[t].pc = "checker" /\ Waits(t) /\ Answer(t, "idle")
      /\ gui' = IF ~ gui.err /\ mem.users # <<>> THEN OK(mem.users) ELSE gui
  BY DEF ReloadFinish, Waits
<1>2. PICK g \in JobType : g = [pc |-> "idle"] /\ g.pc = "idle"
  BY PlainJobs
<1>3. job' = [job EXCEPT ![t] = g]
  BY <1>1, <1>2, AnswerMoves
<1>4. UNCHANGED <<up, mem, restart, calm, fresh, accepted>>
  BY DEF ReloadFinish, notes
<1>5. ASSUME Known PROVE Told(g)' /\ Shown'
  <2>1. Told(job[t])
    BY <1>1, <1>5, Busy DEF AdminInv, Kept
  <2>2. Shown
    BY <1>1, <2>1 DEF Told
  <2>3. gui' = gui
    BY <1>1, <2>2 DEF Shown, Users
  <2>4. Shown'
    BY <1>4, <2>2, <2>3 DEF Shown
  <2> QED BY <1>2, <2>4 DEF Told
<1> QED BY <1>1, <1>2, <1>3, <1>4, <1>5, KeptMoved DEF AdminInv

LEMMA handleRestartKept ==
    ASSUME AdminInv, Kept, NEW t \in Tabs, handleRestart(t)
    PROVE  Kept'
<1>1. job[t].pc = "restart" /\ Waits(t) /\ Answer(t, "idle")
  BY DEF handleRestart, Waits
<1>2. PICK g \in JobType : g = [pc |-> "idle"] /\ g.pc = "idle"
  BY PlainJobs
<1>3. job' = [job EXCEPT ![t] = g]
  BY <1>1, <1>2, AnswerMoves
<1>4. UNCHANGED <<up, mem, gui, calm, fresh, accepted>>
  BY DEF handleRestart, server
<1> SUFFICES ASSUME Known PROVE Kept'
  BY <1>4 DEF Kept, Known
<1>5. /\ job'[t].pc = "idle"
      /\ \A s \in Tabs : s # t => job'[s] = job[s] /\ ~ Waits(s)
  BY <1>1, <1>2, <1>3, JobMoves, Busy DEF AdminInv, Known
<1>6. \A s \in Tabs : job'[s].pc = "idle"
  BY <1>5 DEF Waits
<1>7. Shown
  <2>1. Told(job[t])
    BY <1>1, Busy DEF AdminInv, Kept
  <2> QED BY <1>1, <2>1 DEF Told
<1>8. Shown' /\ \A s \in Tabs : Told(job[s])'
  BY <1>4, <1>6, <1>7 DEF Shown, Told
<1> QED BY <1>8 DEF Kept

LEMMA fullRestartKept ==
    ASSUME AdminInv, Kept, NEW t \in Tabs, fullRestart(t)
    PROVE  Kept'
<1>1. PICK g \in JobType : g = [pc |-> "restart"] /\ g.pc = "restart"
  BY PlainJobs
<1>2. Begin(t, g) /\ UNCHANGED <<up, mem, gui, restart, fresh, accepted>>
  BY <1>1 DEF fullRestart, server
<1>3. Shown => Told(g)'
  BY <1>1, <1>2 DEF Told, Shown
<1> QED BY <1>1, <1>2, <1>3, KeptBegun DEF AdminInv

LEMMA PostKept ==
    ASSUME AdminInv, Kept, NEW t \in Tabs, NEW c \in BinConfig, NEW then \in {"idle", "restart"},
           Post(t, c, then)
    PROVE  Kept'
<1>1. UNCHANGED <<up, mem, gui, restart, accepted>>
  BY DEF Post, server
<1>2. Shown => Shown'
  BY <1>1 DEF Shown
<1>3. CASE Validate(c).err
  <2>1. PICK g \in JobType : g = [pc |-> then] /\ g.pc = then
    BY PlainJobs
  <2>2. Begin(t, g) /\ fresh' = fresh
    BY <1>3, <2>1 DEF Post
  <2>3. Shown => Told(g)'
    BY <1>2, <2>1 DEF Told
  <2> QED BY <1>1, <1>2, <2>2, <2>3, KeptBegun DEF AdminInv
<1>4. CASE ~ Validate(c).err
  <2>1. PICK v : v = Validate(c).val
    OBVIOUS
  <2>2. v \in BinConfig /\ v.users = c.users
    BY <1>4, <2>1, BinFields, ValidatedFixed DEF BinConfig
  <2>3. PICK g : g = [pc |-> "truncate", op |-> "post", cfg |-> v, then |-> then]
    OBVIOUS
  <2>4. Begin(t, g) /\ fresh' = (fresh /\ c.users = mem.users)
    BY <1>4, <2>1, <2>3 DEF Post
  <2>5. g \in JobType /\ g.pc = "truncate" /\ g.op = "post" /\ g.cfg = v
    <3>1. g \in PostJob /\ g.pc = "truncate" /\ g.op = "post" /\ g.cfg = v
      BY <2>2, <2>3 DEF PostJob
    <3> QED BY <3>1 DEF JobType
  <2>6. Shown /\ Known' => Told(g)'
    BY <1>1, <1>2, <2>2, <2>4, <2>5 DEF Told, Known
  <2> QED BY <1>1, <2>4, <2>5, <2>6, KeptBegun DEF AdminInv
<1> QED BY <1>3, <1>4

LEMMA UserRequestKept ==
    ASSUME AdminAssumption, AdminInv, Kept, NEW t \in Tabs, UserRequest(t)
    PROVE  Kept'
<1>1. PICK op \in UserOps, u \in Accounts :
         LET us == Changed(op, mem.users, u)
         IN  Begin(t, IF us.err THEN Idle
                        ELSE [pc |-> "store", op |-> op, user |-> u, users |-> us.val,
                              read |-> mem.users, then |-> "idle"])
  BY DEF UserRequest, UserOps
<1>2. UNCHANGED <<up, mem, gui, restart, fresh, accepted>>
  BY DEF UserRequest, server
<1>3. PICK us : us = Changed(op, mem.users, u)
  OBVIOUS
<1>4. CASE us.err
  <2>1. PICK g \in JobType : Begin(t, g) /\ g.pc = "idle"
    BY <1>1, <1>3, <1>4, PlainJobs
  <2>2. Shown => Told(g)' /\ Shown'
    BY <1>2, <2>1 DEF Told, Shown
  <2> QED BY <1>2, <2>1, <2>2, KeptBegun DEF AdminInv
<1>5. CASE ~ us.err
  <2>1. PICK g : g = [pc |-> "store", op |-> op, user |-> u, users |-> us.val,
                      read |-> mem.users, then |-> "idle"]
    OBVIOUS
  <2>2. Begin(t, g)
    BY <1>1, <1>3, <1>5, <2>1
  <2>3. mem.users \in Lists /\ u \in UserConfig
    BY BinFields DEF AdminInv, Typed, AdminAssumption
  <2>4. /\ us.val \in Lists /\ (op = "edit" => SameNames(us.val, mem.users))
        /\ op # "delete" => us.val # <<>>
        /\ UniqueStarts => ToSet(us.val) = {v \in ToSet(mem.users) : v.name # u.name}
                                               \cup (IF op = "delete" THEN {} ELSE {u})
    BY <1>3, <1>5, <2>3, ChangedFacts
  <2>5. /\ g \in EditJob /\ g.pc = "store" /\ g.op = op /\ g.user = u /\ g.users = us.val
        /\ g.read = mem.users
    BY <2>1, <2>3, <2>4 DEF EditJob
  <2>6. g \in JobType
    BY <2>5 DEF JobType
  <2>7. ASSUME Known, Shown PROVE Told(g)'
    <3>1. ToSet(us.val) = {v \in accepted : v.name # u.name}
                              \cup (IF op = "delete" THEN {} ELSE {u})
      BY <2>4, <2>7 DEF Known, Shown
    <3>2. ToSet(g.users) = Remembered(g.op, g.user)'
      BY <1>2, <2>5, <3>1 DEF Remembered
    <3>3. Shown' /\ g.read = mem'.users
      BY <1>2, <2>5, <2>7 DEF Shown
    <3> QED BY <2>4, <2>5, <3>2, <3>3 DEF Told
  <2>8. g.pc # "idle"
    BY <2>5
  <2> QED BY <1>2, <2>2, <2>6, <2>7, <2>8, KeptBegun DEF AdminInv
<1> QED BY <1>4, <1>5

LEMMA ReloadLoadKept ==
    ASSUME AdminInv, Kept, NEW t \in Tabs, ReloadLoad(t)
    PROVE  Kept'
<1>1. UNCHANGED <<up, file, mem, gui, restart, fresh, accepted>>
  BY DEF ReloadLoad
<1>2. PICK c : c = Load(file)
  OBVIOUS
<1>3. CASE c.err
  <2>1. PICK g \in JobType : g = Idle /\ g.pc = "idle"
    BY PlainJobs
  <2>2. Begin(t, g)
    BY <1>2, <1>3, <2>1 DEF ReloadLoad
  <2>3. Shown => Told(g)' /\ Shown'
    BY <1>1, <2>1 DEF Told, Shown
  <2> QED BY <1>1, <2>2, <2>3, KeptBegun DEF AdminInv
<1>4. CASE ~ c.err
  <2>1. PICK d : d = [c.val EXCEPT !.bin = c.val.bin \/ mem.bin]
    OBVIOUS
  <2>2. c = OK(c.val) /\ c.val \in Config /\ c.val.bin = TRUE /\ c.val.users \in Lists
    BY <1>2, <1>4, LoadFacts, BinFields DEF AdminInv
  <2>3. d \in BinConfig /\ d.users = c.val.users
    <3>1. (c.val.bin \/ mem.bin) = TRUE
      BY <2>2
    <3>2. d = [c.val EXCEPT !.bin = TRUE]
      BY <2>1, <3>1
    <3>3. d \in Config /\ d.bin = TRUE /\ d.users = c.val.users
      BY <2>2, <3>2 DEF Config
    <3> QED BY <2>2, <3>3 DEF BinConfig
  <2>4. PICK g : g = [pc |-> "stop", op |-> "reload", then |-> "idle", cfg |-> d]
    OBVIOUS
  <2>5. Begin(t, g)
    BY <1>2, <1>4, <2>1, <2>4 DEF ReloadLoad
  <2>6. g \in JobType /\ g.pc = "stop" /\ g.cfg = d
    <3>1. g \in ReloadJob /\ g.pc = "stop" /\ g.cfg = d
      BY <2>3, <2>4 DEF ReloadJob
    <3> QED BY <3>1 DEF JobType
  <2>7. ASSUME Known, Alone, Shown PROVE Told(g)'
    <3>1. up = "up"
      BY <2>5 DEF Begin
    <3>2. Load(file) = OK(mem)
      BY <2>7, <3>1, AloneFacts DEF AdminInv, Known, Same
    <3>3. c.val = mem
      BY <1>2, <3>2, OKFacts
    <3>4. Shown' /\ g.cfg.users = mem'.users
      BY <1>1, <2>3, <2>6, <2>7, <3>3 DEF Shown
    <3> QED BY <2>6, <3>4 DEF Told
  <2>8. g.pc # "idle"
    BY <2>6
  <2> QED BY <1>1, <2>5, <2>6, <2>7, <2>8, KeptBegun DEF AdminInv
<1> QED BY <1>3, <1>4

\* A step that changes none of what Kept is about.
LEMMA KeptUnmoved ==
    ASSUME Kept, UNCHANGED <<up, mem, gui, job, restart, calm, fresh, accepted>>
    PROVE  Kept'
<1>1. Alone' <=> Alone
  BY DEF Alone, Waits
<1>2. Shown' <=> Shown
  BY DEF Shown
<1>3. \A t \in Tabs : Told(job[t]) => Told(job[t])'
  BY DEF Told, Shown, Made, Remembered
<1> QED BY <1>1, <1>2, <1>3 DEF Kept, Known

LEMMA RestartStopKept ==
    ASSUME AdminInv, Kept, RestartStop
    PROVE  Kept'
<1>1. /\ restart = "due" /\ restart' = "wait"
      /\ UNCHANGED <<up, mem, gui, job, calm, fresh, accepted>>
  BY DEF RestartStop, notes
<1>2. Shown' <=> Shown
  BY <1>1 DEF Shown
<1>3. \A t \in Tabs : Told(job[t]) => Told(job[t])'
  BY <1>1 DEF Told, Shown, Made, Remembered
<1> QED BY <1>1, <1>2, <1>3 DEF Kept, Known

LEMMA MainKept ==
    ASSUME Ended, NEW f, Booted(f) \/ up' # "up"
    PROVE  Kept'
<1>1. CASE Booted(f)
  <2>1. Shown'
    BY <1>1 DEF Booted, Shown
  <2>2. \A t \in Tabs : Told(job[t])'
    BY DEF Ended, Told
  <2> QED BY <2>1, <2>2 DEF Kept
<1>2. CASE up' # "up"
  BY <1>2 DEF Kept
<1> QED BY <1>1, <1>2

LEMMA KeptInit ==
    ASSUME AdminAssumption, AdminInit
    PROVE  Kept
<1>1. Shown
  BY DEF AdminInit, Shown
<1>2. \A t \in Tabs : Told(job[t])
  <2>1. Idle.pc = "idle"
    BY PlainJobs
  <2>2. \A t \in Tabs : job[t].pc = "idle"
    BY <2>1 DEF AdminInit
  <2> QED BY <2>2 DEF Told
<1> QED BY <1>1, <1>2 DEF Kept

LEMMA KeptNext ==
    ASSUME AdminAssumption, AdminInv, Kept, [AdminNext]_adminVars
    PROVE  Kept'
<1>1. ASSUME NEW t \in open, Dashboard(t) PROVE Kept'
  <2>0. t \in Tabs
    BY DEF AdminInv, Typed
  <2>1. CASE loadCfg(t)
    BY <2>1, KeptUnmoved DEF loadCfg, server, notes
  <2>2. CASE submitInstance(t) \/ deleteInst(t) \/ saveConfig(t)
    BY <2>0, <2>2, Posted, PostKept
  <2> QED BY <1>1, <2>0, <2>1, <2>2, fullRestartKept, UserRequestKept, ReloadLoadKept
          DEF Dashboard
<1>2. ASSUME NEW t \in open, Handler(t) PROVE Kept'
  <2>0. t \in Tabs
    BY DEF AdminInv, Typed
  <2> QED BY <1>2, <2>0, TruncateKept, WriteKept, AssignSocksKept, AssignRestKept,
             StoreUsersKept, MarshalKept, NewUserManagerKept, ReloadKept, ReloadFinishKept,
             handleRestartKept DEF Handler
<1>3. ASSUME NEW t \in open, SaveFails(t) PROVE Kept'
  <2>1. ~ calm'
    BY <1>3 DEF SaveFails
  <2> QED BY <2>1 DEF Kept, Known
<1>4. CASE RestartFails
  <2>1. ~ calm'
    BY <1>4 DEF RestartFails
  <2> QED BY <2>1 DEF Kept, Known
<1>5. CASE RestartExec
  <2>1. Ended
    BY <1>5, AllIdle DEF RestartExec
  <2>2. Booted(file) \/ up' # "up"
    BY <1>5 DEF RestartExec, Main
  <2>3. PICK f : f = file
    OBVIOUS
  <2> QED BY <2>1, <2>2, <2>3, MainKept
<1>6. CASE Start
  <2>1. Ended
    BY <1>6 DEF Start, AdminInv, One, Typed, Alone, Waits, Ended
  <2>2. \E f : Booted(f) \/ up' # "up"
    BY <1>6 DEF Start, Main
  <2> QED BY <2>1, <2>2, MainKept
<1>7. CASE Kill
  BY <1>7 DEF Kill, Kept
<1>8. CASE UNCHANGED adminVars
  BY <1>8, KeptUnmoved DEF adminVars, server, notes
<1> QED BY <1>1, <1>2, <1>3, <1>4, <1>5, <1>6, <1>7, <1>8, RestartStopKept DEF AdminNext

\* handlers.go, manager.go: while dashboards post the users they were last told of, those
\* in memory and in the user manager are the ones the answered requests leave. The
\* configuration the server starts with names no user twice, as users.NewManager keeps
\* one limit per name: an edit then changes the only entry of its name.
THEOREM UsersAreKept ==
    ASSUME UniqueStarts
    PROVE  AdminSpec => []UsersKept
<1>1. AdminInit => AdminInv /\ Kept
  BY AdminAssumption, AdminInitInv, KeptInit
<1>2. AdminInv /\ Kept /\ [AdminNext]_adminVars => (AdminInv /\ Kept)'
  BY AdminAssumption, AdminNextInv, KeptNext
<1>3. AdminInv /\ Kept => UsersKept
  BY DEF Kept, Known, Shown, UsersKept, Settled
<1> QED BY <1>1, <1>2, <1>3, PTL DEF AdminSpec

-----------------------------------------------------------------------------
LEMMA ToSetElements == ASSUME NEW s PROVE ToSet(s) = {s[i] : i \in DOMAIN s}
BY DEF ToSet

\* An entry that expands: what it has of ports.
Expands(e) == ~ ParsePorts(e.port).err /\ ~ (Len(Offered(e)) < Replicas(e))

LEMMA ShiftedInterval ==
    ASSUME NEW a \in Nat, NEW n \in Nat PROVE Cardinality(a + 1 .. a + n) = n
<1>1. PICK x \in Int, y \in Int : x = a + 1 /\ y = a + n
  OBVIOUS
<1>2. Cardinality(x .. y) = IF x > y THEN 0 ELSE y - x + 1
  BY FS_Interval
<1> QED BY <1>1, <1>2

LEMMA ReplicasNat ==
    ASSUME NEW e \in InstanceConfig PROVE Replicas(e) \in Nat \ {0}
BY DEF InstanceConfig, Replicas

LEMMA OfferedPorts ==
    ASSUME NEW e \in InstanceConfig, Expands(e), NEW r \in 1 .. Replicas(e)
    PROVE  /\ Offered(e)[r] >= e.port.lo
           /\ Offered(e)[r] <= IF e.port.kind = "range" /\ e.port.lo < e.port.hi
                                 THEN e.port.hi ELSE e.port.lo + Replicas(e) - 1
<1>1. e.port.lo \in Int /\ e.port.hi \in Int /\ Replicas(e) \in Nat \ {0}
  BY ReplicasNat DEF InstanceConfig, PortSpec
<1>2. PICK ports : ports = ParsePorts(e.port).val
  OBVIOUS
<1>3. ~ ParsePorts(e.port).err /\ ~ (Len(Offered(e)) < Replicas(e))
  BY DEF Expands
<1>4. CASE e.port.kind = "num"
  <2>1. ports = <<e.port.lo>>
    BY <1>2, <1>4, OKFacts DEF ParsePorts
  <2>2. CASE Replicas(e) > 1
    <3>1. Offered(e) = [q \in 1 .. Replicas(e) |-> e.port.lo + q - 1]
      BY <1>2, <2>1, <2>2 DEF Offered
    <3> QED BY <1>1, <1>4, <3>1
  <2>3. CASE ~ (Replicas(e) > 1)
    <3>1. Offered(e) = <<e.port.lo>> /\ r = 1 /\ Replicas(e) = 1
      BY <1>1, <1>2, <2>1, <2>3 DEF Offered
    <3> QED BY <1>1, <1>4, <3>1
  <2> QED BY <2>2, <2>3
<1>5. CASE e.port.kind = "range"
  <2>1. /\ e.port.lo <= e.port.hi
        /\ ports = [k \in 1 .. e.port.hi - e.port.lo + 1 |-> e.port.lo + k - 1]
    BY <1>2, <1>3, <1>5, OKFacts DEF ParsePorts
  <2>2. Len(ports) = e.port.hi - e.port.lo + 1
    BY <1>1, <2>1
  <2>3. CASE Len(ports) = 1 /\ Replicas(e) > 1
    <3>1. Offered(e) = [q \in 1 .. Replicas(e) |-> ports[1] + q - 1]
      BY <1>2, <2>3 DEF Offered
    <3>2. ports[1] = e.port.lo
      BY <1>1, <2>1
    <3>3. Offered(e)[r] = e.port.lo + r - 1
      BY <3>1, <3>2
    <3>4. e.port.lo = e.port.hi
      BY <1>1, <2>2, <2>3
    <3> QED BY <1>1, <3>3, <3>4
  <2>4. CASE ~ (Len(ports) = 1 /\ Replicas(e) > 1)
    <3>1. Offered(e) = ports
      BY <1>2, <2>4 DEF Offered
    <3>2. r \in 1 .. e.port.hi - e.port.lo + 1 /\ Replicas(e) <= e.port.hi - e.port.lo + 1
      BY <1>1, <1>3, <2>2, <3>1
    <3>3. ports[r] = e.port.lo + r - 1
      BY <2>1, <3>2
    <3> QED BY <1>1, <1>5, <2>1, <3>1, <3>2, <3>3
  <2> QED BY <2>3, <2>4
<1>6. CASE e.port.kind \notin {"num", "range"}
  BY <1>3, <1>6, OKFacts DEF ParsePorts
<1> QED BY <1>4, <1>5, <1>6

\* The instances of a configuration that Validate accepts.
LEMMA ExpandedAll ==
    ASSUME NEW c \in Config, Acceptable(c)
    PROVE  /\ \A i \in DOMAIN c.inst : Expands(c.inst[i]) /\ EntryAccepted(c.inst[i])
           /\ c.inst \in Seq(InstanceConfig) /\ c.inst # <<>>
           /\ ExpandInstances(c).val
                = FlattenSeq([i \in DOMAIN c.inst |-> ExpandEntry(c, i)])
           /\ LET all == ExpandInstances(c).val
              IN  \A k, l \in DOMAIN all : all[k].port = all[l].port => k = l
<1>1. c.inst \in Seq(InstanceConfig) /\ c.inst # <<>> /\ ~ ExpandInstances(c).err
  BY ConfigFields DEF Acceptable
<1>2. ~ \E e \in ToSet(c.inst) : ParsePorts(e.port).err \/ Len(Offered(e)) < Replicas(e)
  BY <1>1, OKFacts DEF ExpandInstances
<1>3. \A i \in DOMAIN c.inst : Expands(c.inst[i]) /\ EntryAccepted(c.inst[i])
  BY <1>2, ToSetElements DEF Expands, Acceptable
<1>4. PICK all : all = FlattenSeq([i \in DOMAIN c.inst |-> ExpandEntry(c, i)])
  OBVIOUS
<1>5. FlattenSeq([i \in DOMAIN c.inst |-> ExpandEntry(c, i)]) = all
  BY <1>4
<1>6. ~ \E k, l \in DOMAIN all : k # l /\ all[k].port = all[l].port
  BY <1>1, <1>2, <1>5, OKFacts DEF ExpandInstances
<1>7. ExpandInstances(c) = OK(all)
  BY <1>2, <1>5, <1>6 DEF ExpandInstances
<1>8. ExpandInstances(c).val = all
  BY <1>7, OKFacts
<1> QED BY <1>1, <1>3, <1>4, <1>6, <1>8

\* The places of the instances of entry i.
Slots(all, i) == {k \in DOMAIN all : all[k].entry = i}

SlotsExpand(c, all) ==
    \A i \in DOMAIN c.inst : \A k \in Slots(all, i) :
        \E r \in 1 .. Replicas(c.inst[i]) : all[k] = ExpandEntry(c, i)[r]

LEMMA ExpandedSlots ==
    ASSUME NEW c \in Config, Acceptable(c), NEW all, all = ExpandInstances(c).val
    PROVE  /\ \E T : all \in Seq(T)
           /\ \A i \in DOMAIN c.inst : Cardinality(Slots(all, i)) = Replicas(c.inst[i])
           /\ SlotsExpand(c, all)
<1> DEFINE ss == [i \in DOMAIN c.inst |-> ExpandEntry(c, i)]
           T == {ExpandEntry(c, i)[r] : i \in DOMAIN c.inst, r \in Nat}
<1>1. /\ \A i \in DOMAIN c.inst : c.inst[i] \in InstanceConfig
      /\ c.inst \in Seq(InstanceConfig) /\ c.inst # <<>> /\ all = FlattenSeq(ss)
  BY ExpandedAll
<1>2. ASSUME NEW i \in DOMAIN c.inst
      PROVE  /\ ExpandEntry(c, i) \in Seq(T) /\ Len(ExpandEntry(c, i)) = Replicas(c.inst[i])
             /\ Replicas(c.inst[i]) \in Nat
             /\ \A r \in 1 .. Replicas(c.inst[i]) : ExpandEntry(c, i)[r].entry = i
  <2>1. Replicas(c.inst[i]) \in Nat
    BY <1>1, ReplicasNat
  <2>2. DOMAIN ExpandEntry(c, i) = 1 .. Replicas(c.inst[i])
    BY DEF ExpandEntry
  <2>3. \A r \in 1 .. Replicas(c.inst[i]) : ExpandEntry(c, i)[r] \in T
    <3> SUFFICES ASSUME NEW r \in 1 .. Replicas(c.inst[i]) PROVE ExpandEntry(c, i)[r] \in T
      OBVIOUS
    <3>1. r \in Nat
      BY <2>1
    <3> QED BY <3>1
  <2>4. \A r \in 1 .. Replicas(c.inst[i]) : ExpandEntry(c, i)[r].entry = i
    BY DEF ExpandEntry
  <2>5. ExpandEntry(c, i) = [r \in 1 .. Replicas(c.inst[i]) |-> ExpandEntry(c, i)[r]]
    BY DEF ExpandEntry
  <2> HIDE DEF T
  <2> QED BY <2>1, <2>2, <2>3, <2>4, <2>5
<1> HIDE DEF T
<1>3. ss \in Seq(Seq(T)) /\ ss # <<>> /\ Len(ss) = Len(c.inst) /\ DOMAIN c.inst = 1 .. Len(ss)
  <2>1. DOMAIN ss = 1 .. Len(c.inst) /\ Len(c.inst) \in Nat \ {0} /\ DOMAIN c.inst = 1 .. Len(c.inst)
    BY <1>1
  <2>2. ss \in [1 .. Len(c.inst) -> Seq(T)]
    BY <1>2, <2>1
  <2> HIDE DEF ss
  <2>3. ss \in Seq(Seq(T)) /\ Len(ss) = Len(c.inst)
    BY <2>1, <2>2
  <2> QED BY <2>1, <2>3
<1>4. \A i \in DOMAIN c.inst : ss[i] = ExpandEntry(c, i) /\ Len(ss[i]) = Replicas(c.inst[i])
  BY <1>2
<1> HIDE DEF ss
<1>5. PICK off \in [0 .. Len(ss) -> Nat] : all \in Seq(T) /\ Blocks(all, ss, off, Len(ss))
  BY <1>1, <1>3, FlattenBlocks
<1>6. ASSUME NEW k \in DOMAIN all, NEW i \in DOMAIN c.inst, all[k].entry = i
      PROVE  \E r \in 1 .. Replicas(c.inst[i]) :
                k = off[i - 1] + r /\ all[k] = ExpandEntry(c, i)[r]
  <2>0. PICK j \in 1 .. Len(ss) : \E r \in 1 .. Len(ss[j]) : k = off[j - 1] + r
    BY <1>5 DEF Blocks
  <2>1. PICK r \in 1 .. Len(ss[j]) : k = off[j - 1] + r
    BY <2>0
  <2>2. all[k] = ss[j][r]
    BY <1>5, <2>1 DEF Blocks
  <2>3. j \in DOMAIN c.inst /\ r \in 1 .. Replicas(c.inst[j]) /\ all[k] = ExpandEntry(c, j)[r]
    BY <1>3, <1>4, <2>1, <2>2
  <2>4. j = i
    BY <1>2, <1>6, <2>3
  <2> QED BY <2>1, <2>3, <2>4
<1>7. ASSUME NEW i \in DOMAIN c.inst
      PROVE  Cardinality(Slots(all, i)) = Replicas(c.inst[i])
  <2>1. off[i - 1] \in Nat /\ Replicas(c.inst[i]) \in Nat \ {0}
    BY <1>1, <1>3, ReplicasNat
  <2>2. \A r \in 1 .. Replicas(c.inst[i]) : off[i - 1] + r \in Slots(all, i)
    <3> SUFFICES ASSUME NEW r \in 1 .. Replicas(c.inst[i]) PROVE off[i - 1] + r \in Slots(all, i)
      OBVIOUS
    <3>1. off[i - 1] + r \in DOMAIN all /\ all[off[i - 1] + r] = ss[i][r]
      BY <1>3, <1>4, <1>5 DEF Blocks
    <3>2. ss[i][r].entry = i
      BY <1>2, <1>4
    <3> QED BY <3>1, <3>2 DEF Slots
  <2>3. \A k \in Slots(all, i) : k \in off[i - 1] + 1 .. off[i - 1] + Replicas(c.inst[i])
    BY <1>6, <2>1 DEF Slots
  <2>4. \A k \in off[i - 1] + 1 .. off[i - 1] + Replicas(c.inst[i]) : k \in Slots(all, i)
    <3> SUFFICES ASSUME NEW k \in off[i - 1] + 1 .. off[i - 1] + Replicas(c.inst[i])
                 PROVE  k \in Slots(all, i)
      OBVIOUS
    <3>1. k - off[i - 1] \in 1 .. Replicas(c.inst[i]) /\ k = off[i - 1] + (k - off[i - 1])
      BY <2>1
    <3> QED BY <2>2, <3>1
  <2>5. Slots(all, i) = off[i - 1] + 1 .. off[i - 1] + Replicas(c.inst[i])
    BY <2>3, <2>4
  <2> QED BY <2>1, <2>5, ShiftedInterval
<1>8. SlotsExpand(c, all)
  BY <1>6 DEF Slots, SlotsExpand
<1> QED BY <1>5, <1>7, <1>8

\* What a configuration that has been through Validate runs.
Runs(c) ==
    LET all == ExpandInstances(c).val
    IN  /\ Cardinality({all[k].port : k \in DOMAIN all}) = Len(all)
        /\ \A i \in DOMAIN c.inst :
              LET e == c.inst[i]
              IN  /\ Cardinality(Slots(all, i)) = Replicas(e)
                  /\ \A k \in Slots(all, i) :
                        /\ all[k].port >= e.port.lo
                        /\ all[k].port <= IF e.port.kind = "range" /\ e.port.lo < e.port.hi
                                          THEN e.port.hi ELSE e.port.lo + Replicas(e) - 1
                        /\ all[k].mode = "ssh" => e.ssh /\ e.sshPort > 0

LEMMA FixedRuns ==
    ASSUME NEW c \in Config, Fixed(c)
    PROVE  Runs(c)
<1>1. Acceptable(c) /\ Defaults(c) = c
  BY FixedIff
<1>2. PICK all : all = ExpandInstances(c).val
  OBVIOUS
<1>3. PICK T : all \in Seq(T)
  BY <1>1, <1>2, ExpandedSlots
<1>4. \A k, l \in DOMAIN all : all[k].port = all[l].port => k = l
  BY <1>1, <1>2, ExpandedAll
<1>5. Cardinality({all[k].port : k \in DOMAIN all}) = Len(all)
  <2> DEFINE P == {all[k].port : k \in DOMAIN all}
             f == [k \in 1 .. Len(all) |-> all[k].port]
  <2>1. DOMAIN all = 1 .. Len(all) /\ Len(all) \in Nat
    BY <1>3
  <2>2. f \in Bijection(1 .. Len(all), P)
    <3>1. f \in [1 .. Len(all) -> P]
      BY <2>1
    <3>2. \A k, l \in 1 .. Len(all) : f[k] = f[l] => k = l
      BY <1>4, <2>1
    <3>3. \A y \in P : \E k \in 1 .. Len(all) : f[k] = y
      BY <2>1
    <3> HIDE DEF P, f
    <3> QED BY <3>1, <3>2, <3>3 DEF Bijection, Injection, Surjection, IsInjective
  <2>3. IsFiniteSet(1 .. Len(all)) /\ Cardinality(1 .. Len(all)) = Len(all)
    BY <2>1, IntervalCardinality
  <2> HIDE DEF P, f
  <2>4. Cardinality(P) = Len(all)
    BY <2>2, <2>3, FS_Bijection DEF ExistsBijection
  <2> QED BY <2>4 DEF P
<1>6. SlotsExpand(c, all)
  BY <1>1, <1>2, ExpandedSlots
<1>7. \A i \in DOMAIN c.inst : Expands(c.inst[i]) /\ EntryAccepted(c.inst[i])
  BY <1>1, ExpandedAll
<1>8. \A i \in DOMAIN c.inst : c.inst[i] \in InstanceConfig
  BY ConfigFields
<1>9. ASSUME NEW i \in DOMAIN c.inst, NEW k \in Slots(all, i), NEW e, e = c.inst[i]
      PROVE  /\ all[k].port >= e.port.lo
             /\ all[k].port <= IF e.port.kind = "range" /\ e.port.lo < e.port.hi
                               THEN e.port.hi ELSE e.port.lo + Replicas(e) - 1
             /\ all[k].mode = "ssh" => e.ssh /\ e.sshPort > 0
  <2>1. PICK r \in 1 .. Replicas(e) : all[k] = ExpandEntry(c, i)[r]
    BY <1>9, <1>6 DEF SlotsExpand
  <2>2. /\ ExpandEntry(c, i)[r].port = Offered(e)[r]
        /\ ExpandEntry(c, i)[r].mode = IF e.mode = "" THEN "socks" ELSE e.mode
    BY <1>9 DEF ExpandEntry
  <2>3. e \in InstanceConfig /\ Expands(e) /\ EntryAccepted(e)
    BY <1>9, <1>7, <1>8
  <2>4. EntryDefaults(e) = e
    <3>1. c.inst = DefInst(c)
      BY <1>1, DefaultsFacts
    <3>2. DefInst(c)[i] = EntryDefaults(c.inst[i])
      BY DEF DefInst
    <3> QED BY <1>9, <3>1, <3>2
  <2>5. e.mode = "ssh" => e.ssh /\ e.sshPort > 0
    <3>1. e.mode = "ssh" => e.ssh
      BY <2>3 DEF EntryAccepted
    <3>2. ASSUME e.mode = "ssh", e.sshPort <= 0 PROVE FALSE
      <4>1. PICK d : d = [e EXCEPT !.sshPort = 22]
        OBVIOUS
      <4>2. d = e
        BY <2>4, <3>2, <4>1 DEF EntryDefaults
      <4>3. d.sshPort = 22
        BY <2>3, <4>1 DEF InstanceConfig
      <4> QED BY <3>2, <4>2, <4>3
    <3>3. e.sshPort \in Int
      BY <2>3 DEF InstanceConfig
    <3> QED BY <3>1, <3>2, <3>3
  <2>6. all[k].mode = "ssh" => e.mode = "ssh"
    BY <2>1, <2>2
  <2>7. all[k].port = Offered(e)[r]
    BY <2>1, <2>2
  <2> QED BY <2>3, <2>5, <2>6, <2>7, OfferedPorts
<1>10. \A i \in DOMAIN c.inst : Cardinality(Slots(all, i)) = Replicas(c.inst[i])
  BY <1>1, <1>2, ExpandedSlots
<1> QED BY <1>2, <1>5, <1>9, <1>10 DEF Runs

LEMMA RunningPortsRuns ==
    ASSUME AdminTypeOK, Runs(from) PROVE RunningPorts
BY Zenon DEF Runs, Slots, RunningPorts

\* What runs was expanded from a configuration that Validate returned, and so is what a
\* reload that has not taken effect yet is about to run.
Ran ==
    /\ from \in BinConfig /\ Fixed(from) /\ boot \in BinConfig /\ Fixed(boot)
    /\ \A t \in Tabs : Reloads(t) => Fixed(job[t].cfg)

\* Epochs and checkers are numbered in the order they start.
Numbers ==
    /\ epoch \in Nat /\ chk.id \in Nat /\ budget \in Nat
    /\ running \subseteq 1 .. epoch /\ chks \subseteq 1 .. chk.id

RunInv == Ran /\ Numbers

Reloading(j) == j.pc \in {"stop", "wait", "swap"}

LEMMA RanMoved ==
    ASSUME Typed, Ran, UNCHANGED <<from, boot>>, NEW t \in Tabs, NEW g,
           job' = [job EXCEPT ![t] = g], Reloading(g) => Fixed(g.cfg)
    PROVE  Ran'
<1>1. \A s \in Tabs : job'[s] = IF s = t THEN g ELSE job[s]
  BY DEF Typed
<1>2. ASSUME NEW s \in Tabs, Reloads(s)' PROVE Fixed(job'[s].cfg)
  <2>1. CASE s = t
    BY <1>1, <1>2, <2>1 DEF Reloads, Reloading
  <2>2. CASE s # t
    BY <1>1, <1>2, <2>2 DEF Reloads, Ran
  <2> QED BY <2>1, <2>2
<1> QED BY <1>2 DEF Ran

LEMMA JobGoto ==
    ASSUME NEW j \in JobType, NEW x
    PROVE  LET g == [j EXCEPT !.pc = x]
           IN  g.pc = x /\ (j \in ReloadJob => g.cfg = j.cfg)
<1>1. CASE j \in PlainJob
  BY <1>1, PlainFields, ReloadFields DEF PlainJob, ReloadJob
<1>2. CASE j \in PostJob
  BY <1>2 DEF PostJob
<1>3. CASE j \in ReloadJob
  BY <1>3 DEF ReloadJob
<1>4. CASE j \in EditJob
  BY <1>4, EditFields, ReloadFields DEF EditJob
<1>5. CASE j \in SaveJob
  BY <1>5 DEF SaveJob
<1> QED BY <1>1, <1>2, <1>3, <1>4, <1>5 DEF JobType

LEMMA RanGoto ==
    ASSUME Typed, Ran, UNCHANGED <<from, boot>>, NEW t \in Tabs, NEW x, Goto(t, x),
           Reloading(job[t]) \/ x \notin {"stop", "wait", "swap"}
    PROVE  Ran'
<1>1. PICK j \in JobType : j = job[t]
  BY DEF Typed
<1>2. PICK g : g = [j EXCEPT !.pc = x]
  OBVIOUS
<1>3. g.pc = x /\ (j \in ReloadJob => g.cfg = j.cfg)
  BY <1>2, JobGoto
<1>4. job' = [job EXCEPT ![t] = g]
  BY <1>1, <1>2, GotoMoves
<1>5. ASSUME Reloading(g) PROVE Fixed(g.cfg)
  <2>1. Reloading(j)
    BY <1>1, <1>3, <1>5 DEF Reloading
  <2>2. j \in ReloadJob
    BY <2>1, JobFields DEF Reloading
  <2> QED BY <1>1, <1>3, <2>1, <2>2 DEF Ran, Reloads, Reloading
<1> QED BY <1>4, <1>5, RanMoved

LEMMA RanAnswer ==
    ASSUME Typed, Ran, UNCHANGED <<from, boot>>, NEW t \in Tabs, NEW x \in {"idle", "restart"},
           Answer(t, x)
    PROVE  Ran'
<1>1. PICK g : g = [pc |-> x]
  OBVIOUS
<1>2. g.pc = x
  BY <1>1
<1>3. job' = [job EXCEPT ![t] = g]
  BY <1>1, AnswerMoves
<1> QED BY <1>2, <1>3, RanMoved DEF Reloading

LEMMA RanHandler ==
    ASSUME AdminInv, RunInv, NEW t \in Tabs, Handler(t)
    PROVE  RunInv'
<1> USE DEF AdminInv, RunInv
<1> DEFINE Still == UNCHANGED <<epoch, running, chk, chks, budget>>
<1>0. Still => Numbers'
  BY DEF Numbers
<1>1. CASE Truncate(t)
  <2>1. Goto(t, "write") /\ UNCHANGED <<from, boot>> /\ Still
    BY <1>1 DEF Truncate, server, notes
  <2> QED BY <1>0, <2>1, RanGoto
<1>2. CASE Write(t)
  <2>1. UNCHANGED <<from, boot>> /\ Still
    BY <1>2 DEF Write, server, notes
  <2>2. Goto(t, "assign") \/ Goto(t, "manager")
    BY <1>2 DEF Write
  <2> QED BY <1>0, <2>1, <2>2, RanGoto
<1>3. CASE AssignSocks(t)
  <2>1. Goto(t, "assign2") /\ UNCHANGED <<from, boot>> /\ Still
    BY <1>3 DEF AssignSocks, notes
  <2> QED BY <1>0, <2>1, RanGoto
<1>4. CASE AssignRest(t)
  <2>1. UNCHANGED <<from, boot>> /\ Still
    BY <1>4 DEF AssignRest, notes
  <2>2. CASE job[t].op = "post"
    <3>1. PICK j \in JobType : j = job[t]
      BY DEF Typed
    <3>2. j.then \in {"idle", "restart"} /\ Answer(t, j.then)
      BY <1>4, <2>2, <3>1, JobFields, PostFields, ReloadFields DEF AssignRest
    <3> QED BY <1>0, <2>1, <3>2, RanAnswer
  <2>3. CASE job[t].op # "post"
    <3>1. Goto(t, "checker")
      BY <1>4, <2>3 DEF AssignRest
    <3> QED BY <1>0, <2>1, <3>1, RanGoto
  <2> QED BY <2>2, <2>3
<1>5. CASE StoreUsers(t)
  <2>1. Goto(t, "marshal") /\ UNCHANGED <<from, boot>> /\ Still
    BY <1>5 DEF StoreUsers, notes
  <2> QED BY <1>0, <2>1, RanGoto
<1>6. CASE Marshal(t)
  <2>0. PICK g : g = [pc |-> "truncate", op |-> job[t].op, user |-> job[t].user,
                      cfg |-> mem, then |-> "idle"]
    OBVIOUS
  <2>1. job' = [job EXCEPT ![t] = g] /\ g.pc = "truncate"
    BY <1>6, <2>0 DEF Marshal, Typed
  <2>2. UNCHANGED <<from, boot>> /\ Still
    BY <1>6 DEF Marshal, server, notes
  <2> QED BY <1>0, <2>1, <2>2, RanMoved DEF Reloading
<1>7. CASE NewUserManager(t)
  <2>1. Answer(t, "idle") /\ UNCHANGED <<from, boot>> /\ Still
    BY <1>7 DEF NewUserManager
  <2> QED BY <1>0, <2>1, RanAnswer
<1>8. CASE ReloadStop(t)
  <2>1. /\ Goto(t, "wait") /\ Reloading(job[t]) /\ UNCHANGED <<from, boot>>
        /\ running' = running \ {epoch} /\ UNCHANGED <<epoch, chk, chks, budget>>
    BY <1>8 DEF ReloadStop, notes, Reloading
  <2>2. Numbers'
    BY <2>1 DEF Numbers
  <2> QED BY <2>1, <2>2, RanGoto
<1>9. CASE ReloadWait(t)
  <2>1. Goto(t, "swap") /\ Reloading(job[t]) /\ UNCHANGED <<from, boot>> /\ Still
    BY <1>9 DEF ReloadWait, server, notes, Reloading
  <2> QED BY <1>0, <2>1, RanGoto
<1>10. CASE ReloadSwap(t)
  <2>1. /\ Goto(t, "assign") /\ job[t].pc = "swap" /\ from' = job[t].cfg
        /\ epoch' = epoch + 1 /\ running' = running \cup {epoch + 1}
        /\ UNCHANGED <<boot, chk, chks, budget>>
    BY <1>10 DEF ReloadSwap, notes
  <2>2. Numbers'
    BY <2>1 DEF Numbers
  <2>3. PICK j \in JobType : j = job[t]
    BY DEF Typed
  <2>4. j.cfg \in BinConfig /\ Fixed(j.cfg)
    <3>1. j.cfg \in BinConfig
      BY <2>1, <2>3, JobFields, ReloadFields
    <3>2. Fixed(job[t].cfg)
      BY <2>1 DEF Ran, Reloads
    <3> QED BY <2>3, <3>1, <3>2
  <2>5. PICK g : g = [j EXCEPT !.pc = "assign"]
    OBVIOUS
  <2>6. g.pc = "assign" /\ job' = [job EXCEPT ![t] = g]
    BY <2>1, <2>3, <2>5, JobGoto, GotoMoves
  <2>7. \A s \in Tabs : Reloads(s)' => Reloads(s) /\ job'[s] = job[s]
    BY <2>6 DEF Typed, Reloads
  <2>8. Ran'
    BY <2>1, <2>3, <2>4, <2>7 DEF Ran
  <2> QED BY <2>2, <2>8
<1>11. CASE ReloadFinish(t)
  <2>1. /\ Answer(t, "idle") /\ UNCHANGED <<from, boot, epoch, running, budget>>
        /\ chk'.id = chk.id + 1 /\ chks' = chks \cup {chk.id + 1}
    BY <1>11 DEF ReloadFinish, notes
  <2>2. PICK n \in Nat : n = chk.id /\ chks \subseteq 1 .. n
    BY DEF Numbers
  <2>3. chk'.id = n + 1 /\ chks' = chks \cup {n + 1}
    BY <2>1, <2>2
  <2>4. chks' \subseteq 1 .. n + 1
    <3>1. \A x \in chks : x \in 1 .. n + 1
      BY <2>2
    <3>2. \A x \in chks' : x \in 1 .. n + 1
      BY <2>3, <3>1
    <3> QED BY <3>2
  <2>5. Numbers'
    BY <2>1, <2>2, <2>3, <2>4 DEF Numbers
  <2> QED BY <2>1, <2>5, RanAnswer
<1>12. CASE handleRestart(t)
  <2>1. Answer(t, "idle") /\ UNCHANGED <<from, boot>> /\ Still
    BY <1>12 DEF handleRestart, server
  <2> QED BY <1>0, <2>1, RanAnswer
<1> QED BY <1>1, <1>2, <1>3, <1>4, <1>5, <1>6, <1>7, <1>8, <1>9, <1>10, <1>11, <1>12
        DEF Handler

LEMMA RanBegin ==
    ASSUME Typed, RunInv, UNCHANGED <<from, boot, epoch, running, chk>>, chks' \subseteq chks,
           NEW t \in Tabs, NEW g, Begin(t, g), Reloading(g) => Fixed(g.cfg)
    PROVE  RunInv'
<1>1. job' = [job EXCEPT ![t] = g] /\ budget > 0 /\ budget' = budget - 1
  BY DEF Begin, Spend
<1>2. Numbers'
  BY <1>1 DEF RunInv, Numbers
<1> QED BY <1>1, <1>2, RanMoved DEF RunInv

LEMMA RanDashboard ==
    ASSUME AdminAssumption, AdminInv, RunInv, NEW t \in Tabs, Dashboard(t)
    PROVE  RunInv'
<1> USE DEF AdminInv
<1>1. CASE loadCfg(t)
  <2>1. UNCHANGED <<from, boot, epoch, running, chk, chks, budget, job>>
    BY <1>1 DEF loadCfg, server, notes
  <2> QED BY <2>1 DEF RunInv, Ran, Numbers, Reloads
<1>2. CASE submitInstance(t) \/ deleteInst(t) \/ saveConfig(t)
  <2>1. PICK c \in BinConfig, then \in {"idle", "restart"} : Post(t, c, then)
    BY <1>2, Posted
  <2>2. UNCHANGED <<from, boot, epoch, running, chk, chks>>
    BY <2>1 DEF Post, server
  <2>3. PICK g : Begin(t, g) /\ g.pc \in {"idle", "restart", "truncate"}
    <3>1. PICK g, h : /\ g = [pc |-> then]
                      /\ h = [pc |-> "truncate", op |-> "post", cfg |-> Validate(c).val, then |-> then]
      OBVIOUS
    <3>2. g.pc = then /\ h.pc = "truncate"
      BY <3>1
    <3>3. Begin(t, g) \/ Begin(t, h)
      BY <2>1, <3>1 DEF Post
    <3> QED BY <3>2, <3>3
  <2> QED BY <2>2, <2>3, RanBegin DEF Reloading
<1>3. CASE fullRestart(t)
  <2>1. PICK g : g = [pc |-> "restart"]
    OBVIOUS
  <2>2. Begin(t, g) /\ UNCHANGED <<from, boot, epoch, running, chk, chks>>
    BY <1>3, <2>1 DEF fullRestart, server
  <2>3. g.pc = "restart"
    BY <2>1
  <2> QED BY <2>2, <2>3, RanBegin DEF Reloading
<1>4. CASE UserRequest(t)
  <2>1. PICK op \in UserOps, u \in Accounts :
           LET us == Changed(op, mem.users, u)
           IN  Begin(t, IF us.err THEN Idle
                          ELSE [pc |-> "store", op |-> op, user |-> u, users |-> us.val,
                                read |-> mem.users, then |-> "idle"])
    BY <1>4 DEF UserRequest, UserOps
  <2>2. UNCHANGED <<from, boot, epoch, running, chk, chks>>
    BY <1>4 DEF UserRequest, server
  <2>3. PICK g : Begin(t, g) /\ g.pc \in {"idle", "store"}
    <3>1. PICK h : h = [pc |-> "store", op |-> op, user |-> u,
                        users |-> Changed(op, mem.users, u).val,
                        read |-> mem.users, then |-> "idle"]
      OBVIOUS
    <3>2. h.pc = "store" /\ Idle.pc = "idle"
      BY <3>1 DEF Idle
    <3>3. Begin(t, Idle) \/ Begin(t, h)
      BY <2>1, <3>1
    <3> QED BY <3>2, <3>3
  <2> QED BY <2>2, <2>3, RanBegin DEF Reloading
<1>5. CASE ReloadLoad(t)
  <2>1. UNCHANGED <<from, boot, epoch, running, chk>> /\ chks' \subseteq chks
    BY <1>5 DEF ReloadLoad
  <2>2. PICK c : c = Load(file)
    OBVIOUS
  <2>3. CASE c.err
    <3>1. Begin(t, Idle) /\ Idle.pc = "idle"
      BY <1>5, <2>2, <2>3 DEF ReloadLoad, Idle
    <3> QED BY <2>1, <3>1, RanBegin DEF Reloading
  <2>4. CASE ~ c.err
    <3>1. PICK d \in BinConfig : d = c.val /\ Fixed(d)
      BY <2>2, <2>4, LoadFacts
    <3>2. [d EXCEPT !.bin = d.bin \/ mem.bin] = d
      <4>1. d \in Config /\ d.bin = TRUE
        BY BinFields
      <4>2. (d.bin \/ mem.bin) = TRUE
        BY <4>1
      <4>3. [d EXCEPT !.bin = TRUE] = d
        BY <4>1 DEF Config
      <4> QED BY <4>2, <4>3
    <3>3. PICK g : g = [pc |-> "stop", op |-> "reload", then |-> "idle", cfg |-> d]
      OBVIOUS
    <3>4. Begin(t, [pc |-> "stop", op |-> "reload", then |-> "idle",
                      cfg |-> [d EXCEPT !.bin = d.bin \/ mem.bin]])
      BY <1>5, <2>2, <2>4, <3>1 DEF ReloadLoad
    <3>5. Begin(t, g)
      BY <3>2, <3>3, <3>4
    <3>6. g.cfg = d
      BY <3>3
    <3> QED BY <2>1, <3>1, <3>5, <3>6, RanBegin
  <2> QED BY <2>3, <2>4
<1> QED BY <1>1, <1>2, <1>3, <1>4, <1>5 DEF Dashboard

\* Nothing waits any more.
LEMMA RanEnded ==
    ASSUME Ended PROVE \A t \in Tabs : ~ Reloads(t)'
BY DEF Ended, Reloads

LEMMA RanBooted ==
    ASSUME RunInv, Ended, NEW f, Booted(f), NEW c \in BinConfig, Fixed(c), Load(f) = OK(c),
           UNCHANGED budget
    PROVE  RunInv'
<1>1. /\ boot' = c /\ from' = c /\ epoch' = epoch + 1 /\ running' = {epoch + 1}
      /\ chk'.id = chk.id + 1 /\ chks' = {chk.id + 1}
  BY OKFacts DEF Booted
<1>2. Ran'
  BY <1>1, RanEnded DEF Ran
<1>3. PICK n \in Nat : n = chk.id
  BY DEF RunInv, Numbers
<1>4. chk'.id = n + 1 /\ chks' \subseteq 1 .. n + 1
  BY <1>1, <1>3
<1>5. Numbers'
  BY <1>1, <1>4 DEF RunInv, Numbers
<1> QED BY <1>2, <1>5 DEF RunInv

LEMMA RanMain ==
    ASSUME Typed, RunInv, Ended, Main, UNCHANGED budget
    PROVE  RunInv'
<1>1. CASE Bootable(file) /\ Booted(file)
  <2>1. ~ Load(file).err
    BY <1>1 DEF Bootable
  <2>2. PICK c \in BinConfig : Load(file) = OK(c) /\ Fixed(c)
    BY <2>1, LoadFacts
  <2> QED BY <1>1, <2>2, RanBooted
<1>2. CASE running' = {} /\ chks' = {} /\ UNCHANGED <<boot, from, epoch, chk>>
  BY <1>2, RanEnded DEF RunInv, Ran, Numbers
<1> QED BY <1>1, <1>2 DEF Main

LEMMA RanNext ==
    ASSUME AdminAssumption, AdminInv, RunInv, [AdminNext]_adminVars
    PROVE  RunInv'
<1>0. Typed /\ One
  BY DEF AdminInv
<1>1. ASSUME NEW t \in open, Dashboard(t) \/ Handler(t) \/ SaveFails(t) PROVE RunInv'
  <2>0. t \in Tabs
    BY <1>0 DEF Typed
  <2>1. CASE SaveFails(t)
    <3>1. PICK j \in JobType : j = job[t]
      BY <1>0, <2>0 DEF Typed
    <3>2. /\ j.pc \in {"truncate", "write"} /\ Answer(t, j.then)
          /\ UNCHANGED <<from, boot, epoch, running, chk, chks>>
          /\ budget > 0 /\ budget' = budget - 1
      BY <2>1, <3>1 DEF SaveFails, Spend, server
    <3>3. j.then \in {"idle", "restart"}
      BY <3>2, JobFields, PostFields, SaveFields
    <3>4. Numbers'
      BY <3>2 DEF RunInv, Numbers
    <3> QED BY <1>0, <2>0, <3>2, <3>3, <3>4, RanAnswer DEF RunInv
  <2> QED BY <1>1, <2>0, <2>1, RanDashboard, RanHandler
<1>2. CASE RestartStop
  <2>1. /\ UNCHANGED <<from, boot, job, epoch, chk, budget>>
        /\ running' = running \ {epoch} /\ chks' = chks \ {chk.id}
    BY <1>2 DEF RestartStop, notes
  <2> QED BY <2>1 DEF RunInv, Ran, Numbers, Reloads
<1>3. CASE RestartExec
  <2>1. Ended
    BY <1>3, AllIdle DEF RestartExec
  <2> QED BY <1>0, <1>3, <2>1, RanMain DEF RestartExec
<1>4. CASE RestartFails
  <2>1. /\ UNCHANGED <<from, boot, job, epoch, running, chk, chks>>
        /\ budget > 0 /\ budget' = budget - 1
    BY <1>4 DEF RestartFails, Spend, server
  <2> QED BY <2>1 DEF RunInv, Ran, Numbers, Reloads
<1>5. CASE Kill
  <2>1. /\ UNCHANGED <<from, boot, epoch, chk>> /\ running' = {} /\ chks' = {}
        /\ budget > 0 /\ budget' = budget - 1
    BY <1>5 DEF Kill, Spend
  <2>2. Ended
    BY <1>5, AllIdle DEF Kill
  <2> QED BY <2>1, <2>2, RanEnded DEF RunInv, Ran, Numbers
<1>6. CASE Start
  <2>1. up # "up" /\ UNCHANGED <<job, restart, budget>>
    BY <1>6 DEF Start
  <2>2. Ended
    BY <1>0, <2>1 DEF One, Typed, Alone, Waits, Ended
  <2>3. CASE Main
    BY <1>0, <2>1, <2>2, <2>3, RanMain
  <2>4. CASE \E s \in Starts : Bootable(Json(s.cfg)) /\ Booted(Json(s.cfg))
    <3>1. PICK s \in Starts : Bootable(Json(s.cfg)) /\ Booted(Json(s.cfg))
      BY <2>4
    <3>2. PICK f : f = Json(s.cfg)
      OBVIOUS
    <3>3. PICK c \in BinConfig : Load(f) = OK(c) /\ Fixed(c)
      BY <3>1, <3>2, StartFacts
    <3> QED BY <2>1, <2>2, <3>1, <3>2, <3>3, RanBooted
  <2> QED BY <1>6, <2>3, <2>4 DEF Start
<1>7. CASE UNCHANGED adminVars
  <2>1. UNCHANGED <<from, boot, job, epoch, running, chk, chks, budget>>
    BY <1>7 DEF adminVars, server, notes
  <2> QED BY <2>1 DEF RunInv, Ran, Numbers, Reloads
<1> QED BY <1>1, <1>2, <1>3, <1>4, <1>5, <1>6, <1>7 DEF AdminNext

LEMMA RanInit ==
    ASSUME AdminAssumption, AdminInit
    PROVE  RunInv
<1>1. PICK s \in Starts :
         /\ Bootable(Json(s.cfg)) /\ boot = Validate(s.cfg).val /\ from = boot
         /\ chk = [id |-> 1, split |-> boot.strategy = "packet_split"] /\ budget = s.requests
  BY DEF AdminInit
<1>2. epoch = 1 /\ running = {1} /\ chks = {1} /\ job = [t \in Tabs |-> Idle]
  BY DEF AdminInit
<1>3. from \in BinConfig /\ Fixed(from) /\ boot \in BinConfig /\ Fixed(boot)
  BY <1>1, StartFacts
<1>4. budget \in Nat /\ chk.id = 1
  BY <1>1 DEF AdminAssumption
<1>5. Idle.pc = "idle"
  BY DEF Idle
<1>6. \A t \in Tabs : ~ Reloads(t)
  BY <1>2, <1>5 DEF Reloads
<1>7. Numbers
  BY <1>2, <1>4 DEF Numbers
<1> QED BY <1>3, <1>6, <1>7 DEF RunInv, Ran

LEMMA RunTypeOK ==
    ASSUME AdminInv, RunInv PROVE AdminTypeOK
<1> USE DEF AdminInv, RunInv
<1>1. file.text \in {"json", "empty", "mixed"}
  BY DEF Typed, Json, Empty, Mixed
<1>2. ASSUME NEW t \in Tabs
      PROVE  job[t].pc \in {"idle", "truncate", "write", "assign", "assign2", "store",
                            "marshal", "manager", "stop", "wait", "swap", "checker", "restart"}
  <2>1. PICK j \in JobType : j = job[t]
    BY DEF Typed
  <2>2. CASE j \in PlainJob
    BY <2>1, <2>2, PlainFields
  <2>3. CASE j \in PostJob
    BY <2>1, <2>3, PostFields
  <2>4. CASE j \in ReloadJob
    BY <2>1, <2>4, ReloadFields
  <2>5. CASE j \in EditJob
    BY <2>1, <2>5, EditFields
  <2>6. CASE j \in SaveJob
    BY <2>1, <2>6, SaveFields
  <2> QED BY <2>2, <2>3, <2>4, <2>5, <2>6 DEF JobType
<1>3. ~ Validate(from).err /\ ~ Validate(boot).err
  BY OKFacts DEF Ran, Fixed
<1>4. up \in {"up", "killed", "dead"} /\ restart \in {"none", "due", "wait"} /\ open \subseteq Tabs
  BY DEF Typed
<1>5. Numbers
  OBVIOUS
<1> QED BY <1>1, <1>2, <1>3, <1>4, <1>5 DEF AdminTypeOK, Numbers

\* expand.go: whatever requests and faults led there, the instances that run have
\* pairwise different ports, as many for every entry as it asks for, from its first port
\* on and inside its range, and an SSH entry has its port and its credentials.
THEOREM PortsAreRight == AdminSpec => []RunningPorts
<1>1. AdminInit => AdminInv /\ RunInv
  BY AdminAssumption, AdminInitInv, RanInit
<1>2. AdminInv /\ RunInv /\ [AdminNext]_adminVars => AdminInv' /\ RunInv'
  BY AdminAssumption, AdminNextInv, RanNext
<1>3. AdminInv /\ RunInv => RunningPorts
  <2> SUFFICES ASSUME AdminInv, RunInv PROVE RunningPorts
    OBVIOUS
  <2>1. from \in Config /\ Fixed(from)
    BY BinFields DEF RunInv, Ran
  <2> QED BY <2>1, FixedRuns, RunTypeOK, RunningPortsRuns
<1> QED BY <1>1, <1>2, <1>3, PTL DEF AdminSpec
=============================================================================
