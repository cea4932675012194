----------------------------- MODULE Supervisor -----------------------------
(***************************************************************************)
(* The life of one slipstream instance: engine.Instance and its process,   *)
(* the supervise goroutine and the administrative operations of            *)
(* engine.Manager (Shutdown, Reload, RestartInstance), and the probes of   *)
(* health.Checker.  Instances do not interact, so one instance id is       *)
(* enough; Reload replaces the Instance object, so there is one object per *)
(* generation of the configuration.                                        *)
(*                                                                         *)
(* Goroutines: supervise (one per generation), the administrator (the GUI  *)
(* or the signal handler), checkOne (several may overlap: a probe takes up *)
(* to 30 s or more and checkAll does not wait for the previous round).     *)
(* A section under Instance.mu is one step, except Stop, which holds it    *)
(* while it waits for the process to die.                                  *)
(***************************************************************************)
EXTENDS Integers, FiniteSets

CONSTANTS
    MaxGen,                  \* bound: generations of the configuration
    MaxStarts,               \* bound: processes started per generation
    Probes,                  \* bound: checkOne goroutines at a time
    maxConsecutiveFailures,  \* 3 in the code
    EndToEnd,                \* checkOne has a third step: a target is set, mode is not ssh
    EventSets,               \* the sets of environment events a behaviour may have
    KillWorks                \* killProcessGroup kills (proc_unix.go) or not (proc_windows.go)

ASSUME SupervisorAssumption ==
    /\ MaxGen \in Nat \ {0} /\ MaxStarts \in Nat \ {0}
    /\ maxConsecutiveFailures \in Nat \ {0}
    /\ \A E \in EventSets :
          E \subseteq {"crash", "startErr", "shutdown", "reload", "restart", "check"}
    /\ EndToEnd \in BOOLEAN /\ KillWorks \in BOOLEAN
    /\ {"admin", "free"} \cap Probes = {}

Gens  == 1 .. MaxGen
Procs == 1 .. MaxStarts      \* process numbers; 0 stands for cmd == nil

VARIABLES
    events,    \* the environment events of this behaviour
    gen,       \* the generation m.instances holds
    ctxDone,   \* m.ctx is cancelled
    inst,      \* Instance objects: state, cmd, and the holder of mu
    live,      \* running processes of each generation
    started,   \* number of processes started
    sup,       \* supervise goroutines
    admin,     \* Shutdown or Reload in progress
    probe,     \* checkOne goroutines and the restart goroutines they spawn
    failures,  \* Checker.failures (a new Checker, hence a new map, per generation)
    procFails, \* history: failures recorded since the last start
    verified   \* history: the process whose probe made the instance healthy

vars == <<events, gen, ctxDone, inst, live, started, sup, admin, probe, failures,
          procFails, verified>>
history == <<procFails, verified>>

IdleProbe == [pc |-> "idle", g |-> 1, cause |-> "none", pid |-> 0]

\* After NewManager and StartAll: the first generation runs, supervised.
Init ==
    /\ events \in EventSets
    /\ gen = 1
    /\ ctxDone = FALSE
    /\ inst = [g \in Gens |->
          IF g = 1 THEN [state |-> "Starting", cmd |-> 1, mu |-> "free"]
          ELSE [state |-> "Dead", cmd |-> 0, mu |-> "free"]]
    /\ live = [g \in Gens |-> IF g = 1 THEN {1} ELSE {}]
    /\ started = [g \in Gens |-> IF g = 1 THEN 1 ELSE 0]
    /\ sup = [g \in Gens |-> [pc |-> IF g = 1 THEN "top" ELSE "none", cmd |-> 0]]
    /\ admin = [op |-> "none", pc |-> "idle"]
    /\ probe = [p \in Probes |-> IdleProbe]
    /\ failures = [g \in Gens |-> 0]
    /\ procFails = [g \in Gens |-> 0]
    /\ verified = [g \in Gens |-> 0]

-----------------------------------------------------------------------------
(* Instance                                                                *)

Unlocked(g) == inst[g].mu = "free"

SetState(g, s) == inst' = [inst EXCEPT ![g].state = s]

\* Start() succeeds: a new process, to be verified by the health checker.
StartOK(g) ==
    /\ Unlocked(g) /\ started[g] < MaxStarts
    /\ started' = [started EXCEPT ![g] = @ + 1]
    /\ live' = [live EXCEPT ![g] = @ \cup {started[g] + 1}]
    /\ inst' = [inst EXCEPT ![g].cmd = started[g] + 1, ![g].state = "Starting"]
    /\ procFails' = [procFails EXCEPT ![g] = 0]
    /\ UNCHANGED verified

\* Start() fails before it has changed cmd or state.
StartFails(g) ==
    /\ Unlocked(g) /\ "startErr" \in events
    /\ UNCHANGED <<inst, live, started, history>>

\* Stop(), first part: take mu, signal the process group, wait in cmd.Wait().
StopBegin(g, who) ==
    /\ Unlocked(g)
    /\ inst' = [inst EXCEPT ![g].mu = who]

\* The process that was signalled dies, if the signal was one.
KilledDies(g) ==
    /\ ~Unlocked(g) /\ KillWorks /\ inst[g].cmd \in live[g]
    /\ live' = [live EXCEPT ![g] = @ \ {inst[g].cmd}]
    /\ UNCHANGED <<events, gen, ctxDone, inst, started, sup, admin, probe, failures, history>>

\* Stop(), second part: cmd.Wait() has returned; mark dead, release mu.
StopEnd(g, who) ==
    /\ inst[g].mu = who
    /\ inst[g].cmd \notin live[g]
    /\ inst' = [inst EXCEPT ![g] = [state |-> "Dead", cmd |-> 0, mu |-> "free"]]

-----------------------------------------------------------------------------
(* supervise(inst)                                                         *)

SupGoto(g, pc) == sup' = [sup EXCEPT ![g] = [pc |-> pc, cmd |-> 0]]

\* Mutant of SupTop: no context test at the head of the loop.
SupTopBlind(g) ==
    /\ sup[g].pc = "top"
    /\ SupGoto(g, "load")
    /\ UNCHANGED <<events, gen, ctxDone, inst, live, started, admin, probe, failures, history>>

\* The context test at the head of the loop.
SupTop(g) ==
    /\ sup[g].pc = "top"
    /\ SupGoto(g, IF ctxDone THEN "done" ELSE "load")
    /\ UNCHANGED <<events, gen, ctxDone, inst, live, started, admin, probe, failures, history>>

\* Mutant of SupLoad: WaitForExit without the test for nil.
SupLoadNil(g) ==
    /\ sup[g].pc = "load" /\ Unlocked(g)
    /\ sup' = [sup EXCEPT ![g] = [pc |-> "wait", cmd |-> inst[g].cmd]]
    /\ UNCHANGED <<events, gen, ctxDone, inst, live, started, admin, probe, failures, history>>

\* WaitForExit reads inst.cmd under mu; nil is an error, returned at once.
SupLoad(g) ==
    /\ sup[g].pc = "load" /\ Unlocked(g)
    /\ sup' = [sup EXCEPT ![g] = IF inst[g].cmd = 0 THEN [pc |-> "exited", cmd |-> 0]
                                 ELSE [pc |-> "wait", cmd |-> inst[g].cmd]]
    /\ UNCHANGED <<events, gen, ctxDone, inst, live, started, admin, probe, failures, history>>

\* Mutant of SupWait: WaitForExit gives up before the process has exited.
SupWaitImpatient(g) ==
    /\ sup[g].pc = "wait" /\ Unlocked(g)
    /\ SetState(g, "Dead")
    /\ SupGoto(g, "exited")
    /\ UNCHANGED <<events, gen, ctxDone, live, started, admin, probe, failures, history>>

\* cmd.Wait() returns: the process is gone.
SupWait(g) ==
    /\ sup[g].pc = "wait" /\ sup[g].cmd \notin live[g] /\ Unlocked(g)
    /\ SetState(g, "Dead")
    /\ SupGoto(g, "exited")
    /\ UNCHANGED <<events, gen, ctxDone, live, started, admin, probe, failures, history>>

\* Mutant of SupExited: an exit ends the supervision.
SupExitedForGood(g) ==
    /\ sup[g].pc = "exited"
    /\ SupGoto(g, "done")
    /\ UNCHANGED <<events, gen, ctxDone, inst, live, started, admin, probe, failures, history>>

\* The second context test.
SupExited(g) ==
    /\ sup[g].pc = "exited"
    /\ SupGoto(g, IF ctxDone THEN "done" ELSE "dead")
    /\ UNCHANGED <<events, gen, ctxDone, inst, live, started, admin, probe, failures, history>>

\* SetState(StateDead) before the restart.
SupDead(g) ==
    /\ sup[g].pc = "dead" /\ Unlocked(g)
    /\ SetState(g, "Dead")
    /\ SupGoto(g, "backoff")
    /\ UNCHANGED <<events, gen, ctxDone, live, started, admin, probe, failures, history>>

\* select over ctx.Done() and time.After(backoff): when both are ready either
\* may be taken, and nothing tests the context between the timer and Start().
SupBackoff(g) ==
    /\ sup[g].pc = "backoff"
    /\ \/ SupGoto(g, "start")
       \/ ctxDone /\ SupGoto(g, "done")
    /\ UNCHANGED <<events, gen, ctxDone, inst, live, started, admin, probe, failures, history>>

SupStart(g) ==
    /\ sup[g].pc = "start"
    /\ \/ StartOK(g) /\ SupGoto(g, "top")
       \/ StartFails(g) /\ SupGoto(g, "backoff")
    /\ UNCHANGED <<events, gen, ctxDone, admin, probe, failures>>

SupStep(g) ==
    \/ SupTop(g) \/ SupLoad(g) \/ SupWait(g) \/ SupExited(g) \/ SupDead(g)
    \/ SupBackoff(g) \/ SupStart(g)

-----------------------------------------------------------------------------
(* Manager.Shutdown and Manager.Reload, one at a time.                     *)

AdminGoto(pc) == admin' = [admin EXCEPT !.pc = pc]

\* The caller stops the checker, then Shutdown/Reload cancels the context.
AdminCancel(op) ==
    /\ admin.pc = "idle" /\ op \in events
    /\ op = "reload" => gen < MaxGen
    /\ admin' = [op |-> op, pc |-> "stop"]
    /\ ctxDone' = TRUE
    /\ UNCHANGED <<events, gen, inst, live, started, sup, probe, failures, history>>

AdminStop ==
    /\ admin.pc = "stop"
    /\ StopBegin(gen, "admin")
    /\ AdminGoto("stopping")
    /\ UNCHANGED <<events, gen, ctxDone, live, started, sup, probe, failures, history>>

AdminStopped ==
    /\ admin.pc = "stopping"
    /\ StopEnd(gen, "admin")
    /\ AdminGoto("wait")
    /\ UNCHANGED <<events, gen, ctxDone, live, started, sup, probe, failures, history>>

\* wg.Wait() returns when every supervise goroutine has; Shutdown is over.
AdminShutdownDone ==
    /\ admin = [op |-> "shutdown", pc |-> "wait"]
    /\ \A g \in Gens : sup[g].pc \in {"none", "done"}
    /\ AdminGoto("exited")
    /\ UNCHANGED <<events, gen, ctxDone, inst, live, started, sup, probe, failures, history>>

\* Reload: under m.mu (which RestartInstance holds for reading while it
\* stops an instance) a fresh context and fresh Instance objects.  (Expanding
\* the configuration cannot fail here: config.Load has just expanded it.)
AdminReplace ==
    /\ admin = [op |-> "reload", pc |-> "wait"]
    /\ \A g \in Gens : sup[g].pc \in {"none", "done"}
    /\ \A p \in Probes : probe[p].pc # "stopping"
    /\ gen' = gen + 1
    /\ ctxDone' = FALSE
    /\ AdminGoto("start")
    /\ UNCHANGED <<events, inst, live, started, sup, probe, failures, history>>

\* Start the new instance; only one that starts is supervised.
AdminStart ==
    /\ admin.pc = "start"
    /\ \/ StartOK(gen) /\ sup' = [sup EXCEPT ![gen].pc = "top"]
       \/ StartFails(gen) /\ UNCHANGED sup
    /\ admin' = [op |-> "none", pc |-> "idle"]
    /\ UNCHANGED <<events, gen, ctxDone, probe, failures>>

AdminStep == AdminStop \/ AdminStopped \/ AdminShutdownDone \/ AdminReplace \/ AdminStart

-----------------------------------------------------------------------------
(* Checker.checkOne and Manager.RestartInstance                            *)

ProbeGoto(p, pc) == probe' = [probe EXCEPT ![p].pc = pc]
ProbeEnds(p) == probe' = [probe EXCEPT ![p] = IdleProbe]

\* checkAll starts a probe unless the instance is Dead; a stopped checker
\* starts none, but the probes under way go on.
checkAll(p) ==
    /\ "check" \in events /\ admin.pc = "idle"
    /\ probe[p].pc = "idle"
    /\ Unlocked(gen) /\ inst[gen].state # "Dead"
    /\ probe' = [probe EXCEPT ![p] = [IdleProbe EXCEPT !.pc = "dial", !.g = gen]]
    /\ UNCHANGED <<events, gen, ctxDone, inst, live, started, sup, admin, failures, history>>

\* A process listens on the instance's port: of any generation, they share it.
Listening == \E g \in Gens : live[g] # {}

\* The counter is only compared with maxConsecutiveFailures: larger values
\* are identified.
recordFailure(g) ==
    /\ failures' = [failures EXCEPT ![g] = IF @ < maxConsecutiveFailures THEN @ + 1 ELSE @]
    /\ procFails' = [procFails EXCEPT ![g] = IF @ < maxConsecutiveFailures THEN @ + 1 ELSE @]
    /\ UNCHANGED verified

\* Step 1 of checkOne, the TCP connection.
DialOK(p) ==
    /\ probe[p].pc = "dial" /\ Listening
    /\ ProbeGoto(p, "tunnel")
    /\ UNCHANGED <<events, gen, ctxDone, inst, live, started, sup, admin, failures, history>>

\* Step 2, the tunnel probe, and step 3, the end-to-end probe.  When the last
\* answer has been received, pid remembers which process gave it.
ProbeOK(p) ==
    /\ probe[p].pc \in {"tunnel", "e2e"}
    /\ \E g \in Gens : \E n \in live[g] :
          probe' = [probe EXCEPT ![p] =
             IF @.pc = "tunnel" /\ EndToEnd THEN [@ EXCEPT !.pc = "e2e"]
             ELSE [@ EXCEPT !.pc = "ok", !.pid = IF g = probe[p].g THEN n ELSE 0]]
    /\ UNCHANGED <<events, gen, ctxDone, inst, live, started, sup, admin, failures, history>>

\* A step fails, at any time.  The failure is recorded; a failed connection,
\* or enough failures of the other steps, are acted upon.
ProbeFails(p) ==
    /\ probe[p].pc \in {"dial", "tunnel", "e2e"}
    /\ recordFailure(probe[p].g)
    /\ IF probe[p].pc = "dial" \/ failures'[probe[p].g] >= maxConsecutiveFailures
       THEN probe' = [probe EXCEPT ![p].pc = "failed", ![p].cause = probe[p].pc]
       ELSE ProbeEnds(p)
    /\ UNCHANGED <<events, gen, ctxDone, inst, live, started, sup, admin>>

\* The test inst.State() != StateUnhealthy.
SeeState(p) ==
    /\ probe[p].pc = "failed" /\ Unlocked(probe[p].g)
    /\ IF inst[probe[p].g].state = "Unhealthy" THEN ProbeEnds(p) ELSE ProbeGoto(p, "mark")
    /\ UNCHANGED <<events, gen, ctxDone, inst, live, started, sup, admin, failures, history>>

\* SetState(StateUnhealthy); go RestartInstance unless the third step failed.
MarkUnhealthy(p) ==
    /\ probe[p].pc = "mark" /\ Unlocked(probe[p].g)
    /\ SetState(probe[p].g, "Unhealthy")
    /\ IF probe[p].cause = "e2e" THEN ProbeEnds(p) ELSE ProbeGoto(p, "restart")
    /\ UNCHANGED <<events, gen, ctxDone, live, started, sup, admin, failures, history>>

\* All steps succeeded: the failures are forgotten,
recordSuccess(p) ==
    /\ probe[p].pc = "ok"
    /\ failures' = [failures EXCEPT ![probe[p].g] = 0]
    /\ procFails' = [procFails EXCEPT ![probe[p].g] = 0]
    /\ ProbeGoto(p, "healthy")
    /\ UNCHANGED <<events, gen, ctxDone, inst, live, started, sup, admin, verified>>

\* and SetState(StateHealthy).
MarkHealthy(p) ==
    /\ probe[p].pc = "healthy" /\ Unlocked(probe[p].g)
    /\ SetState(probe[p].g, "Healthy")
    /\ verified' = [verified EXCEPT ![probe[p].g] = probe[p].pid]
    /\ ProbeEnds(p)
    /\ UNCHANGED <<events, gen, ctxDone, live, started, sup, admin, failures, procFails>>

\* A restart asked for through the GUI.
RestartRequest(p) ==
    /\ "restart" \in events /\ admin.pc = "idle" /\ probe[p].pc = "idle"
    /\ probe' = [probe EXCEPT ![p] = [IdleProbe EXCEPT !.pc = "restart", !.g = gen,
                                                       !.cause = "user"]]
    /\ UNCHANGED <<events, gen, ctxDone, inst, live, started, sup, admin, failures, history>>

\* RestartInstance(id) stops whatever instance has that id now; the
\* supervisor is left to start it again.
RestartInstance(p) ==
    /\ probe[p].pc = "restart"
    /\ StopBegin(gen, p)
    /\ ProbeGoto(p, "stopping")
    /\ UNCHANGED <<events, gen, ctxDone, live, started, sup, admin, failures, history>>

RestartStopped(p) ==
    /\ probe[p].pc = "stopping"
    /\ StopEnd(gen, p)
    /\ ProbeEnds(p)
    /\ UNCHANGED <<events, gen, ctxDone, live, started, sup, admin, failures, history>>

\* What a probe does once it is under way.
ProbeStep(p) ==
    \/ DialOK(p) \/ ProbeOK(p) \/ ProbeFails(p) \/ SeeState(p) \/ MarkUnhealthy(p)
    \/ recordSuccess(p) \/ MarkHealthy(p) \/ RestartInstance(p) \/ RestartStopped(p)

-----------------------------------------------------------------------------
\* A process exits by itself.
Crash(g) ==
    /\ "crash" \in events
    /\ \E n \in live[g] : live' = [live EXCEPT ![g] = @ \ {n}]
    /\ UNCHANGED <<events, gen, ctxDone, inst, started, sup, admin, probe, failures, history>>

NextStep ==
    \/ \E g \in Gens : SupStep(g) \/ KilledDies(g) \/ Crash(g)
    \/ \E op \in {"shutdown", "reload"} : AdminCancel(op)
    \/ AdminStep
    \/ \E p \in Probes : checkAll(p) \/ RestartRequest(p) \/ ProbeStep(p)

Spec == Init /\ [][NextStep]_vars

\* Goroutines run, timers fire and every probe has a timeout.  Fairness is
\* strong because they contend for Instance.mu, and a Go mutex hands itself to
\* a goroutine that has waited long.  Start() is assumed to succeed in the end
\* if it is tried for ever, and the select over ctx.Done() and a new timer not
\* to miss a cancelled context for ever.  Crashes, checks, restart requests
\* and administrative operations are not assumed to happen.
Fairness ==
    /\ \A g \in Gens : /\ SF_vars(SupStep(g))
                       /\ SF_vars(SupStart(g) /\ SupGoto(g, "top"))
                       /\ SF_vars(SupBackoff(g) /\ SupGoto(g, "done"))
                       /\ WF_vars(KilledDies(g))
    /\ SF_vars(AdminStep)
    /\ \A p \in Probes : SF_vars(ProbeStep(p))

FairSpec == Spec /\ Fairness

-----------------------------------------------------------------------------
InstanceType == [state : {"Starting", "Healthy", "Unhealthy", "Dead"},
                 cmd : Procs \cup {0}, mu : {"free", "admin"} \cup Probes]
SupPC == {"none", "top", "load", "wait", "exited", "dead", "backoff", "start", "done"}
SupType == {x \in [pc : SupPC, cmd : Procs \cup {0}] : x.pc = "wait" => x.cmd # 0}
AdminType == [op : {"none", "shutdown", "reload"},
              pc : {"idle", "stop", "stopping", "wait", "start", "exited"}]
ProbePC == {"idle", "dial", "tunnel", "e2e", "ok", "healthy", "failed", "mark", "restart",
            "stopping"}
ProbeType == [pc : ProbePC, g : Gens, cause : {"none", "dial", "tunnel", "e2e", "user"},
              pid : Procs \cup {0}]

\* Types; and the supervisor never calls Wait() on a nil command (SupType).
TypeOK ==
    /\ events \in EventSets /\ gen \in Gens /\ ctxDone \in BOOLEAN
    /\ inst \in [Gens -> InstanceType]
    /\ live \in [Gens -> SUBSET Procs]
    /\ started \in [Gens -> 0 .. MaxStarts]
    /\ sup \in [Gens -> SupType]
    /\ admin \in AdminType
    /\ probe \in [Probes -> ProbeType]
    /\ failures \in [Gens -> 0 .. maxConsecutiveFailures]
    /\ procFails \in [Gens -> 0 .. maxConsecutiveFailures]
    /\ verified \in [Gens -> Procs \cup {0}]

\* Start() overwrites inst.cmd and Stop() clears it.  Neither ever loses a
\* running process: an instance has at most one, and inst.cmd is its handle,
\* whatever the supervisor, restarts and administrative operations do.
ProcessReachable == \A g \in Gens : live[g] \subseteq {inst[g].cmd}

\* Supervisors, restarts, probes and administrative operations together
\* implement the abstract specification: Start() is never called, by the
\* supervisor or by Reload, on an instance that still has a process.
Abstract == INSTANCE SingleProcess
    WITH Objects <- Gens, First <- 1, running <- live, count <- started
OneProcessAtATime == Abstract!Spec

\* "Supervisor goroutine will detect exit and restart": a supervised instance
\* whose process has died, by itself or by RestartInstance, runs again, unless
\* the context is cancelled.
SupervisedRestarts ==
    \A g \in Gens :
       (live[g] = {} /\ sup[g].pc \notin {"none", "done"} /\ started[g] < MaxStarts)
          ~> (live[g] # {} \/ ctxDone)

\* Shutdown and Reload end: nobody waits on wg or on Instance.mu for ever.
AdminFinishes == (admin.pc # "idle") ~> (admin.pc \in {"idle", "exited"})

-----------------------------------------------------------------------------
(* What comments in the code say of it, and the code does not do.          *)

\* handlers.go, before Shutdown(): "this kills all child processes and frees
\* ports"; manager.go: "cancel context FIRST so supervisor goroutines exit
\* instead of trying to restart instances after we stop them".
ShutdownKillsAll == admin.pc = "exited" => \A g \in Gens : live[g] = {}

\* checker.go: "An instance is HEALTHY only after a successful tunnel probe";
\* instance.go, Start(): "wait for health checker to verify".  The process of
\* a healthy instance is the one that answered the probe.
HealthyIsVerified ==
    \A g \in Gens : inst[g].state = "Healthy" => verified[g] = started[g]

\* checker.go: unhealthy if the "Tunnel probe fails 3 consecutive times".  A
\* process that is about to be restarted for tunnel failures has failed that
\* many probes.
RestartAfterEnoughFailures ==
    \A p \in Probes :
       (probe[p].pc = "restart" /\ probe[p].cause = "tunnel" /\ probe[p].g = gen
          /\ inst[gen].state = "Unhealthy")
       => procFails[gen] >= maxConsecutiveFailures

\* handlers.go, handleReload: "Stop health checker before reload to prevent
\* race conditions".  A probe only ever stops the instance it has probed.
RestartHitsProbedInstance ==
    \A p \in Probes : probe[p].pc = "stopping" => probe[p].g = gen
=============================================================================
