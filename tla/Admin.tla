------------------------------- MODULE Admin -------------------------------
(***************************************************************************)
(* The web interface (internal/gui) over the configuration file, the       *)
(* configuration in memory, the manager's instances, the health checker    *)
(* and the list of users, and the start of the program (main.go).          *)
(*                                                                         *)
(* Each HTTP request runs in a goroutine of its own and no lock guards     *)
(* s.cfg, s.userMgr, s.checker or the file, so requests of several         *)
(* dashboards interleave.  os.WriteFile truncates, then writes; a          *)
(* structure is assigned field by field: "socks" (the users) first.  A     *)
(* dashboard edits CC, the copy of the configuration it read last, and     *)
(* posts all of it.  The processes of one list of instances are one epoch; *)
(* module Supervisor has their supervision in detail.                      *)
(***************************************************************************)
EXTENDS ConfigOps, SeqOps

CONSTANTS
    Tabs,         \* dashboards
    Starts,       \* the configuration files a first start may find, each with
                  \* the dashboards that are open then and the number of
                  \* requests and faults that may follow (bound)
    NewEntries,   \* the instances a dashboard may add
    Accounts,     \* the users a dashboard may add or edit: [name, limit]
    MaxEntries    \* bound: entries of a configuration

ASSUME AdminAssumption ==
    /\ \A s \in Starts : s.cfg \in Config /\ s.tabs \subseteq Tabs /\ s.requests \in Nat
    /\ NewEntries \subseteq InstanceConfig /\ Accounts \subseteq UserConfig /\ MaxEntries \in Nat

VARIABLES
    file,      \* the configuration file
    up,        \* "up", "killed", or "dead": main ended in log.Fatalf
    boot,      \* the configuration the proxy was started with: its balancer,
               \* users and listener never change afterwards
    mem,       \* *s.cfg
    from,      \* the configuration m.instances was expanded from
    epoch,     \* number of the current m.instances
    running,   \* epochs whose processes and supervisors run
    chk,       \* s.checker
    chks,      \* checkers that run
    gui,       \* s.userMgr: Failed for nil, OK(users)
    job,       \* the request each dashboard waits for
    CC,        \* the dashboards' copies: Failed for null
    restart,   \* the goroutine of handleRestart
    open,      \* the dashboards in use
    budget,    \* requests and faults that may still happen
    calm,      \* history: since the start no two requests overlapped and no save failed
    clash,     \* history: a reload or restart began during another one
    fresh,     \* history: every accepted CC had the users of s.cfg
    accepted   \* history: the users as the answers to the dashboards left them

server == <<up, boot, mem, from, epoch, running, chk, chks, gui>>
notes == <<open, budget, calm, clash, fresh, accepted>>
adminVars == <<file, server, job, CC, restart, notes>>

Json(c) == [text |-> "json", cfg |-> c]
Empty   == [text |-> "empty"]
Mixed   == [text |-> "mixed"]   \* an unfinished or overlaid write

Load(f) == IF f.text = "json" THEN Validate(f.cfg) ELSE Failed

Idle == [pc |-> "idle"]

\* main.go: bin is that slipstream_binary is set and exists.
Bootable(f) == ~ Load(f).err /\ Load(f).val.bin

Users(us) == IF us = <<>> THEN Failed ELSE OK(us)

Booted(f) ==
    LET c == Load(f).val
    IN  /\ up' = "up" /\ boot' = c /\ mem' = c /\ from' = c
        /\ epoch' = epoch + 1 /\ running' = {epoch + 1}
        /\ chk' = [id |-> chk.id + 1, split |-> c.strategy = "packet_split"]
        /\ chks' = {chk.id + 1}
        /\ gui' = Users(c.users)
        /\ calm' = TRUE /\ fresh' = TRUE /\ accepted' = ToSet(c.users)

\* main up to the proxy's listener, on whatever the file holds.
Main ==
    \/ Bootable(file) /\ Booted(file) /\ UNCHANGED file
    \/ /\ ~ Bootable(file)
       /\ up' = "dead" /\ running' = {} /\ chks' = {}
       /\ UNCHANGED <<file, boot, mem, from, epoch, chk, gui, calm, fresh, accepted>>

AdminInit ==
    \E s \in Starts :
        LET v == Validate(s.cfg).val
        IN  /\ Bootable(Json(s.cfg)) /\ file = Json(s.cfg)
            /\ up = "up" /\ boot = v /\ mem = v /\ from = v
            /\ epoch = 1 /\ running = {1} /\ chks = {1}
            /\ chk = [id |-> 1, split |-> v.strategy = "packet_split"]
            /\ gui = Users(v.users)
            /\ job = [t \in Tabs |-> Idle] /\ CC = [t \in Tabs |-> Failed]
            /\ restart = "none" /\ open = s.tabs /\ budget = s.requests
            /\ calm = TRUE /\ clash = FALSE /\ fresh = TRUE /\ accepted = ToSet(v.users)

-----------------------------------------------------------------------------
(* Dashboards                                                              *)

Waits(t)  == job[t].pc # "idle"
Reloads(t) == job[t].pc \in {"stop", "wait", "swap"}

Spend == budget > 0 /\ budget' = budget - 1 /\ UNCHANGED open

Alone == restart = "none" /\ \A t \in Tabs : ~ Waits(t)

\* A new request: goes to the goroutine state j.
Begin(t, j) ==
    /\ up = "up" /\ ~ Waits(t) /\ Spend
    /\ calm' = (calm /\ Alone)
    /\ job' = [job EXCEPT ![t] = j]

\* GET /api/config.  A failed or late answer leaves CC as it was.
loadCfg(t) ==
    /\ up = "up" /\ ~ Waits(t) /\ CC[t] # OK(mem)
    /\ CC' = [CC EXCEPT ![t] = OK(mem)]
    /\ UNCHANGED <<file, server, job, restart, notes>>

\* Mutant: saved, then validated.
PostUnchecked(t, c, then) ==
    /\ CC' = [CC EXCEPT ![t] = OK(c)]
    /\ Begin(t, [pc |-> "truncate", op |-> "post", cfg |-> c, then |-> then])
    /\ fresh' = (fresh /\ c.users = mem.users)
    /\ UNCHANGED <<file, server, restart, clash, accepted>>

\* POST /api/config.  then: what the dashboard does after the answer.
Post(t, c, then) ==
    /\ CC' = [CC EXCEPT ![t] = OK(c)]
    /\ LET v == Validate(c)
       IN  IF v.err
           THEN Begin(t, [pc |-> then]) /\ UNCHANGED fresh
           ELSE /\ Begin(t, [pc |-> "truncate", op |-> "post", cfg |-> v.val, then |-> then])
                /\ fresh' = (fresh /\ c.users = mem.users)
    /\ UNCHANGED <<file, server, restart, clash, accepted>>

\* Adds an instance or replaces one.
submitInstance(t) ==
    /\ ~ CC[t].err
    /\ \E e \in NewEntries, i \in 1 .. MaxEntries :
          /\ i <= Len(CC[t].val.inst) + 1
          /\ Post(t, [CC[t].val EXCEPT !.inst = IF i > Len(@) THEN Append(@, e)
                                                 ELSE [@ EXCEPT ![i] = e]], "idle")

deleteInst(t) ==
    /\ ~ CC[t].err
    /\ \E i \in DOMAIN CC[t].val.inst :
          Post(t, [CC[t].val EXCEPT !.inst = RemoveAt(@, i)], "idle")

\* The copy with the values of the settings form.
Form(c, s) == [c EXCEPT !.strategy = s, !.chunk = IF c.chunk = 0 THEN 8192 ELSE c.chunk]

saveConfig(t) ==
    /\ ~ CC[t].err
    /\ \E s \in {"round_robin", "packet_split"}, then \in {"idle", "restart"} :
          Post(t, Form(CC[t].val, s), then)

\* fullRestart, and saveAndApply whether or not the save was accepted.
fullRestart(t) ==
    /\ Begin(t, [pc |-> "restart"])
    /\ UNCHANGED <<file, server, CC, restart, clash, fresh, accepted>>

-----------------------------------------------------------------------------
(* Saving: os.WriteFile of a configuration                                 *)

Goto(t, pc) == job' = [job EXCEPT ![t].pc = pc]

\* An answer with an error leaves the handler.
Answer(t, pc) == job' = [job EXCEPT ![t] = [pc |-> pc]]

Truncate(t) ==
    /\ job[t].pc = "truncate"
    /\ file' = Empty
    /\ Goto(t, "write")
    /\ UNCHANGED <<server, CC, restart, notes>>

\* Over the bytes of a writer that came between, if they are more, a tail of them is left.
Write(t) ==
    /\ job[t].pc = "write"
    /\ file' \in {Json(job[t].cfg)} \cup (IF file = Empty THEN {} ELSE {Mixed})
    /\ Goto(t, IF job[t].op = "post" THEN "assign" ELSE "manager")
    /\ UNCHANGED <<server, CC, restart, notes>>

\* The file cannot be opened, or the write stops half way.
SaveFails(t) ==
    /\ Spend
    /\ \/ job[t].pc = "truncate" /\ UNCHANGED file
       \/ job[t].pc = "write" /\ file' \in {Empty, Mixed}
    /\ calm' = FALSE
    /\ Answer(t, job[t].then)
    /\ UNCHANGED <<server, CC, restart, clash, fresh, accepted>>

\* *s.cfg = newCfg (or *newCfg): socks, then the rest.
AssignSocks(t) ==
    /\ job[t].pc = "assign"
    /\ mem' = [mem EXCEPT !.users = job[t].cfg.users, !.listen = job[t].cfg.listen]
    /\ Goto(t, "assign2")
    /\ UNCHANGED <<file, up, boot, from, epoch, running, chk, chks, gui, CC, restart, notes>>

\* Mutant: memory keeps the old configuration.
AssignRestForgotten(t) ==
    /\ job[t].pc = "assign2"
    /\ IF job[t].op = "post" THEN Answer(t, job[t].then) ELSE Goto(t, "checker")
    /\ UNCHANGED <<file, server, CC, restart, notes>>

AssignRest(t) ==
    /\ job[t].pc = "assign2"
    /\ mem' = [job[t].cfg EXCEPT !.users = mem.users, !.listen = mem.listen]
    /\ IF job[t].op = "post" THEN Answer(t, job[t].then) ELSE Goto(t, "checker")
    /\ UNCHANGED <<file, up, boot, from, epoch, running, chk, chks, gui, CC, restart, notes>>

-----------------------------------------------------------------------------
(* Users: handleUsers (POST), handleUserAction                             *)

Named(us, u) == {i \in DOMAIN us : us[i].name = u.name}

\* Failed: 409 for a user that exists, 404 for one that does not.
Changed(op, us, u) ==
    CASE op = "add"    -> IF Named(us, u) = {} THEN OK(Append(us, u)) ELSE Failed
      [] op = "edit"   -> IF Named(us, u) = {} THEN Failed
                          ELSE OK([us EXCEPT ![CHOOSE i \in Named(us, u) :
                                                 \A j \in Named(us, u) : i <= j] = u])
      [] op = "delete" -> OK(Filter(us, {v \in ToSet(us) : v.name # u.name}))

Remembered(op, u) ==
    {v \in accepted : v.name # u.name} \cup (IF op = "delete" THEN {} ELSE {u})

\* The list is read and searched here, and stored by the next step.
UserRequest(t) ==
    \E op \in {"add", "edit", "delete"}, u \in Accounts :
        /\ op = "delete" => \A v \in Accounts : v.name = u.name => u.limit <= v.limit
        /\ LET us == Changed(op, mem.users, u)
           IN  Begin(t, IF us.err THEN Idle
                        ELSE [pc |-> "store", op |-> op, user |-> u, users |-> us.val,
                              read |-> mem.users, then |-> "idle"])
        /\ UNCHANGED <<file, server, CC, restart, clash, fresh, accepted>>

\* An addition or a deletion stores its list over what is there; an edit writes into
\* the array it searched, which is the list's no more if that was replaced or has grown
\* out of it meanwhile.
Stored(j) ==
    IF j.op # "edit" \/ mem.users = j.read THEN {j.users}
    ELSE IF IsPrefix(j.read, mem.users)
         THEN {mem.users, j.users \o SubSeq(mem.users, Len(j.read) + 1, Len(mem.users))}
         ELSE {mem.users}

StoreUsers(t) ==
    /\ job[t].pc = "store"
    /\ \E us \in Stored(job[t]) : mem' = [mem EXCEPT !.users = us]
    /\ Goto(t, "marshal")
    /\ UNCHANGED <<file, up, boot, from, epoch, running, chk, chks, gui, CC, restart, notes>>

\* Config.Save: all of s.cfg as it is now.
Marshal(t) ==
    /\ job[t].pc = "marshal"
    /\ job' = [job EXCEPT ![t] = [pc |-> "truncate", op |-> @.op, user |-> @.user,
                                  cfg |-> mem, then |-> "idle"]]
    /\ UNCHANGED <<file, server, CC, restart, notes>>

\* Mutant: the manager is made from the users before a deletion.
NewUserManagerStale(t) ==
    /\ job[t].pc = "manager"
    /\ gui' = IF job[t].op = "delete" THEN gui ELSE OK(mem.users)
    /\ accepted' = Remembered(job[t].op, job[t].user)
    /\ Answer(t, "idle")
    /\ UNCHANGED <<file, up, boot, mem, from, epoch, running, chk, chks, CC, restart,
                   open, budget, calm, clash, fresh>>

\* Only a deletion goes back to no manager; the others are never empty here
\* unless another request emptied the list.
NewUserManager(t) ==
    /\ job[t].pc = "manager"
    /\ gui' = IF job[t].op = "delete" THEN Users(mem.users) ELSE OK(mem.users)
    /\ accepted' = Remembered(job[t].op, job[t].user)
    /\ Answer(t, "idle")
    /\ UNCHANGED <<file, up, boot, mem, from, epoch, running, chk, chks, CC, restart,
                   open, budget, calm, clash, fresh>>

-----------------------------------------------------------------------------
(* handleReload, Manager.Reload                                            *)

ReloadLoad(t) ==
    /\ LET c == Load(file)
       IN  IF c.err
           THEN Begin(t, Idle) /\ UNCHANGED <<chks, clash>>
           ELSE /\ Begin(t, [pc |-> "stop", op |-> "reload", then |-> "idle",
                             cfg |-> [c.val EXCEPT !.bin = c.val.bin \/ mem.bin]])
                /\ chks' = chks \ {chk.id}
                /\ clash' = (clash \/ restart # "none" \/ \E s \in Tabs : Reloads(s))
    /\ UNCHANGED <<file, up, boot, mem, from, epoch, running, chk, gui, CC, restart,
                   fresh, accepted>>

\* cancel, and Stop of every instance of m.instances
ReloadStop(t) ==
    /\ job[t].pc = "stop"
    /\ running' = running \ {epoch}
    /\ Goto(t, "wait")
    /\ UNCHANGED <<file, up, boot, mem, from, epoch, chk, chks, gui, CC, restart, notes>>

\* m.wg.Wait
ReloadWait(t) ==
    /\ job[t].pc = "wait" /\ running = {}
    /\ Goto(t, "swap")
    /\ UNCHANGED <<file, server, CC, restart, notes>>

ReloadSwap(t) ==
    /\ job[t].pc = "swap"
    /\ from' = job[t].cfg
    /\ epoch' = epoch + 1 /\ running' = running \cup {epoch + 1}
    /\ Goto(t, "assign")
    /\ UNCHANGED <<file, up, boot, mem, chk, chks, gui, CC, restart, notes>>

\* The new checker is not told of packet_split; no users leave the manager as it is.
ReloadFinish(t) ==
    /\ job[t].pc = "checker"
    /\ chk' = [id |-> chk.id + 1, split |-> FALSE]
    /\ chks' = chks \cup {chk.id + 1}
    /\ gui' = IF ~ gui.err /\ mem.users # <<>> THEN OK(mem.users) ELSE gui
    /\ Answer(t, "idle")
    /\ UNCHANGED <<file, up, boot, mem, from, epoch, running, CC, restart, notes>>

-----------------------------------------------------------------------------
(* handleRestart, signals and the start of the program                     *)

\* The answer comes before the goroutine that restarts; one pending restart
\* stands for any number of them.
handleRestart(t) ==
    /\ job[t].pc = "restart"
    /\ restart' = IF restart = "none" THEN "due" ELSE restart
    /\ clash' = (clash \/ \E s \in Tabs : Reloads(s))
    /\ Answer(t, "idle")
    /\ UNCHANGED <<file, server, CC, open, budget, calm, fresh, accepted>>

\* Mutant: Shutdown waits for the supervisors without stopping the instances.
RestartStopWaits ==
    /\ restart = "due"
    /\ restart' = "wait"
    /\ chks' = chks \ {chk.id}
    /\ UNCHANGED <<file, up, boot, mem, from, epoch, running, chk, gui, job, CC, notes>>

RestartStop ==
    /\ restart = "due"
    /\ restart' = "wait"
    /\ chks' = chks \ {chk.id}
    /\ running' = running \ {epoch}
    /\ UNCHANGED <<file, up, boot, mem, from, epoch, chk, gui, job, CC, notes>>

\* syscall.Exec ends every goroutine where it is.
RestartExec ==
    /\ restart = "wait" /\ running = {}
    /\ restart' = "none"
    /\ job' = [t \in Tabs |-> Idle]
    /\ Main
    /\ UNCHANGED <<CC, open, budget, clash>>

\* os.Executable fails: the program goes on without instances or checker.
RestartFails ==
    /\ restart = "wait" /\ running = {} /\ Spend
    /\ restart' = "none" /\ calm' = FALSE
    /\ UNCHANGED <<file, server, job, CC, clash, fresh, accepted>>

\* A signal, or the end of the machine: no request is finished.
Kill ==
    /\ up = "up" /\ Spend
    /\ up' = "killed" /\ running' = {} /\ chks' = {}
    /\ job' = [t \in Tabs |-> Idle] /\ restart' = "none"
    /\ calm' = (calm /\ \A t \in Tabs : job[t].pc # "write")
    /\ UNCHANGED <<file, boot, mem, from, epoch, chk, gui, CC, clash, fresh, accepted>>

\* The program is started again; after a fatal error the file is repaired first.
Start ==
    \/ up = "killed" /\ Main /\ UNCHANGED <<job, CC, restart, open, budget, clash>>
    \/ /\ up = "dead"
       /\ \E s \in Starts : /\ s.requests > 0 /\ Bootable(Json(s.cfg))
                            /\ file' = Json(s.cfg) /\ Booted(Json(s.cfg))
       /\ UNCHANGED <<job, CC, restart, open, budget, clash>>

Handler(t) ==
    \/ Truncate(t) \/ Write(t) \/ AssignSocks(t) \/ AssignRest(t)
    \/ StoreUsers(t) \/ Marshal(t) \/ NewUserManager(t)
    \/ ReloadStop(t) \/ ReloadWait(t) \/ ReloadSwap(t) \/ ReloadFinish(t)
    \/ handleRestart(t)

Dashboard(t) ==
    \/ loadCfg(t) \/ submitInstance(t) \/ deleteInst(t) \/ saveConfig(t)
    \/ fullRestart(t) \/ UserRequest(t) \/ ReloadLoad(t)

AdminNext ==
    \/ \E t \in open : Dashboard(t) \/ Handler(t) \/ SaveFails(t)
    \/ RestartStop \/ RestartExec \/ RestartFails \/ Kill \/ Start

AdminSpec == AdminInit /\ [][AdminNext]_adminVars

\* The scheduler runs every goroutine; requests and faults need not happen.
AdminFairSpec ==
    /\ AdminSpec
    /\ \A t \in Tabs : WF_adminVars(Handler(t))
    /\ WF_adminVars(RestartStop \/ RestartExec)
-----------------------------------------------------------------------------
(* Properties                                                              *)

Settled == up = "up" /\ Alone

\* What is running is a list of instances some accepted configuration expands to.
AdminTypeOK ==
    /\ file.text \in {"json", "empty", "mixed"} /\ up \in {"up", "killed", "dead"}
    /\ running \subseteq 1 .. epoch /\ chk.id \in Nat /\ chks \subseteq 1 .. chk.id
    /\ restart \in {"none", "due", "wait"} /\ budget \in Nat /\ open \subseteq Tabs
    /\ \A t \in Tabs : job[t].pc \in {"idle", "truncate", "write", "assign", "assign2", "store",
          "marshal", "manager", "stop", "wait", "swap", "checker", "restart"}
    /\ ~ Validate(from).err /\ ~ Validate(boot).err

\* The instances that run have pairwise different ports, as many for every entry as
\* it asks for, consecutive from a single port and inside a range (expand.go), and the
\* credentials their mode needs, whatever requests and faults led there.
RunningPorts ==
    LET all == ExpandInstances(from).val
        Of(i) == {k \in DOMAIN all : all[k].entry = i}
    IN  /\ AdminTypeOK
        /\ Cardinality({all[k].port : k \in DOMAIN all}) = Len(all)
        /\ \A i \in DOMAIN from.inst :
              LET e == from.inst[i]
              IN  /\ Cardinality(Of(i)) = Replicas(e)
                  /\ \A k \in Of(i) :
                        /\ all[k].port >= e.port.lo
                        /\ all[k].port <= IF e.port.kind = "range" /\ e.port.lo < e.port.hi
                                          THEN e.port.hi ELSE e.port.lo + Replicas(e) - 1
                        /\ all[k].mode = "ssh" => e.ssh /\ e.sshPort > 0

\* While requests come one at a time and no save fails, whenever none is in progress
\* the file loads to exactly the configuration in memory, the processes are those of
\* the current list of instances and one checker runs (handlers.go).
InSync ==
    calm /\ Settled =>
        /\ Load(file) = OK(mem)
        /\ running = {epoch} /\ chks = {chk.id}

\* A configuration the server accepted never prevents its next start: main ends in
\* log.Fatalf only after requests overlapped, or a save failed or was cut short.
AcceptedConfigBoots == up = "dead" => ~ calm

\* As long as dashboards post the users they were last told of, the users in memory
\* and in the GUI's user manager are the ones the answered requests leave.
UsersKept ==
    calm /\ fresh /\ Settled => ToSet(mem.users) = accepted /\ gui = Users(mem.users)

\* A restart that was answered with "restarting" takes place or fails outright, unless a
\* reload and a restart or another reload overlapped: Shutdown waits for every
\* supervisor (manager.go), and those of a list that was replaced are never stopped.
RestartFinishes == restart # "none" ~> restart = "none" \/ clash
=============================================================================
