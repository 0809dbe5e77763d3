----------------------------- MODULE Supervisor -----------------------------
(***************************************************************************)
(* The operations supervisor: it starts, watches, restarts and stops the   *)
(* services of one machine.                                                *)
(* (packages/operations-supervisor: supervisor.ts, catalog.ts, cli.ts.)    *)
(*                                                                         *)
(* Operations of the user run one after another.  Beside them run the      *)
(* restart timers, the starts they begin, the health monitor and the       *)
(* handlers of closed processes; every await is a step boundary.  The      *)
(* processes are the environment: they bind their port, end when they are  *)
(* told to or not, and may leave descendants that keep the port.           *)
(***************************************************************************)
EXTENDS Naturals

CONSTANTS
    Services,       \* numbers, in SERVICE_ORDER; the least one is infra
    Deps,           \* the dependencies of a service
    Budget,         \* unexpected exits in ten minutes that are forgiven
    MaxOps,         \* bound: operations
    MaxExits,       \* bound: exits and failed starts nobody asked for
    MaxCrashes,     \* bound: crashes of the supervisor
    MaxProcs        \* bound: processes of a service

ASSUME CatalogAssumption ==
    /\ Services \subseteq Nat \ {0}
    /\ \E last \in Services : \A s \in Services : s <= last
    /\ Deps \in [Services -> SUBSET Services]
    /\ \A s \in Services : \A d \in Deps[s] : d < s
    /\ Budget \in Nat /\ MaxOps \in Nat /\ MaxExits \in Nat /\ MaxCrashes \in Nat
    /\ MaxProcs \in Nat

VARIABLES
    rec,        \* the record of each service
    attempt,    \* its startPromise, and who waits for it
    op,         \* the operation in progress
    closing,    \* handlers of closed processes that write the leases
    probe,      \* the process that the health monitor, or its last probe, watches
    lease,      \* the lease file: the process recorded for each service
    up,         \* the supervisor runs
    base,       \* processes up to this one are of an earlier supervisor
    proc,       \* the processes, by generation
    event,      \* exits the supervisor was not told of yet
    told,       \* processes that were sent a signal
    ops, exits, crashes,
    lost,       \* history: processes whose lease was not written, read or verified
    doubted,    \* history: the process whose lease this supervisor could not verify
    crossed     \* history: a stop of the service met an automatic start of it

vars == <<rec, attempt, op, closing, probe, lease, up, base, proc, event, told,
          ops, exits, crashes, lost, doubted, crossed>>
world == <<base, proc, event, told>>
counts == <<ops, exits, crashes>>
-----------------------------------------------------------------------------
Gens == 1..MaxProcs
All == 0
First(S) == CHOOSE x \in S : \A y \in S : x <= y
Last(S) == CHOOSE x \in S : \A y \in S : y <= x
Infra == First(Services)

\* transitiveDependencies: with a service it holds what that one depends on.
Above(s) == {d \in Services : \A S \in SUBSET Services :
                 Deps[s] \subseteq S /\ (\A t \in S : Deps[t] \subseteq S) => d \in S}
\* transitiveDependents
Below(s) == {t \in Services : s \in Above(t)}
Selected(t) == IF t = All THEN Services ELSE {t} \cup Below(t)

Stopped == [state |-> "stopped", desired |-> FALSE, stopping |-> FALSE,
            cmd |-> 0, gen |-> 0, timer |-> 0, fails |-> 0]
NoAttempt == [pc |-> "none", auto |-> FALSE, left |-> {}, on |-> 0, gen |-> 0, by |-> 0]
IdleOp == [pc |-> "idle", stop |-> {}, start |-> {}, seen |-> 0]

\* The state "unverified" is a conflict whose conflictKind is unverified_lease.
InConflict == {"conflict", "unverified"}
Record == [state : {"stopped", "waiting_dependency", "starting", "healthy", "degraded",
                    "restart_wait", "stopping", "failed"} \cup InConflict,
           desired : BOOLEAN, stopping : BOOLEAN, cmd : {0} \cup Gens,
           gen : {0} \cup Gens, timer : {0} \cup Gens, fails : 0..Budget + 1]
Attempt == [pc : {"none", "deps", "await", "ports", "lease", "probe"},
            auto : BOOLEAN, left : SUBSET Services, on : {0} \cup Services,
            gen : {0} \cup Gens, by : {0} \cup Gens]
Operation == [pc : {"idle", "next", "confirm", "kill", "close", "forced", "ports",
                    "lease", "starting"},
              stop : SUBSET Services, start : SUBSET Services, seen : {0} \cup Gens]

TypeOK ==
    /\ rec \in [Services -> Record]
    /\ attempt \in [Services -> Attempt]
    /\ op \in Operation
    /\ closing \in [Services -> SUBSET Gens]
    /\ probe \in [Services -> {0} \cup Gens]
    /\ lease \in [Services -> {0} \cup Gens]
    /\ up \in BOOLEAN
    /\ base \in [Services -> {0} \cup Gens]
    /\ proc \in [Services -> [Gens -> {"none", "up", "serving", "orphan", "gone"}]]
    /\ event \in [Services -> SUBSET Gens]
    /\ told \in [Services -> SUBSET Gens]
    /\ ops \in 0..MaxOps /\ exits \in 0..MaxExits /\ crashes \in 0..MaxCrashes
    /\ lost \in [Services -> SUBSET Gens] /\ doubted \in [Services -> {0} \cup Gens]
    /\ crossed \in [Services -> BOOLEAN]

Init ==
    /\ rec = [s \in Services |-> Stopped]
    /\ attempt = [s \in Services |-> NoAttempt]
    /\ op = IdleOp
    /\ closing = [s \in Services |-> {}]
    /\ probe = [s \in Services |-> 0]
    /\ lease = [s \in Services |-> 0]
    /\ up = TRUE
    /\ base = [s \in Services |-> 0]
    /\ proc = [s \in Services |-> [g \in Gens |-> "none"]]
    /\ event = [s \in Services |-> {}]
    /\ told = [s \in Services |-> {}]
    /\ ops = 0 /\ exits = 0 /\ crashes = 0
    /\ lost = [s \in Services |-> {}] /\ doubted = [s \in Services |-> 0]
    /\ crossed = [s \in Services |-> FALSE]
-----------------------------------------------------------------------------
Alive(s, g) == proc[s][g] \in {"up", "serving"}
PortFree(s) == \A g \in Gens : proc[s][g] \notin {"serving", "orphan"}
\* onceCommandClosed: the close event was delivered.
HasClosed(s, g) == ~Alive(s, g) /\ g \notin event[s]
Current(s, g) == rec[s].cmd = g
Leases == [s \in Services |-> rec[s].cmd]

\* The start of s and those that wait for it, directly or not.
Waiting(s) == {t \in Services : \A S \in SUBSET Services :
    s \in S /\ (\A u \in Services : attempt[u].pc = "await" /\ attempt[u].on \in S => u \in S)
        => t \in S}

StopDone(s) == [op EXCEPT !.pc = "next", !.stop = @ \ {s}, !.seen = 0]
StartDone(s) == [op EXCEPT !.pc = "next", !.start = @ \ {s}]
AwaitedByOp(S) == op.pc = "starting" /\ First(op.start) \in S

\* The start of s has succeeded: who waited for it goes on.
Resolves(s) ==
    /\ attempt' = [t \in Services |->
           IF t = s THEN NoAttempt
           ELSE IF attempt[t].pc = "await" /\ attempt[t].on = s
           THEN [attempt[t] EXCEPT !.pc = "deps", !.on = 0] ELSE attempt[t]]
    /\ op' = IF AwaitedByOp({s}) THEN StartDone(s) ELSE op

\* It has failed, and with it every start that waited for it, the operation, and
\* the restart timer that began it: that one records the failure.
Rejects(s, r) ==
    LET fallen == Waiting(s)
    IN  /\ attempt' = [t \in Services |-> IF t \in fallen THEN NoAttempt ELSE attempt[t]]
        /\ op' = IF AwaitedByOp(fallen) THEN IdleOp ELSE op
        /\ rec' = [t \in Services |->
               IF /\ t \in fallen
                  /\ attempt[t].by # 0 /\ r[t].gen = attempt[t].by
                  /\ r[t].cmd = 0 /\ r[t].state \notin InConflict
               THEN [r[t] EXCEPT !.state = "failed"] ELSE r[t]]

\* startSingle joins the attempt in flight or begins one.
InFlight(s) == attempt[s].pc # "none"
Fresh(s, auto, by) == [NoAttempt EXCEPT !.pc = "deps", !.left = Deps[s], !.auto = auto, !.by = by]
RunsWell(s) == ~InFlight(s) /\ rec[s].cmd # 0 /\ rec[s].state \in {"healthy", "degraded"}
Refuses(s) == /\ ~InFlight(s)
              /\ \/ rec[s].cmd # 0 /\ rec[s].state \notin {"healthy", "degraded"}
                 \/ rec[s].cmd = 0 /\ rec[s].state = "unverified"
Begins(s) == ~InFlight(s) /\ rec[s].cmd = 0 /\ rec[s].state # "unverified"
-----------------------------------------------------------------------------
\* execute: the queue of operations, one at a time.
Asked(o) ==
    /\ up
    /\ op.pc = "idle"
    /\ ops < MaxOps
    /\ ops' = ops + 1
    /\ op' = [o EXCEPT !.pc = "next"]
    /\ UNCHANGED <<attempt, closing, probe, lease, up, world, exits, crashes, lost, doubted>>

StartTarget(t) ==
    /\ Asked([IdleOp EXCEPT !.start = IF t = All THEN Services ELSE {t} \cup Above(t)])
    /\ UNCHANGED rec

StopTarget(t, keepInfra) ==
    LET chosen == Selected(t) \ (IF keepInfra THEN {Infra} ELSE {})
    IN  /\ Asked([IdleOp EXCEPT !.stop = chosen])
        /\ rec' = [s \in Services |-> [rec[s] EXCEPT !.desired = @ /\ s \notin chosen]]

RestartTarget(t) ==
    LET running == {s \in Selected(t) : rec[s].state \notin {"stopped"} \cup InConflict}
    IN  /\ Asked([IdleOp EXCEPT !.stop = running,
                                !.start = IF t = All THEN Services ELSE {t} \cup running])
        /\ UNCHANGED rec

Done ==
    /\ op.pc = "next" /\ op.stop = {} /\ op.start = {}
    /\ op' = IdleOp
    /\ UNCHANGED <<rec, attempt, closing, probe, lease, up, world, counts, lost, doubted>>

\* stopSingle, for the last service of the order that is to be stopped.
StopSingle ==
    /\ op.pc = "next" /\ op.stop # {}
    /\ LET s == Last(op.stop)
           r == [rec[s] EXCEPT !.desired = FALSE, !.timer = 0]
       IN  \/ /\ r.cmd # 0
              /\ rec' = [rec EXCEPT ![s] = [r EXCEPT !.stopping = TRUE, !.state = "stopping"]]
              /\ op' = [op EXCEPT !.pc = "kill", !.seen = r.cmd]
           \/ /\ r.cmd = 0
              /\ rec' = [rec EXCEPT ![s] = r]
              /\ op' = IF r.state \in {"stopped"} \cup InConflict THEN StopDone(s)
                       ELSE [op EXCEPT !.pc = "confirm"]
    /\ UNCHANGED <<attempt, closing, probe, lease, up, world, counts, lost, doubted>>

\* After the shutdown hook: the process tree is told to end.
Kill ==
    /\ op.pc = "kill"
    /\ LET s == Last(op.stop)
       IN  told' = IF Alive(s, op.seen) THEN [told EXCEPT ![s] = @ \cup {op.seen}] ELSE told
    /\ op' = [op EXCEPT !.pc = "close"]
    /\ UNCHANGED <<rec, attempt, closing, probe, lease, up, base, proc, event, counts, lost, doubted>>

Closed ==
    /\ op.pc \in {"close", "forced"}
    /\ HasClosed(Last(op.stop), op.seen)
    /\ op' = [op EXCEPT !.pc = "ports"]
    /\ UNCHANGED <<rec, attempt, closing, probe, lease, up, world, counts, lost, doubted>>

\* A slip: the process is taken for closed once it was killed.
CloseTimeoutHopeful ==
    /\ op.pc \in {"close", "forced"}
    /\ ~HasClosed(Last(op.stop), op.seen)
    /\ op' = [op EXCEPT !.pc = IF op.pc = "close" THEN "forced" ELSE "ports"]
    /\ UNCHANGED <<rec, attempt, closing, probe, lease, up, world, counts, lost, doubted>>

\* Ten seconds for SIGTERM, five more for SIGKILL.
CloseTimeout ==
    /\ op.pc \in {"close", "forced"}
    /\ ~HasClosed(Last(op.stop), op.seen)
    /\ IF op.pc = "close"
       THEN op' = [op EXCEPT !.pc = "forced"] /\ UNCHANGED rec
       ELSE /\ op' = IdleOp
            /\ rec' = [rec EXCEPT ![Last(op.stop)] = [@ EXCEPT !.state = "failed", !.stopping = FALSE]]
    /\ UNCHANGED <<attempt, closing, probe, lease, up, world, counts, lost, doubted>>

\* waitForPortsReleased, without and with a process that was stopped.
Released ==
    /\ op.pc \in {"confirm", "ports"}
    /\ LET s == Last(op.stop)
       IN  /\ PortFree(s)
           /\ \/ /\ op.pc = "confirm"
                 /\ rec' = [rec EXCEPT ![s].state = IF @ \in InConflict THEN @ ELSE "stopped"]
                 /\ op' = StopDone(s)
              \/ /\ op.pc = "ports"
                 /\ rec' = [rec EXCEPT ![s] = [@ EXCEPT !.cmd = 0, !.state = "stopped", !.stopping = FALSE]]
                 /\ op' = [op EXCEPT !.pc = "lease"]
    /\ UNCHANGED <<attempt, closing, probe, lease, up, world, counts, lost, doubted>>

StillHeld ==
    /\ op.pc \in {"confirm", "ports"}
    /\ LET s == Last(op.stop)
       IN  /\ ~PortFree(s)
           /\ rec' = [rec EXCEPT ![s] = [@ EXCEPT !.state = "conflict", !.stopping = FALSE]]
    /\ op' = IdleOp
    /\ UNCHANGED <<attempt, closing, probe, lease, up, world, counts, lost, doubted>>

LeaseStop ==
    /\ op.pc = "lease"
    /\ lease' = Leases
    /\ op' = StopDone(Last(op.stop))
    /\ UNCHANGED <<rec, attempt, closing, probe, up, world, counts, lost, doubted>>

\* startTarget awaits one start after another.
StartNext ==
    /\ op.pc = "next" /\ op.stop = {} /\ op.start # {}
    /\ LET s == First(op.start)
       IN  \/ RunsWell(s) /\ op' = StartDone(s) /\ UNCHANGED <<rec, attempt>>
           \/ Refuses(s) /\ op' = IdleOp /\ UNCHANGED <<rec, attempt>>
           \/ /\ InFlight(s)
              /\ op' = [op EXCEPT !.pc = "starting"]
              /\ UNCHANGED <<rec, attempt>>
           \/ /\ Begins(s)
              /\ op' = [op EXCEPT !.pc = "starting"]
              /\ rec' = [rec EXCEPT ![s].timer = 0]
              /\ attempt' = [attempt EXCEPT ![s] = Fresh(s, FALSE, 0)]
    /\ UNCHANGED <<closing, probe, lease, up, world, counts, lost, doubted>>
-----------------------------------------------------------------------------
\* startSingleAttempt

Lacking(s) == {d \in attempt[s].left : rec[d].state # "healthy"}

DepsHealthy(s) ==
    /\ attempt[s].pc = "deps"
    /\ Lacking(s) = {}
    /\ attempt' = [attempt EXCEPT ![s] = [@ EXCEPT !.pc = "ports", !.left = {}]]
    /\ UNCHANGED <<rec, op, closing, probe, lease, up, world, counts, lost, doubted>>

\* A dependency that is not healthy is started too.
NeedDep(s) ==
    /\ attempt[s].pc = "deps"
    /\ Lacking(s) # {}
    /\ LET d == First(Lacking(s))
           later == {e \in attempt[s].left : e > d}
           r == [rec EXCEPT ![s].state = "waiting_dependency"]
           waiting == [attempt[s] EXCEPT !.pc = "await", !.on = d, !.left = later]
       IN  \/ /\ Refuses(d)
              /\ Rejects(s, r)
           \/ /\ RunsWell(d)
              /\ rec' = r
              /\ attempt' = [attempt EXCEPT ![s].left = later]
              /\ UNCHANGED op
           \/ /\ InFlight(d)
              /\ rec' = r
              /\ attempt' = [attempt EXCEPT ![s] = waiting]
              /\ UNCHANGED op
           \/ /\ Begins(d)
              /\ rec' = [r EXCEPT ![d].timer = 0]
              /\ attempt' = [attempt EXCEPT ![s] = waiting, ![d] = Fresh(d, attempt[s].auto, 0)]
              /\ UNCHANGED op
    /\ UNCHANGED <<closing, probe, lease, up, world, counts, lost, doubted>>

\* The port is looked at and the process created without an await between.
Spawn(s) ==
    /\ attempt[s].pc = "ports"
    /\ PortFree(s)
    /\ rec[s].gen < MaxProcs
    /\ LET g == rec[s].gen + 1
       IN  /\ rec' = [rec EXCEPT ![s] = [@ EXCEPT !.desired = TRUE, !.stopping = FALSE,
                                            !.state = "starting", !.gen = g, !.cmd = g]]
           /\ attempt' = [attempt EXCEPT ![s] = [@ EXCEPT !.pc = "lease", !.gen = g]]
           /\ proc' = [proc EXCEPT ![s][g] = "up"]
    /\ UNCHANGED <<op, closing, probe, lease, up, base, event, told, counts, lost, doubted>>

PortTaken(s) ==
    /\ attempt[s].pc = "ports"
    /\ ~PortFree(s)
    /\ Rejects(s, [rec EXCEPT ![s].state = "conflict"])
    /\ UNCHANGED <<closing, probe, lease, up, world, counts, lost, doubted>>

\* A slip: the leases are not written once the process is there.
LeaseStartUnwritten(s) ==
    /\ attempt[s].pc = "lease"
    /\ Current(s, attempt[s].gen)
    /\ attempt' = [attempt EXCEPT ![s].pc = "probe"]
    /\ UNCHANGED <<rec, op, closing, probe, lease, up, world, counts, lost, doubted>>

LeaseStart(s) ==
    /\ attempt[s].pc = "lease"
    /\ Current(s, attempt[s].gen)
    /\ lease' = Leases
    /\ attempt' = [attempt EXCEPT ![s].pc = "probe"]
    /\ UNCHANGED <<rec, op, closing, probe, up, world, counts, lost, doubted>>

\* A slip: a start whose process has gone keeps on probing.
SupersededUnseen(s) ==
    /\ attempt[s].pc = "lease"
    /\ ~Current(s, attempt[s].gen)
    /\ attempt' = [attempt EXCEPT ![s].pc = "probe"]
    /\ UNCHANGED <<rec, op, closing, probe, lease, up, world, counts, lost, doubted>>

\* assertCurrentCommand
Superseded(s) ==
    /\ attempt[s].pc \in {"lease", "probe"}
    /\ ~Current(s, attempt[s].gen)
    /\ Rejects(s, rec)
    /\ UNCHANGED <<closing, probe, lease, up, world, counts, lost, doubted>>

\* waitForHealthy: the probe is answered by whatever holds the port.
Healthy(s) ==
    /\ attempt[s].pc = "probe"
    /\ Current(s, attempt[s].gen)
    /\ ~PortFree(s)
    /\ rec' = [rec EXCEPT ![s].state = "healthy"]
    /\ probe' = [probe EXCEPT ![s] = attempt[s].gen]
    /\ Resolves(s)
    /\ UNCHANGED <<closing, lease, up, world, counts, lost, doubted>>

StartTimeout(s) ==
    /\ attempt[s].pc = "probe"
    /\ Current(s, attempt[s].gen)
    /\ exits < MaxExits
    /\ exits' = exits + 1
    /\ told' = [told EXCEPT ![s] = IF Alive(s, attempt[s].gen) THEN @ \cup {attempt[s].gen} ELSE @]
    /\ Rejects(s, rec)
    /\ UNCHANGED <<closing, probe, lease, up, base, proc, event, ops, crashes, lost, doubted>>
-----------------------------------------------------------------------------
\* monitorHealth: a probe may come back after its process has gone.
Monitor(s) ==
    /\ probe[s] # 0
    /\ IF Current(s, probe[s]) /\ ~rec[s].stopping
       THEN \E state \in {"healthy", "degraded"} : rec' = [rec EXCEPT ![s].state = state]
       ELSE UNCHANGED rec
    /\ UNCHANGED <<attempt, op, closing, probe, lease, up, world, counts, lost, doubted>>

\* Ten failed probes in a row while the dependencies are healthy.
GiveUpOn(s) ==
    /\ probe[s] # 0
    /\ Current(s, probe[s]) /\ ~rec[s].stopping
    /\ \A d \in Deps[s] : rec[d].state = "healthy"
    /\ Alive(s, probe[s])
    /\ exits < MaxExits
    /\ exits' = exits + 1
    /\ told' = [told EXCEPT ![s] = @ \cup {probe[s]}]
    /\ rec' = [rec EXCEPT ![s].state = "degraded"]
    /\ UNCHANGED <<attempt, op, closing, probe, lease, up, base, proc, event, ops, crashes, lost, doubted>>

\* handleClose: the handle is dropped at once if it is still this process's.
HandleClose(s) ==
    \E g \in event[s] :
        /\ event' = [event EXCEPT ![s] = @ \ {g}]
        /\ IF Current(s, g)
           THEN /\ rec' = [rec EXCEPT ![s].cmd = 0]
                /\ closing' = [closing EXCEPT ![s] = @ \cup {g}]
           ELSE UNCHANGED <<rec, closing>>
        /\ UNCHANGED <<attempt, op, probe, lease, up, base, proc, told, counts, lost, doubted>>

\* scheduleRestart, within the budget.
ScheduleRestart(r, g) ==
    IF r.fails >= Budget
    THEN [r EXCEPT !.fails = Budget + 1, !.desired = FALSE, !.state = "failed"]
    ELSE [r EXCEPT !.fails = @ + 1, !.state = "restart_wait", !.timer = g]

\* A slip: the handler does not look whether a successor was started meanwhile.
AfterCloseBlind(s) ==
    \E g \in closing[s] :
        /\ closing' = [closing EXCEPT ![s] = @ \ {g}]
        /\ lease' = Leases
        /\ LET r == rec[s]
           IN  rec' = [rec EXCEPT ![s] =
                   IF r.stopping \/ ~r.desired THEN [r EXCEPT !.state = "stopped", !.stopping = FALSE]
                   ELSE ScheduleRestart(r, g)]
        /\ UNCHANGED <<attempt, op, probe, up, world, counts, lost, doubted>>

\* The leases are written; was it asked for, or is there a successor already?
AfterClose(s) ==
    \E g \in closing[s] :
        /\ closing' = [closing EXCEPT ![s] = @ \ {g}]
        /\ lease' = Leases
        /\ LET r == rec[s]
           IN  rec' = [rec EXCEPT ![s] =
                   IF r.gen # g \/ r.cmd # 0 THEN r
                   ELSE IF r.stopping \/ ~r.desired THEN [r EXCEPT !.state = "stopped", !.stopping = FALSE]
                   ELSE ScheduleRestart(r, g)]
        /\ UNCHANGED <<attempt, op, probe, up, world, counts, lost, doubted>>

Timer(s) ==
    /\ rec[s].timer # 0
    /\ LET g == rec[s].timer
           r == rec[s]
       IN  /\ rec' = [rec EXCEPT ![s].timer = 0]
           /\ attempt' =
                IF r.gen # g \/ r.cmd # 0 \/ ~r.desired \/ r.stopping \/ r.state = "unverified"
                THEN attempt
                ELSE [attempt EXCEPT ![s] = IF InFlight(s) THEN [@ EXCEPT !.by = g] ELSE Fresh(s, TRUE, g)]
    /\ UNCHANGED <<op, closing, probe, lease, up, world, counts, lost, doubted>>

\* Ten minutes pass since a failure, or ten healthy ones.
Forget(s) ==
    /\ rec[s].fails > 0
    /\ \E n \in 0..rec[s].fails - 1 : rec' = [rec EXCEPT ![s].fails = n]
    /\ UNCHANGED <<attempt, op, closing, probe, lease, up, world, counts, lost, doubted>>
-----------------------------------------------------------------------------
\* The processes.
Bind(s, g) ==
    /\ proc[s][g] = "up"
    /\ PortFree(s)
    /\ proc' = [proc EXCEPT ![s][g] = "serving"]
    /\ UNCHANGED <<rec, attempt, op, closing, probe, lease, up, base, event, told, counts, lost, doubted>>

Exit(s, g) ==
    /\ Alive(s, g)
    /\ g \in told[s] \/ exits < MaxExits
    /\ exits' = IF g \in told[s] THEN exits ELSE exits + 1
    /\ \E left \in {"gone"} \cup (IF proc[s][g] = "serving" THEN {"orphan"} ELSE {}) :
           proc' = [proc EXCEPT ![s][g] = left]
    /\ event' = IF up /\ g > base[s] THEN [event EXCEPT ![s] = @ \cup {g}] ELSE event
    /\ UNCHANGED <<rec, attempt, op, closing, probe, lease, up, base, told, ops, crashes, lost, doubted>>

OrphanEnds(s, g) ==
    /\ proc[s][g] = "orphan"
    /\ proc' = [proc EXCEPT ![s][g] = "gone"]
    /\ UNCHANGED <<rec, attempt, op, closing, probe, lease, up, base, event, told, counts, lost, doubted>>

\* The supervisor dies alone; what it started goes on.
Crash ==
    /\ up
    /\ crashes < MaxCrashes
    /\ crashes' = crashes + 1
    /\ up' = FALSE
    /\ rec' = [s \in Services |-> [Stopped EXCEPT !.gen = rec[s].gen]]
    /\ base' = [s \in Services |-> rec[s].gen]
    /\ attempt' = [s \in Services |-> NoAttempt]
    /\ op' = IdleOp
    /\ closing' = [s \in Services |-> {}]
    /\ probe' = [s \in Services |-> 0]
    /\ event' = [s \in Services |-> {}]
    /\ lost' = [s \in Services |-> lost[s] \cup
           {g \in Gens : g = doubted[s] \/ (attempt[s].pc = "lease" /\ g = attempt[s].gen)}]
    /\ doubted' = [s \in Services |-> 0]
    /\ UNCHANGED <<lease, proc, told, ops, exits>>

\* recoverLeases, which cannot read the lease file or the process table: it warns and
\* leaves the file as it is, until the next write.
RecoverNothing ==
    /\ ~up
    /\ up' = TRUE
    /\ lost' = [s \in Services |-> lost[s] \cup {g \in Gens : g = lease[s] /\ Alive(s, g)}]
    /\ UNCHANGED <<rec, attempt, op, closing, probe, lease, world, counts, doubted>>

\* recoverLeases: what the file names and still runs is told to end, but for the leases
\* that do not match what runs under their PID: those services are in conflict.
RecoverLeases ==
    /\ ~up
    /\ up' = TRUE
    /\ \E unsure \in SUBSET {s \in Services : lease[s] # 0} :
          /\ told' = [s \in Services |-> IF s \in unsure THEN told[s]
                 ELSE told[s] \cup {g \in Gens : g = lease[s] /\ Alive(s, g)}]
          /\ rec' = [s \in Services |-> IF s \in unsure THEN [rec[s] EXCEPT !.state = "unverified"]
                                                     ELSE rec[s]]
          /\ doubted' = [s \in Services |-> IF s \in unsure THEN lease[s] ELSE 0]
    /\ lease' = [s \in Services |-> 0]
    /\ UNCHANGED <<attempt, op, closing, probe, base, proc, event, counts, lost>>
-----------------------------------------------------------------------------
Operates == \/ StopSingle \/ Kill \/ Closed \/ CloseTimeout \/ Released \/ StillHeld
            \/ LeaseStop \/ StartNext \/ Done
Starts(s) == \/ DepsHealthy(s) \/ NeedDep(s) \/ Spawn(s) \/ PortTaken(s)
             \/ LeaseStart(s) \/ Superseded(s) \/ Healthy(s)
Handles(s) == HandleClose(s) \/ AfterClose(s) \/ Timer(s)

Step ==
    \/ \E t \in Services \cup {All} : \/ StartTarget(t) \/ RestartTarget(t)
                                      \/ StopTarget(t, FALSE)
    \/ StopTarget(All, TRUE)
    \/ Operates
    \/ \E s \in Services : \/ Starts(s) \/ StartTimeout(s) \/ Handles(s)
                           \/ Monitor(s) \/ GiveUpOn(s) \/ Forget(s)
                           \/ \E g \in Gens : Bind(s, g) \/ Exit(s, g) \/ OrphanEnds(s, g)
    \/ Crash \/ RecoverLeases \/ RecoverNothing

\* An operation stops s while a start of it has not created its process yet.
Crossing(s) ==
    /\ op.pc \notin {"idle", "starting"} /\ op.stop # {} /\ s = Last(op.stop)
    /\ attempt[s].pc \in {"deps", "await", "ports"}

Next == Step /\ crossed' = [s \in Services |-> crossed[s] \/ Crossing(s)']

Spec == Init /\ [][Next]_vars

\* Timers fire, promises settle and a live process binds its port in time.
FairSpec ==
    /\ Spec
    /\ WF_vars(Operates /\ Next) /\ WF_vars((RecoverLeases \/ RecoverNothing) /\ Next)
    /\ \A s \in Services : /\ WF_vars(Starts(s) /\ Next) /\ WF_vars(Handles(s) /\ Next)
                           /\ \A g \in Gens : WF_vars(Bind(s, g) /\ Next)
-----------------------------------------------------------------------------
\* What a service is said to be agrees with the handle of its process: stopped or
\* waiting to be restarted means none, starting or degraded means one, or that the
\* handler of its end is at work.
StateTellsTruth(s) ==
    /\ rec[s].state \in {"stopped", "restart_wait", "waiting_dependency"} /\ ~crossed[s] =>
           rec[s].cmd = 0
    /\ rec[s].state \in {"starting", "healthy", "degraded"} =>
           rec[s].cmd # 0 \/ rec[s].gen \in closing[s]

\* The handle is that of the newest process, none of the supervisor before this
\* one; a start has it only from the creation of its process on.
HandleIsNewest(s) ==
    /\ rec[s].cmd \in {0, rec[s].gen}
    /\ base[s] <= rec[s].gen
    /\ rec[s].cmd # 0 => base[s] < rec[s].cmd
    /\ attempt[s].pc \in {"deps", "await", "ports"} => rec[s].cmd = 0
    /\ attempt[s].pc \in {"lease", "probe"} => attempt[s].gen # 0
    /\ \A g \in Gens : g > rec[s].gen => proc[s][g] = "none" /\ g \notin event[s]
    /\ \A g \in event[s] : ~Alive(s, g)

\* A process of this supervisor is alive only with the handle, one of an earlier
\* supervisor only if it was told to end, or if its lease failed; and the lease file names
\* it in time, so that a supervisor which dies after that leaves nothing unknown.
EveryProcessKnown(s) ==
    ~crossed[s] => \A g \in Gens : Alive(s, g) =>
        /\ g > base[s] => Current(s, g)
        /\ up /\ g <= base[s] => g \in told[s] \cup lost[s] \/ g = doubted[s]
        /\ \/ g \in told[s] \cup lost[s] \/ g \in {doubted[s], lease[s]}
           \/ attempt[s].pc = "lease" /\ g = attempt[s].gen
LeaseIsWritten(s) ==
    attempt[s].pc = "probe" /\ Current(s, attempt[s].gen) => lease[s] = attempt[s].gen

\* A service whose lease could not be verified is in conflict, and not started, for as
\* long as the supervisor lives.
DoubtIsShown(s) ==
    /\ doubted[s] # 0 => rec[s].state = "unverified"
    /\ rec[s].state = "unverified" => up /\ rec[s].cmd = 0 /\ attempt[s].pc = "none" /\ closing[s] = {}

\* Nothing is under way while the supervisor is dead.
DeadIsQuiet(s) ==
    ~up => /\ op.pc = "idle"
           /\ rec[s].cmd = 0 /\ rec[s].timer = 0 /\ base[s] = rec[s].gen
           /\ attempt[s].pc = "none" /\ probe[s] = 0 /\ closing[s] = {}

\* What a stop has seen of its process is so until it reports.
StopKnows ==
    /\ op.pc = "idle" => op = IdleOp
    /\ op.pc = "starting" => op.stop = {} /\ op.start # {}
    /\ op.pc \in {"confirm", "kill", "close", "forced", "ports", "lease"} =>
           /\ op.stop # {}
           /\ LET s == Last(op.stop)
              IN  /\ op.pc # "lease" => rec[s].state # "unverified"
                  /\ op.pc \in {"confirm", "lease"} /\ ~crossed[s] => rec[s].cmd = 0
                  /\ op.pc \in {"kill", "close", "forced", "ports"} =>
                         /\ op.seen \in 1..rec[s].gen
                         /\ ~crossed[s] => rec[s].cmd \in {0, op.seen}
                  /\ op.pc = "ports" => ~Alive(s, op.seen)

ServiceInv(s) ==
    /\ Crossing(s) => crossed[s]
    /\ StateTellsTruth(s) /\ HandleIsNewest(s) /\ DeadIsQuiet(s)
    /\ EveryProcessKnown(s) /\ LeaseIsWritten(s) /\ DoubtIsShown(s)

SupervisorInv == TypeOK /\ StopKnows /\ \A s \in Services : ServiceInv(s)

\* No process runs unwatched: it is the one the record holds, or it was told to end, or
\* its service is shown in conflict because of it - also after crashes of the supervisor.
\* What is lost was created by a supervisor that died before it had written the lease, or
\* met a recovery that could not read it, or was in such a conflict when that one died.
NoStrayProcess ==
    up => \A s \in Services : ~crossed[s] => \A g \in Gens : Alive(s, g) =>
        \/ Current(s, g)
        \/ g \in told[s]
        \/ g = doubted[s] /\ rec[s].state = "unverified"
        \/ g <= base[s] /\ g \in lost[s]

\* More than the code does: a process whose supervisor died before it had written the
\* lease, or whose lease could not be read, is told to end as well.
NothingIsLost ==
    up => \A s \in Services : ~crossed[s] => \A g \in Gens :
              Alive(s, g) => Current(s, g) \/ g \in told[s] \/ g = doubted[s]

\* The step in which a stop reports s as stopped.
ReportsStopped(s) ==
    s \in op.stop /\ op'.pc = "next" /\ s \notin op'.stop /\ rec'[s].state = "stopped"

\* A stop reports no service whose process still runs, however it has met an exit,
\* a close handler that is writing, a failed start or a restart timer.
StopEndsProcess ==
    [][\A s \in Services : ReportsStopped(s) /\ ~crossed[s] =>
           \A g \in Gens : g > base[s] => ~Alive(s, g)]_vars

\* supervisor.ts:719 says that a stop succeeds only when the fixed ports of the
\* service are free, lest an orphan be reported as stopped.
StopIsTrue == [][\A s \in Services : ReportsStopped(s) /\ ~crossed[s] => PortFree(s)]_vars

\* Every operation ends, whatever processes, timers and other starts do meanwhile:
\* one that hangs would hold the queue for good.
OperationSettles == op.pc # "idle" ~> op.pc = "idle"

\* supervisor.ts:601 says that automatic retries have ended when the budget is used
\* up, and a stop says that the service is stopped; so only a service that is wanted
\* is started automatically.
AutomaticStartIsWanted ==
    [][\A s \in Services : rec'[s].gen # rec[s].gen /\ attempt[s].auto => rec[s].desired]_vars
=============================================================================
