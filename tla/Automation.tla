----------------------------- MODULE Automation -----------------------------
(***************************************************************************)
(* One automation run: a graph of nodes executed by a job of the pg-boss   *)
(* queue, from the record that startAutomation creates to its end.         *)
(* (automations/scheduledTaskService.ts, automationRunner.ts,              *)
(* jobQueueService.ts, backgroundTaskRegistry.ts and the repository's      *)
(* conditional update.)                                                    *)
(*                                                                         *)
(* The record and the queue are in the database; the executors, the        *)
(* registry of background tasks and the requests of the users' devices are *)
(* in the memory of one server process, which may crash.  Every await of   *)
(* the code is a step boundary here, so what a process read before it is   *)
(* kept in its "seen" field and may be stale when it is used.              *)
(***************************************************************************)
EXTENDS Naturals, FiniteSets

CONSTANTS
    Nodes,              \* node numbers, in topological order
    Kind,               \* "plain", "branch", "approval", "tool" or "agent"
    Guarded,            \* the tools that need an approval
    Edges,              \* [src, port, dst]
    Workers,            \* executions of a job that may overlap in the process
    Devices,            \* users' clients that cancel and answer approvals
    Boot,               \* the reconciliation at start, which dispatches too
    MaxRequests,        \* bound: cancellations and answers asked for
    MaxJobs,            \* bound: queue jobs sent for the run
    MaxCrashes,         \* bound: crashes of the process
    MaxOverruns,        \* bound: jobs that expire while their handler runs on
    MaxFaults           \* bound: crashes and such overruns together

Askers == Guarded \cup {n \in Nodes : Kind[n] = "approval"}
Ports == {e.port : e \in Edges} \cup {"default", "error", "true", "false", "approved", "rejected"}

ASSUME GraphAssumption ==
    /\ Nodes \subseteq Nat \ {0}
    /\ Kind \in [Nodes -> {"plain", "branch", "approval", "tool", "agent"}]
    /\ Guarded \subseteq {n \in Nodes : Kind[n] = "tool"}
    /\ \A e \in Edges : e.src \in Nodes /\ e.dst \in Nodes /\ e.src < e.dst
    /\ Boot \notin Devices
    /\ MaxRequests \in Nat
    /\ MaxJobs \in Nat \ {0}
    /\ MaxCrashes \in Nat
    /\ MaxOverruns \in Nat
    /\ MaxFaults \in Nat

VARIABLES
    row,        \* the automation run record, with its execution state
    orch,       \* status of the orchestration run the record points to
    job,        \* pg-boss: state and retries left of each queue job
    sent,       \* how many queue job ids were drawn
    registry,   \* the run's entry in the background task registry
    worker,     \* the handlers of delivered jobs
    client,     \* the requests in progress, and the reconciliation at start
    asked,      \* how many cancellations and answers were asked for
    up,         \* the process is running
    crashes,
    overruns,   \* how many jobs expired while their handler ran on
    effects,    \* history: how often the side effect of a node was started
    decisions,  \* history: the decisions that were accepted, per asking node
    undone      \* history: the nodes whose record a stale write changed

vars == <<row, orch, job, sent, registry, worker, client, asked, up, crashes,
          overruns, effects, decisions, undone>>
-----------------------------------------------------------------------------
NodeStatus == {"pending", "running", "waiting", "completed", "failed",
               "skipped", "cancelled"}
Settled == {"completed", "skipped", "failed", "cancelled"}
RowStatus == {"none", "queued", "running", "waiting_approval", "completed",
              "failed", "cancelled"}
OrchEnded == {"completed", "failed", "cancelled"}
Errors == {"none", "busy", "denied", "interrupted", "aborted", "timeout",
           "stale", "stuck", "node", "dispatch", "rejected"}
Clients == Devices \cup {Boot}
JobIds == 1..MaxJobs

Row == [st : RowStatus, node : [Nodes -> NodeStatus],
        ports : [Nodes -> SUBSET Ports], ask : Nodes \cup {0},
        answer : {"none", "pending", "approved", "rejected"},
        granted : SUBSET Nodes, job : JobIds \cup {0}, err : Errors]

NoRow == [st |-> "none", node |-> [n \in Nodes |-> "pending"],
          ports |-> [n \in Nodes |-> {}], ask |-> 0, answer |-> "none",
          granted |-> {}, job |-> 0, err |-> "none"]

Job == [st : {"none", "created", "active", "retry", "completed", "cancelled", "failed"},
        tries : 0..2]

IdleWorker == [pc |-> "idle", job |-> 0, live |-> FALSE, seen |-> NoRow,
               n |-> 0, out |-> NoRow, err |-> "none"]
IdleClient == [pc |-> "idle", seen |-> NoRow, answer |-> "none"]

WorkerPcs == {"idle", "load", "track", "interrupt", "orch", "enter", "look",
              "claim", "act", "effect", "save", "bury", "pause", "drop",
              "close", "complete", "fail", "failorch", "failrow"}
ClientPcs == {"idle", "list", "send", "unsent", "giveup", "unqueue", "quit",
              "cancelrow", "abort", "decide"}

Handler == [pc : WorkerPcs, job : JobIds \cup {0}, live : BOOLEAN, seen : Row,
            n : Nodes \cup {0}, out : Row, err : Errors]
Request == [pc : ClientPcs, seen : Row, answer : {"none", "approved", "rejected"}]

TypeOK ==
    /\ row \in Row
    /\ orch \in {"none", "running", "waiting", "interrupted"} \cup OrchEnded
    /\ job \in [JobIds -> Job]
    /\ sent \in 0..MaxJobs
    /\ registry \in {"none", "running", "aborted", "done"}
    /\ worker \in [Workers -> Handler]
    /\ client \in [Clients -> Request]
    /\ asked \in 0..MaxRequests
    /\ up \in BOOLEAN
    /\ crashes \in 0..MaxCrashes
    /\ overruns \in 0..MaxOverruns
    /\ effects \in [Nodes -> 0..2]
    /\ decisions \in [Nodes -> SUBSET {"approved", "rejected"}]
    /\ undone \in SUBSET Nodes

Init ==
    /\ row = NoRow
    /\ orch = "none"
    /\ job = [j \in JobIds |-> [st |-> "none", tries |-> 2]]
    /\ sent = 0
    /\ registry = "none"
    /\ worker = [w \in Workers |-> IdleWorker]
    /\ client = [c \in Clients |-> IdleClient]
    /\ asked = 0
    /\ up = TRUE
    /\ crashes = 0
    /\ overruns = 0
    /\ effects = [n \in Nodes |-> 0]
    /\ decisions = [n \in Nodes |-> {}]
    /\ undone = {}
-----------------------------------------------------------------------------
\* The record is known to point to an orchestration run once it has run.
Known(r) == r.st # "queued" \/ r.job > 1

\* updateAutomationRun: the write happens only if the status is the expected one.
Expecting(st) == row.st = st

\* What a write of the record r, read earlier, puts back or forgets.
Stale(r) == {n \in Nodes : \/ r.node[n] # row.node[n]
                          \/ ~(n \in r.granted <=> n \in row.granted)}

OutPorts(n) == {e.port : e \in {f \in Edges : f.src = n}}
SuccessPorts(n) == LET taken == OutPorts(n) \cap {"default", "success"}
                   IN  IF taken = {} THEN {"default"} ELSE taken

\* A condition takes one of its branches, another node the default port.
Choices(n) == IF Kind[n] = "branch" THEN {"true", "false"} ELSE {"default"}

\* findNextNode: the first pending node whose sources have all settled.
Incoming(n) == {e \in Edges : e.dst = n}
Ready(r, n) == /\ r.node[n] = "pending"
               /\ \A e \in Incoming(n) : r.node[e.src] \in Settled
Active(r, n) == \/ Incoming(n) = {}
                \/ \E e \in Incoming(n) : e.port \in r.ports[e.src]
IsNext(r, n) == Ready(r, n) /\ \A m \in Nodes : Ready(r, m) => n <= m

\* completed() and the catch block of executeNode, on the execution state.
NodeDone(r, n, taken) ==
    [r EXCEPT !.node[n] = "completed", !.ports[n] = taken,
              !.ask = IF @ = n THEN 0 ELSE @,
              !.answer = IF r.ask = n THEN "none" ELSE @]
NodeFailed(r, n) ==
    [r EXCEPT !.node[n] = "failed", !.ports[n] = OutPorts(n) \cap {"error"}]
NodeAsks(r, n) ==
    [r EXCEPT !.node[n] = "waiting", !.ask = n, !.answer = "pending"]

\* pg-boss: a delivery that failed or expired is retried twice at most.
Failed(j) == IF job[j].tries > 0 THEN [st |-> "retry", tries |-> job[j].tries - 1]
             ELSE [job[j] EXCEPT !.st = "failed"]
\* The outcome of a handler counts only for the delivery it still holds.
Reports(w, outcome) ==
    LET j == worker[w].job
    IN  job' = IF ~worker[w].live \/ job[j].st # "active" THEN job
               ELSE [job EXCEPT ![j] = IF outcome = "ok" THEN [@ EXCEPT !.st = "completed"]
                                       ELSE Failed(j)]

Goto(w, pc) == worker' = [worker EXCEPT ![w].pc = pc]
Free(w) == worker' = [worker EXCEPT ![w] = IdleWorker]
Leave(c) == client' = [client EXCEPT ![c] = IdleClient]

\* The promise of the tracked task settles; its entry stays for five minutes.
Throw(w, e) ==
    /\ registry' = "done"
    /\ worker' = [worker EXCEPT ![w].pc = "fail", ![w].err = e]
Return(w) ==
    /\ registry' = "done"
    /\ Reports(w, "ok")
    /\ Free(w)
-----------------------------------------------------------------------------
\* The handler of a delivered job: executeQueuedJob, executePersisted.

\* boss.work with batchSize 1: one live handler at a time.
Deliver(w, j) ==
    /\ up
    /\ worker[w].pc = "idle"
    /\ \A v \in Workers : ~worker[v].live
    /\ job[j].st \in {"created", "retry"}
    /\ job' = [job EXCEPT ![j].st = "active"]
    /\ worker' = [worker EXCEPT ![w] = [IdleWorker EXCEPT !.pc = "load", !.job = j, !.live = TRUE]]
    /\ UNCHANGED <<row, orch, sent, registry, client, asked, up, crashes, overruns, effects, decisions, undone>>

\* A handler past expireInSeconds is abandoned, not stopped: it runs on while
\* the job goes back to the queue.  So does the job of a process that is gone.
Expire(j) ==
    /\ job[j].st = "active"
    /\ job' = [job EXCEPT ![j] = Failed(j)]
    /\ LET held == \E w \in Workers : worker[w].live /\ worker[w].job = j
       IN  /\ held => overruns < MaxOverruns /\ crashes + overruns < MaxFaults
           /\ overruns' = IF held THEN overruns + 1 ELSE overruns
    /\ worker' = [w \in Workers |-> [worker[w] EXCEPT !.live = @ /\ worker[w].job # j]]
    /\ UNCHANGED <<row, orch, sent, registry, client, asked, up, crashes, effects, decisions, undone>>

Load(w) ==
    /\ worker[w].pc = "load"
    /\ \/ /\ row.st \in {"completed", "cancelled", "waiting_approval"}
          /\ Reports(w, "ok")
          /\ Free(w)
       \/ /\ row.st = "failed"
          /\ Reports(w, "error")
          /\ Free(w)
       \/ /\ row.st \in {"queued", "running"}
          /\ worker' = [worker EXCEPT ![w].pc = "track", ![w].seen = row]
          /\ UNCHANGED job
    /\ UNCHANGED <<row, orch, sent, registry, client, asked, up, crashes, overruns, effects, decisions, undone>>

\* The service account lost the right to run the automation.
Deny(w) ==
    /\ worker[w].pc = "track"
    /\ worker' = [worker EXCEPT ![w].pc = "fail", ![w].err = "denied"]
    /\ UNCHANGED <<row, orch, job, sent, registry, client, asked, up, crashes, overruns, effects, decisions, undone>>

\* BackgroundTaskRegistry.start refuses a run that has an entry, whether its
\* task still runs or has ended less than five minutes ago.
Admits == registry = "none"

Track(w) ==
    /\ worker[w].pc = "track"
    /\ IF Admits
       THEN LET r == worker[w].seen
                torn == r.st = "running" /\ \E n \in Nodes : r.node[n] = "running"
            IN  /\ registry' = "running"
                /\ Goto(w, IF torn THEN "interrupt" ELSE "orch")
       ELSE /\ worker' = [worker EXCEPT ![w].pc = "fail", ![w].err = "busy"]
            /\ UNCHANGED registry
    /\ UNCHANGED <<row, orch, job, sent, client, asked, up, crashes, overruns, effects, decisions, undone>>

\* A slip: the handler only returns, as if somebody else had the run.
InterruptQuietly(w) ==
    /\ worker[w].pc = "interrupt"
    /\ Return(w)
    /\ UNCHANGED <<row, orch, sent, client, asked, up, crashes, overruns, effects, decisions, undone>>

\* A slip: the interrupted node is given another try.
InterruptRetrying(w) ==
    /\ worker[w].pc = "interrupt"
    /\ LET r == worker[w].seen
       IN  worker' = [worker EXCEPT ![w].pc = "orch", ![w].seen.node =
               [n \in Nodes |-> IF r.node[n] = "running" THEN "pending" ELSE r.node[n]]]
    /\ UNCHANGED <<row, orch, job, sent, registry, client, asked, up, crashes, overruns, effects, decisions, undone>>

\* A node was running when the last process died: its effect is in doubt and
\* is not repeated.
Interrupt(w) ==
    /\ worker[w].pc = "interrupt"
    /\ IF Expecting("running")
       THEN LET r == worker[w].seen
            IN  /\ row' = [r EXCEPT !.err = "interrupted",
                              !.node = [n \in Nodes |-> IF r.node[n] = "running" THEN "failed"
                                                        ELSE r.node[n]]]
                /\ Throw(w, "interrupted")
       ELSE Throw(w, "stale") /\ UNCHANGED row
    /\ UNCHANGED <<orch, job, sent, client, asked, up, crashes, overruns, effects, decisions, undone>>

\* ensureOrchestrationRun
Orchestrate(w) ==
    /\ worker[w].pc = "orch"
    /\ orch' = IF ~Known(worker[w].seen) \/ orch = "waiting" THEN "running" ELSE orch
    /\ Goto(w, "enter")
    /\ UNCHANGED <<row, job, sent, registry, client, asked, up, crashes, overruns, effects, decisions, undone>>

\* Each write carries the whole execution state that was read before it.
Enter(w) ==
    /\ worker[w].pc = "enter"
    /\ LET r == worker[w].seen
       IN  IF Expecting(r.st)
           THEN /\ row' = [r EXCEPT !.st = "running", !.err = "none"]
                /\ Goto(w, "look")
                /\ UNCHANGED registry
           ELSE Throw(w, "stale") /\ UNCHANGED row
    /\ UNCHANGED <<orch, job, sent, client, asked, up, crashes, overruns, effects, decisions, undone>>
-----------------------------------------------------------------------------
\* The loop of executeAutomationRun, and executeNode.

Aborted == registry = "aborted"

Look(w) ==
    /\ worker[w].pc = "look"
    /\ \/ /\ Aborted
          /\ Throw(w, "aborted")
          /\ UNCHANGED job
       \/ /\ ~Aborted
          /\ row.st = "cancelled"
          /\ Goto(w, "drop")
          /\ UNCHANGED <<job, registry>>
       \/ /\ ~Aborted
          /\ row.st # "cancelled"
          /\ row.answer = "pending"
          /\ Return(w)
       \/ /\ ~Aborted
          /\ row.st # "cancelled"
          /\ row.answer # "pending"
          /\ \E n \in Nodes :
                /\ IsNext(row, n)
                /\ worker' = [worker EXCEPT ![w] =
                       IF Active(row, n)
                       THEN [@ EXCEPT !.pc = "claim", !.seen = row, !.n = n]
                       ELSE [@ EXCEPT !.pc = "save", !.seen = row, !.n = n,
                                      !.out = [row EXCEPT !.node[n] = "skipped"]]]
          /\ UNCHANGED <<job, registry>>
       \/ /\ ~Aborted
          /\ row.st # "cancelled"
          /\ row.answer # "pending"
          /\ \A n \in Nodes : ~IsNext(row, n)
          /\ IF \A n \in Nodes : row.node[n] \in Settled
             THEN /\ worker' = [worker EXCEPT ![w].pc = "close", ![w].seen = row]
                  /\ UNCHANGED registry
             ELSE Throw(w, "stuck")
          /\ UNCHANGED job
    /\ UNCHANGED <<row, orch, sent, client, asked, up, crashes, overruns, effects, decisions, undone>>

\* AbortSignal.timeout: the definition's own limit, seen at the next check.
TimeOut(w) ==
    /\ worker[w].pc \in {"look", "claim"}
    /\ Throw(w, "timeout")
    /\ UNCHANGED <<row, orch, job, sent, client, asked, up, crashes, overruns, effects, decisions, undone>>

\* The node is recorded as running before anything of it is done.
Claim(w) ==
    /\ worker[w].pc = "claim"
    /\ LET r == [worker[w].seen EXCEPT !.node[worker[w].n] = "running"]
       IN  IF ~Aborted /\ Expecting(r.st)
           THEN /\ row' = [r EXCEPT !.st = "running", !.err = "none"]
                /\ worker' = [worker EXCEPT ![w].pc = "act", ![w].out = r]
                /\ UNCHANGED registry
           ELSE Throw(w, IF Aborted THEN "aborted" ELSE "stale") /\ UNCHANGED row
    /\ UNCHANGED <<orch, job, sent, client, asked, up, crashes, overruns, effects, decisions, undone>>

\* The error branch takes over, or the record fails and the error is thrown.
Trouble(w) ==
    LET n == worker[w].n
    IN  worker' = [worker EXCEPT ![w].out = NodeFailed(@, n),
                                 ![w].pc = IF "error" \in OutPorts(n) THEN "save" ELSE "bury"]
Yields(w, out) == worker' = [worker EXCEPT ![w].pc = "save", ![w].out = out]

\* A tool runs once approved; an agent node first writes the id of its run.
MayStart(w) ==
    LET n == worker[w].n
    IN  \/ Kind[n] = "tool" /\ (n \in Guarded => n \in worker[w].out.granted)
        \/ Kind[n] = "agent" /\ Expecting(worker[w].seen.st)

Act(w) ==
    /\ worker[w].pc = "act"
    /\ LET n == worker[w].n
           r == worker[w].out
       IN  \/ /\ Kind[n] \in {"plain", "branch"}
              /\ (\E p \in Choices(n) : Yields(w, NodeDone(r, n, {p}))) \/ Trouble(w)
              /\ UNCHANGED effects
           \/ /\ Kind[n] = "approval"
              /\ Yields(w, IF r.ask = n /\ r.answer \in {"approved", "rejected"}
                           THEN NodeDone(r, n, {r.answer}) ELSE NodeAsks(r, n))
              /\ UNCHANGED effects
           \/ /\ Kind[n] = "tool" /\ ~MayStart(w)
              /\ Yields(w, NodeAsks(r, n))
              /\ UNCHANGED effects
           \/ /\ Kind[n] = "agent" /\ ~MayStart(w)
              /\ Trouble(w)
              /\ UNCHANGED effects
           \/ /\ MayStart(w)
              /\ effects' = [effects EXCEPT ![n] = IF @ = 2 THEN 2 ELSE @ + 1]
              /\ Goto(w, "effect")
    /\ UNCHANGED <<row, orch, job, sent, registry, client, asked, up, crashes, overruns, decisions, undone>>

\* The tool or the agent run ends; an abort or the time limit ends it in error.
Effect(w) ==
    /\ worker[w].pc = "effect"
    /\ \/ Yields(w, NodeDone(worker[w].out, worker[w].n, SuccessPorts(worker[w].n)))
       \/ Trouble(w)
    /\ UNCHANGED <<row, orch, job, sent, registry, client, asked, up, crashes, overruns, effects, decisions, undone>>

\* A slip: the write does not expect the status that was read.
SaveOver(w) ==
    /\ worker[w].pc = "save"
    /\ LET paused == worker[w].out.node[worker[w].n] = "waiting"
       IN  /\ row' = [worker[w].out EXCEPT !.st = IF paused THEN "waiting_approval" ELSE "running",
                                           !.err = "none"]
           /\ Goto(w, IF paused THEN "pause" ELSE "look")
    /\ UNCHANGED <<orch, job, sent, registry, client, asked, up, crashes, overruns, effects, decisions, undone>>

Save(w) ==
    /\ worker[w].pc = "save"
    /\ LET paused == worker[w].out.node[worker[w].n] = "waiting"
       IN  IF Expecting(worker[w].seen.st)
           THEN /\ row' = [worker[w].out EXCEPT !.st = IF paused THEN "waiting_approval" ELSE "running",
                                                !.err = "none"]
                /\ Goto(w, IF paused THEN "pause" ELSE "look")
                /\ UNCHANGED registry
           ELSE Throw(w, "stale") /\ UNCHANGED row
    /\ UNCHANGED <<orch, job, sent, client, asked, up, crashes, overruns, effects, decisions, undone>>

Pause(w) ==
    /\ worker[w].pc = "pause"
    /\ orch' = "waiting"
    /\ Return(w)
    /\ UNCHANGED <<row, sent, client, asked, up, crashes, overruns, effects, decisions, undone>>

Bury(w) ==
    /\ worker[w].pc = "bury"
    /\ row' = IF Expecting(worker[w].seen.st)
              THEN [worker[w].out EXCEPT !.st = "failed", !.err = "node"] ELSE row
    /\ Throw(w, "node")
    /\ UNCHANGED <<orch, job, sent, client, asked, up, crashes, overruns, effects, decisions, undone>>

\* cancelOrchestrationRun
Drop(w) ==
    /\ worker[w].pc = "drop"
    /\ orch' = IF orch \in OrchEnded THEN orch ELSE "cancelled"
    /\ Return(w)
    /\ UNCHANGED <<row, sent, client, asked, up, crashes, overruns, effects, decisions, undone>>

\* completeAutomationRun: the orchestration run first, then the record.
Close(w) ==
    /\ worker[w].pc = "close"
    /\ orch' = "completed"
    /\ Goto(w, "complete")
    /\ UNCHANGED <<row, job, sent, registry, client, asked, up, crashes, overruns, effects, decisions, undone>>

Complete(w) ==
    /\ worker[w].pc = "complete"
    /\ LET r == worker[w].seen
       IN  IF Expecting(r.st)
           THEN /\ row' = [r EXCEPT !.st = "completed", !.ask = 0, !.answer = "none"]
                /\ Return(w)
           ELSE Throw(w, "stale") /\ UNCHANGED <<row, job>>
    /\ UNCHANGED <<orch, sent, client, asked, up, crashes, overruns, effects, decisions, undone>>
-----------------------------------------------------------------------------
\* failAutomationRun, in the catch block of executePersisted.

\* A slip: the failure is written to the record as the handler was given it.
FailAsHanded(w) ==
    /\ worker[w].pc = "fail"
    /\ worker[w].seen.st \notin {"completed", "cancelled"}
    /\ Goto(w, "failorch")
    /\ UNCHANGED <<row, orch, job, sent, registry, client, asked, up, crashes, overruns, effects, decisions, undone>>

Fail(w) ==
    /\ worker[w].pc = "fail"
    /\ IF row.st \in {"completed", "cancelled"}
       THEN Reports(w, "error") /\ Free(w)
       ELSE /\ worker' = [worker EXCEPT ![w].pc = "failorch", ![w].seen = row]
            /\ UNCHANGED job
    /\ UNCHANGED <<row, orch, sent, registry, client, asked, up, crashes, overruns, effects, decisions, undone>>

FailOrchestration(w) ==
    /\ worker[w].pc = "failorch"
    /\ orch' = IF Known(worker[w].seen) /\ orch \notin OrchEnded THEN "failed" ELSE orch
    /\ Goto(w, "failrow")
    /\ UNCHANGED <<row, job, sent, registry, client, asked, up, crashes, overruns, effects, decisions, undone>>

FailRow(w) ==
    /\ worker[w].pc = "failrow"
    /\ LET r == worker[w].seen
       IN  IF Expecting(r.st)
           THEN /\ row' = [r EXCEPT !.st = "failed", !.err = worker[w].err]
                /\ undone' = undone \cup Stale(r)
           ELSE UNCHANGED <<row, undone>>
    /\ Reports(w, "error")
    /\ Free(w)
    /\ UNCHANGED <<orch, sent, registry, client, asked, up, crashes, overruns, effects, decisions>>

\* The timer of a settled task removes its entry from the registry.  Its five
\* minutes outlast the database calls of any handler or request under way.
Evict ==
    /\ registry = "done"
    /\ \A w \in Workers : worker[w].pc = "idle"
    /\ \A c \in Clients : client[c].pc = "idle"
    /\ registry' = "none"
    /\ UNCHANGED <<row, orch, job, sent, worker, client, asked, up, crashes, overruns, effects, decisions, undone>>
-----------------------------------------------------------------------------
\* Requests of the devices: start, cancel, answer; and the dispatch to the queue.

Serving == up /\ client[Boot].pc = "idle"
Asks(c, pc, a) ==
    /\ Serving
    /\ asked < MaxRequests
    /\ asked' = asked + 1
    /\ client[c].pc = "idle"
    /\ client' = [client EXCEPT ![c] = [pc |-> pc, seen |-> row, answer |-> a]]

\* startAutomation: the record carries the id of the job it is about to send.
Start(c) ==
    /\ Serving
    /\ row.st = "none"
    /\ sent' = 1
    /\ row' = [NoRow EXCEPT !.st = "queued", !.job = 1]
    /\ client' = [client EXCEPT ![c] = [IdleClient EXCEPT !.pc = "send", !.seen = row']]
    /\ UNCHANGED <<orch, job, registry, worker, asked, up, crashes, overruns, effects, decisions, undone>>

\* enqueueAutomationRun: sending an id again finds the live job it stands for.
Send(c) ==
    /\ client[c].pc = "send"
    /\ LET j == client[c].seen.job
       IN  \/ /\ job[j].st \in {"none", "created", "active", "retry"}
              /\ job' = [job EXCEPT ![j].st = IF @ = "none" THEN "created" ELSE @]
              /\ Leave(c)
           \/ /\ job[j].st \in {"completed", "cancelled", "failed"}
              /\ client' = [client EXCEPT ![c].pc = "unsent"]
              /\ UNCHANGED job
    /\ UNCHANGED <<row, orch, sent, registry, worker, asked, up, crashes, overruns, effects, decisions, undone>>

\* The queue's database does not answer; the job may have been stored or not.
SendError(c) ==
    /\ client[c].pc = "send"
    /\ LET j == client[c].seen.job
       IN  \/ UNCHANGED job
           \/ /\ job[j].st = "none"
              /\ job' = [job EXCEPT ![j].st = "created"]
    /\ client' = [client EXCEPT ![c].pc = "unsent"]
    /\ UNCHANGED <<row, orch, sent, registry, worker, asked, up, crashes, overruns, effects, decisions, undone>>

Unsent(c) ==
    /\ client[c].pc = "unsent"
    /\ IF row.st = "queued" THEN client' = [client EXCEPT ![c].pc = "giveup"] ELSE Leave(c)
    /\ UNCHANGED <<row, orch, job, sent, registry, worker, asked, up, crashes, overruns, effects, decisions, undone>>

\* failUndispatchableRun
GiveUp(c) ==
    /\ client[c].pc = "giveup"
    /\ row' = IF Expecting("queued") THEN [row EXCEPT !.st = "failed", !.err = "dispatch"] ELSE row
    /\ Leave(c)
    /\ UNCHANGED <<orch, job, sent, registry, worker, asked, up, crashes, overruns, effects, decisions, undone>>

\* cancelAutomation
AskCancel(c) ==
    /\ row.st \in {"queued", "running", "waiting_approval"}
    /\ Asks(c, "unqueue", "none")
    /\ UNCHANGED <<row, orch, job, sent, registry, worker, up, crashes, overruns, effects, decisions, undone>>

CancelJob(c) ==
    /\ client[c].pc = "unqueue"
    /\ LET j == client[c].seen.job
       IN  job' = IF job[j].st \in {"created", "active", "retry"}
                  THEN [job EXCEPT ![j].st = "cancelled"] ELSE job
    /\ client' = [client EXCEPT ![c].pc = "quit"]
    /\ UNCHANGED <<row, orch, sent, registry, worker, asked, up, crashes, overruns, effects, decisions, undone>>

CancelOrchestration(c) ==
    /\ client[c].pc = "quit"
    /\ orch' = IF Known(client[c].seen) /\ orch \notin OrchEnded THEN "cancelled" ELSE orch
    /\ client' = [client EXCEPT ![c].pc = "cancelrow"]
    /\ UNCHANGED <<row, job, sent, registry, worker, asked, up, crashes, overruns, effects, decisions, undone>>

CancelRow(c) ==
    /\ client[c].pc = "cancelrow"
    /\ LET r == client[c].seen
       IN  IF Expecting(r.st)
           THEN /\ row' = [r EXCEPT !.st = "cancelled", !.ask = 0, !.answer = "none",
                             !.node = [n \in Nodes |->
                                IF r.node[n] \in Settled THEN r.node[n] ELSE "cancelled"]]
                /\ client' = [client EXCEPT ![c].pc = "abort"]
           ELSE Leave(c) /\ UNCHANGED row
    /\ UNCHANGED <<orch, job, sent, registry, worker, asked, up, crashes, overruns, effects, decisions, undone>>

AbortTask(c) ==
    /\ client[c].pc = "abort"
    /\ registry' = IF registry = "running" THEN "aborted" ELSE registry
    /\ Leave(c)
    /\ UNCHANGED <<row, orch, job, sent, worker, asked, up, crashes, overruns, effects, decisions, undone>>

\* respondApproval
AskAnswer(c, a) ==
    /\ row.st = "waiting_approval"
    /\ row.answer = "pending"
    /\ Asks(c, "decide", a)
    /\ UNCHANGED <<row, orch, job, sent, registry, worker, up, crashes, overruns, effects, decisions, undone>>

\* What the decision makes of the execution state that the request read.
Decided(r, a) ==
    LET n == r.ask
    IN  IF Kind[n] = "tool" /\ a = "rejected"
        THEN [NodeFailed(r, n) EXCEPT !.ask = IF "error" \in OutPorts(n) THEN 0 ELSE n,
                                      !.answer = IF "error" \in OutPorts(n) THEN "none" ELSE a]
        ELSE [r EXCEPT !.node[n] = "pending", !.answer = a,
                       !.granted = IF Kind[n] = "tool" THEN @ \cup {n} ELSE @]

\* A slip: the record is read again for the write, the question is not compared.
DecideOnCurrent(c) ==
    /\ client[c].pc = "decide"
    /\ Expecting("waiting_approval")
    /\ sent < MaxJobs
    /\ sent' = sent + 1
    /\ row' = [Decided(row, client[c].answer) EXCEPT !.st = "queued", !.job = sent + 1]
    /\ decisions' = [decisions EXCEPT ![client[c].seen.ask] = @ \cup {client[c].answer}]
    /\ client' = [client EXCEPT ![c] = [IdleClient EXCEPT !.pc = "send", !.seen = row']]
    /\ UNCHANGED <<orch, job, registry, worker, asked, up, crashes, overruns, effects, undone>>

Decide(c) ==
    /\ client[c].pc = "decide"
    /\ LET r == client[c].seen
           a == client[c].answer
           next == Decided(r, a)
           resumes == "error" \in OutPorts(r.ask) \/ ~(Kind[r.ask] = "tool" /\ a = "rejected")
       IN  \/ /\ ~Expecting("waiting_approval")
              /\ Leave(c)
              /\ UNCHANGED <<row, sent, decisions, undone>>
           \/ /\ Expecting("waiting_approval")
              /\ decisions' = [decisions EXCEPT ![r.ask] = @ \cup {a}]
              /\ undone' = undone \cup Stale(r)
              /\ \/ /\ resumes
                    /\ sent < MaxJobs
                    /\ sent' = sent + 1
                    /\ row' = [next EXCEPT !.st = "queued", !.job = sent + 1]
                    /\ client' = [client EXCEPT ![c] = [IdleClient EXCEPT !.pc = "send", !.seen = row']]
                 \/ /\ ~resumes
                    /\ row' = [next EXCEPT !.st = "failed", !.err = "rejected"]
                    /\ Leave(c)
                    /\ UNCHANGED sent
    /\ UNCHANGED <<orch, job, registry, worker, asked, up, crashes, overruns, effects>>
-----------------------------------------------------------------------------
\* The process dies with all that is in memory; the database stays.
Crash ==
    /\ up
    /\ crashes < MaxCrashes /\ crashes + overruns < MaxFaults
    /\ crashes' = crashes + 1
    /\ up' = FALSE
    /\ worker' = [w \in Workers |-> IdleWorker]
    /\ client' = [c \in Clients |-> IdleClient]
    /\ registry' = "none"
    /\ UNCHANGED <<row, orch, job, sent, asked, overruns, effects, decisions, undone>>

\* recoverOrphanedRuns, then the queue is served, then the reconciliation.
Restart ==
    /\ ~up
    /\ up' = TRUE
    /\ orch' = IF orch = "running" THEN "interrupted" ELSE orch
    /\ client' = [client EXCEPT ![Boot].pc = "list"]
    /\ UNCHANGED <<row, job, sent, registry, worker, asked, crashes, overruns, effects, decisions, undone>>

\* A slip: the start does not look for queued records.
ReconcileNothing ==
    /\ client[Boot].pc = "list"
    /\ Leave(Boot)
    /\ UNCHANGED <<row, orch, job, sent, registry, worker, asked, up, crashes, overruns, effects, decisions, undone>>

\* reconcileQueuedAutomationRuns: a queued record is sent again, under the same id.
Reconcile ==
    /\ client[Boot].pc = "list"
    /\ IF row.st = "queued"
       THEN client' = [client EXCEPT ![Boot] = [IdleClient EXCEPT !.pc = "send", !.seen = row]]
       ELSE Leave(Boot)
    /\ UNCHANGED <<row, orch, job, sent, registry, worker, asked, up, crashes, overruns, effects, decisions, undone>>

Works(w) ==
    \/ Load(w) \/ Track(w) \/ Interrupt(w) \/ Orchestrate(w) \/ Enter(w)
    \/ Look(w) \/ Claim(w) \/ Act(w) \/ Effect(w) \/ Save(w) \/ Pause(w)
    \/ Bury(w) \/ Drop(w) \/ Close(w) \/ Complete(w)
    \/ Fail(w) \/ FailOrchestration(w) \/ FailRow(w)
Dispatches(c) == Send(c) \/ SendError(c) \/ Unsent(c) \/ GiveUp(c)
Serves(c) ==
    \/ Dispatches(c) \/ CancelJob(c) \/ CancelOrchestration(c) \/ CancelRow(c)
    \/ AbortTask(c) \/ Decide(c)

Next ==
    \/ \E w \in Workers : \/ Works(w) \/ Deny(w) \/ TimeOut(w)
                          \/ \E j \in JobIds : Deliver(w, j)
    \/ \E j \in JobIds : Expire(j)
    \/ Evict
    \/ \E c \in Clients : Serves(c)
    \/ \E c \in Devices : Start(c) \/ AskCancel(c) \/ \E a \in {"approved", "rejected"} : AskAnswer(c, a)
    \/ Crash \/ Restart \/ Reconcile

Spec == Init /\ [][Next]_vars

\* The event loop runs every continuation, pg-boss polls and expires its jobs,
\* timers fire, and the supervisor starts the process again.  Users owe nothing.
FairSpec ==
    /\ Spec
    /\ \A w \in Workers : WF_vars(Works(w))
    /\ \A j \in JobIds : WF_vars(\E w \in Workers : Deliver(w, j)) /\ WF_vars(Expire(j))
    /\ \A c \in Clients : WF_vars(Serves(c))
    /\ WF_vars(Evict) /\ WF_vars(Restart) /\ WF_vars(Reconcile)
-----------------------------------------------------------------------------
\* The side effect of a node is started at most once, over all deliveries of the
\* job, restarts, approvals and devices (the check for interrupted nodes in
\* executeAutomationRun, the registry, the conditional updates) - unless a stale
\* write, of a failure or an answer, has changed what the record says of that node.
EffectStartedOnce == \A n \in Nodes \ undone : effects[n] <= 1

\* A tool that needs an approval has run only if its own question was approved, in
\* whatever order the devices' answers arrive; and no other answer to it was ever
\* accepted, unless a stale write has changed what the record says of it.
GuardedRunsOnApproval ==
    \A n \in Guarded : effects[n] > 0 =>
        /\ "approved" \in decisions[n]
        /\ n \notin undone => decisions[n] = {"approved"}

\* A first stale write has one of two causes: a job has expired while its handler ran
\* on, or an answer meets another question than the one it was checked against.
LateAnswer(c) ==
    /\ client[c].pc = "decide"
    /\ row.st = "waiting_approval"
    /\ row.ask # client[c].seen.ask
StaleWritesHaveCause ==
    [][undone = {} /\ undone' # {} => overruns > 0 \/ \E c \in Clients : LateAnswer(c)]_vars

\* A completed or cancelled record is never written again, by an executor that runs
\* on, a late job or another device; and a failed one is not resumed, unless a job
\* has expired under its handler.
EndedRunStaysEnded ==
    [][/\ row.st \in {"completed", "cancelled"} => row' = row
       /\ row.st = "failed" /\ overruns = 0 => row'.st = "failed"]_row

\* As long as no job has expired under its handler, the queue never reports the job of
\* a running record as done: the handler has ended the record or left it waiting
\* before its job ends; nor as exhausted, unless the process died more often than
\* pg-boss retries (retryLimit 2).
NoOrphanedRun ==
    row.st = "running" => /\ job[row.job].st # "completed"
                          /\ job[row.job].st = "failed" => crashes > 2

Over == {"completed", "failed", "cancelled"}
Ended == row.st \in Over
Open == {"queued", "running"}

\* The registry admits one executor of the run, however many handlers the queue has
\* given up on.
Executing == {"interrupt", "orch", "enter", "look", "claim", "act", "effect", "save",
              "bury", "pause", "drop", "close", "complete"}
OneExecutor ==
    /\ \A v, w \in Workers :
          worker[v].pc \in Executing /\ worker[w].pc \in Executing => v = w
    /\ (\E w \in Workers : worker[w].pc \in Executing) <=> registry \in {"running", "aborted"}

\* The record of a paused run names the node that asks.
PausedAsks ==
    row.st = "waiting_approval" =>
        row.ask \in Nodes /\ row.node[row.ask] = "waiting" /\ row.answer = "pending"

\* A job id is drawn before it is sent, and before a handler or a record has it.
JobsDrawn ==
    /\ row.st = "none" => row = NoRow /\ sent = 0
    /\ row.st # "none" => row.job \in 1..sent
    /\ \A j \in JobIds : job[j].st # "none" => j <= sent
    /\ \A w \in Workers :
          /\ worker[w].pc # "idle" => worker[w].job \in 1..sent
          /\ worker[w].pc \notin {"idle", "load"} => worker[w].seen.job \in 1..sent
          /\ worker[w].pc \in {"act", "effect", "save", "bury"} => worker[w].out.job \in 1..sent

\* What a request has read of the record.
RequestInStep(c) ==
    LET x == client[c]
    IN  /\ x.pc \in {"send", "unqueue", "quit", "cancelrow", "decide"} =>
              x.seen.job \in 1..sent
        /\ x.pc \in {"unqueue", "quit", "cancelrow"} =>
              x.seen.st \in Open \cup {"waiting_approval"}
        /\ x.pc = "decide" => x.answer # "none" /\ x.seen.st = "waiting_approval"
                              /\ x.seen.ask \in Nodes /\ x.seen.answer = "pending"
                              /\ x.seen.node[x.seen.ask] = "waiting"

\* What a handler x knows of the status of the record.  Others may fail or cancel the
\* run beside its executor, and do nothing else.
Entering == {"interrupt", "orch", "enter"}
Working == {"claim", "act", "effect", "save", "bury"}
Closing == {"close", "complete"}
StatusInStep(x) ==
    /\ x.pc \in {"track"} \cup Entering => x.seen.st \in Open
    /\ x.pc \in Entering => row.st \in {x.seen.st, "failed", "cancelled"}
    /\ x.pc = "track" /\ registry = "none" => row.st \in {x.seen.st, "failed", "cancelled"}
    /\ x.pc \in {"look"} \cup Working \cup Closing => row.st \in {"running", "failed", "cancelled"}
    /\ x.pc \in Working \cup Closing => x.seen.st \in {"running", "failed"}
    /\ x.pc \in Working => x.n \in Nodes
    /\ x.pc = "claim" => x.seen.node[x.n] = "pending"
    /\ x.pc \in {"act", "effect"} => x.out.node[x.n] = "running"
    /\ x.pc = "save" /\ x.out.node[x.n] = "waiting" => x.out.ask = x.n /\ x.out.answer = "pending"
    /\ x.pc \in {"failorch", "failrow"} => x.seen.st \notin {"completed", "cancelled"}

\* The handler x will write over the record what it has in its memory.  Of a node that
\* no stale write has touched that is what the record says, but for the node x is at.
Carries(x) == \/ x.pc \in Entering \cup Working \cup Closing
              \/ x.pc = "track" /\ registry = "none"
Memory(x) == IF x.pc \in {"act", "effect", "save", "bury"} THEN x.out ELSE x.seen
NodeInStep(x, n) ==
    /\ n \in Memory(x).granted <=> n \in row.granted
    /\ IF x.pc \in {"save", "bury"} /\ x.n = n THEN row.node[n] \in {"pending", "running"}
       ELSE row.node[n] = Memory(x).node[n]

\* A node without a record of a beginning has had no effect, in the record nor in what a
\* handler is about to write to it, and none is started twice.
NotBegun == {"pending", "waiting", "skipped"}
NodeBooked(n) ==
    /\ effects[n] <= 1
    /\ row.st # "cancelled" =>
          /\ row.node[n] \in NotBegun => effects[n] = 0
          /\ \A w \in Workers : Carries(worker[w]) => NodeInStep(worker[w], n)
    /\ \A w \in Workers : worker[w].n = n =>
          /\ worker[w].pc \in {"claim", "act"} => effects[n] = 0
          /\ worker[w].pc \in {"save", "bury"} /\ worker[w].out.node[n] \in NotBegun =>
                effects[n] = 0

\* Who has a grant in its memory has it from an approval of that question.
Granted(r) == \A n \in r.granted : "approved" \in decisions[n]
GrantsApproved ==
    /\ Granted(row)
    /\ \A w \in Workers : Granted(worker[w].seen) /\ Granted(worker[w].out)
    /\ \A c \in Clients : Granted(client[c].seen)
    /\ \A n \in Guarded : effects[n] > 0 => "approved" \in decisions[n]

\* The one decision that was accepted on a guarded tool is on the record.
ApprovalBooked(n) ==
    /\ effects[n] > 0 => decisions[n] = {"approved"}
    /\ row.st # "cancelled" =>
          /\ n \in row.granted => decisions[n] = {"approved"}
          /\ decisions[n] # {} => n \in row.granted \/ row.node[n] = "failed"
          /\ row.node[n] = "waiting" => n \notin row.granted
    /\ \A w \in Workers : worker[w].n = n =>
          /\ worker[w].pc = "act" /\ n \in worker[w].out.granted => decisions[n] = {"approved"}
          /\ worker[w].pc \in {"save", "bury"} /\ worker[w].out.node[n] = "waiting" =>
                n \notin worker[w].out.granted

\* What holds however many handlers run beside each other, and however late an answer is.
OverlapInv ==
    /\ TypeOK /\ OneExecutor /\ PausedAsks /\ JobsDrawn
    /\ \A w \in Workers : StatusInStep(worker[w])
    /\ \A c \in Clients : RequestInStep(c)
    /\ \A n \in Nodes \ undone : NodeBooked(n)
    /\ GrantsApproved
    /\ \A n \in Guarded \ undone : ApprovalBooked(n)

\* One handler at a time, and its job is held for as long as it works.
OneHandler ==
    /\ \A w \in Workers : IF worker[w].pc = "idle" THEN worker[w] = IdleWorker
                          ELSE worker[w].live /\ worker[w].job \in 1..sent
    /\ \A v, w \in Workers : worker[v].pc # "idle" /\ worker[w].pc # "idle" => v = w

\* The record r is what the handler has in its memory, or is it but for one node.
Agrees(r, out) ==
    /\ r.job = out.job /\ r.granted = out.granted
    /\ r.answer = out.answer /\ r.node = out.node
Differs(r, out, n) ==
    /\ r.job = out.job /\ r.granted = out.granted
    /\ \A m \in Nodes \ {n} : r.node[m] = out.node[m]
    /\ r.node[n] \in {"pending", "running"}

\* What a handler x has read or is about to write differs from the record r in
\* its own node only, as long as nobody else has ended the run.
InStep(x, r) ==
    /\ x.pc \in {"track", "interrupt", "orch", "enter"} =>
          x.seen.st \in Open /\ (r = x.seen \/ r.st \in Over)
    /\ x.pc = "look" => r.st \in {"running", "cancelled"}
    /\ x.pc \in {"claim", "close", "complete"} =>
          x.seen.st = "running" /\ (r = x.seen \/ r.st = "cancelled")
    /\ x.pc \in {"claim", "act", "effect", "save", "bury"} => x.n \in Nodes /\ x.seen.st = "running"
    /\ x.pc = "claim" => x.seen.node[x.n] = "pending"
    /\ x.pc \in {"act", "effect"} =>
          /\ x.out.node[x.n] = "running"
          /\ (r.st = "running" /\ Agrees(r, x.out)) \/ r.st = "cancelled"
    /\ x.pc \in {"save", "bury"} =>
          (r.st = "running" /\ Differs(r, x.out, x.n)) \/ r.st = "cancelled"
    /\ x.pc = "save" /\ r.st = "running" =>
          IF x.out.node[x.n] = "waiting" THEN x.out.ask = x.n /\ x.out.answer = "pending"
          ELSE x.out.answer # "pending"
    /\ x.pc = "pause" => r.st \in Over \cup {"waiting_approval"} \/ r.job > x.job
    /\ x.pc = "drop" => r.st = "cancelled"
    /\ x.pc \in {"fail", "failorch", "failrow"} => r.st \in Open \cup Over
    /\ x.pc \in {"failorch", "failrow"} =>
          \/ r = x.seen /\ x.seen.st \in Open \cup {"failed"}
          \/ x.seen.st \in Open /\ r.st \in Over
HandlerInStep(w) == InStep(worker[w], row)

\* While the record is open, a delivery of a job is lost only to a crash.
Accounted(j) ==
    /\ job[j].tries + crashes >= 2
    /\ job[j].st = "active" /\ (\A w \in Workers : worker[w].job # j) =>
          job[j].tries + crashes >= 3
    /\ job[j].st = "failed" => crashes > 2
JobsAccounted ==
    /\ row.st \in Open => row.answer # "pending" /\ job[row.job].st # "completed"
    /\ ~Ended => \A j \in JobIds : Accounted(j)

\* What holds, besides, as long as no job has expired under its handler.
InOrder ==
    /\ OneHandler /\ JobsAccounted /\ NoOrphanedRun
    /\ \A w \in Workers : HandlerInStep(w)

\* The record, the queue and the memory of handlers and requests agree: what the code
\* relies on when it writes whole execution states it has read before.
AutomationInv == OverlapInv /\ (overruns = 0 => InOrder)

\* A queued record is taken up, cancelled or failed: not forgotten when the process
\* dies between the record and the job, or between the two steps of a cancellation.
QueuedRunIsTaken == row.st = "queued" ~> row.st # "queued"

\* Three statements of the code that its runs refute.

\* backgroundTaskRegistry.ts:31 says that the registry describes only the tasks that
\* are running now; so a run is refused as already running only while one runs.
RefusedOnlyWhileRunning ==
    [][\A w \in Workers : worker[w].err # "busy" /\ worker'[w].err = "busy"
          => registry \in {"running", "aborted"}]_vars

\* automationRunner.ts:227 says that a node that was under way is not run again by the
\* system, and 138 that the queue does not reset the nodes of a failed run.
NodeNotRerun == \A n \in Nodes : effects[n] <= 1

\* scheduledTaskService.ts:307 says that an answer to a question that was handled, or
\* that is not the run's, is refused; so one that is accepted meets its own question.
AnswerMeetsItsQuestion ==
    [][\A c \in Clients : client[c].pc = "decide" /\ client'[c].pc # "decide" /\ row' # row
          => row.ask = client[c].seen.ask]_vars
=============================================================================
