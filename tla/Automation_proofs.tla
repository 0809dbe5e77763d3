-------------------------- MODULE Automation_proofs --------------------------
(***************************************************************************)
(* What an automation run guarantees for every graph and any number of     *)
(* handlers, devices, requests, queue jobs, crashes and jobs that expire   *)
(* under their handler.  However many handlers overlap and however late an *)
(* answer is, the handlers that write expect what they have read, and of   *)
(* every node that no stale write has touched the record and the handlers' *)
(* memory say the same (OverlapInv): its effect starts once, and a guarded *)
(* one on its one decision.  As long as no job has expired under its       *)
(* handler, the record, the queue and the memory of the one handler agree  *)
(* (InOrder), so that no running record is left without a job.             *)
(***************************************************************************)
EXTENDS Automation, TLAPS

\* The ports a node leaves by are ports of the graph.
LEMMA PortsOfNode ==
    /\ \A n : OutPorts(n) \subseteq Ports /\ SuccessPorts(n) \subseteq Ports
    /\ \A n : Choices(n) \subseteq Ports
    /\ {"approved", "rejected", "error"} \subseteq Ports
BY DEF OutPorts, SuccessPorts, Choices, Ports

\* The values that processes start from.
LEMMA Resting == /\ NoRow \in Row /\ IdleWorker \in Handler /\ IdleClient \in Request
                 /\ IdleWorker.pc = "idle" /\ IdleClient.pc = "idle"
<1>1. NoRow \in Row
  BY GraphAssumption DEF NoRow, Row, NodeStatus, RowStatus, Errors
<1> QED
  BY <1>1 DEF IdleWorker, IdleClient, Handler, Request, WorkerPcs, ClientPcs, Errors

\* What executeNode makes of an execution state is an execution state.
LEMMA NodeOutcomes ==
    ASSUME NEW r \in Row, NEW n \in Nodes \cup {0}
    PROVE  /\ \A p \in SUBSET Ports : NodeDone(r, n, p) \in Row
           /\ NodeFailed(r, n) \in Row /\ NodeAsks(r, n) \in Row
           /\ \A s \in NodeStatus : [r EXCEPT !.node[n] = s] \in Row
<1> USE DEF Row
<1>1. ASSUME NEW s \in NodeStatus
      PROVE  [r.node EXCEPT ![n] = s] \in [Nodes -> NodeStatus]
  OBVIOUS
<1>2. ASSUME NEW p \in SUBSET Ports
      PROVE  [r.ports EXCEPT ![n] = p] \in [Nodes -> SUBSET Ports]
  OBVIOUS
<1>3. {"completed", "failed", "waiting"} \subseteq NodeStatus
  BY DEF NodeStatus
<1>4. ASSUME NEW p \in SUBSET Ports
      PROVE  NodeDone(r, n, p) \in Row
  BY <1>1, <1>2, <1>3 DEF NodeDone
<1>5. NodeFailed(r, n) \in Row
  BY <1>1, <1>2, <1>3, PortsOfNode DEF NodeFailed
<1>6. NodeAsks(r, n) \in Row
  BY <1>1, <1>3 DEF NodeAsks
<1>7. ASSUME NEW s \in NodeStatus
      PROVE  [r EXCEPT !.node[n] = s] \in Row
  BY <1>1
<1> QED
  BY <1>4, <1>5, <1>6, <1>7

-----------------------------------------------------------------------------
(* What the writes of the record and the moves of a handler do. *)

\* The record with a new status, and what else is written with it.
Rewrite(r, st, e) == [r EXCEPT !.st = st, !.err = e]
\* Only the status and the error differ.
LEMMA Rewritten ==
    ASSUME NEW r \in Row, NEW st \in RowStatus, NEW e \in Errors
    PROVE  LET q == Rewrite(r, st, e)
           IN  /\ q \in Row /\ q.st = st /\ q.err = e
               /\ q.node = r.node /\ q.ports = r.ports /\ q.ask = r.ask
               /\ q.answer = r.answer /\ q.granted = r.granted /\ q.job = r.job
BY DEF Row, Rewrite

Settle(r, st) == [r EXCEPT !.st = st, !.ask = 0, !.answer = "none"]
\* A record whose question is settled keeps its nodes and its approvals.
LEMMA Settles ==
    ASSUME NEW r \in Row, NEW st \in RowStatus
    PROVE  LET q == Settle(r, st)
           IN  /\ q \in Row /\ q.st = st /\ q.answer = "none"
               /\ q.node = r.node /\ q.granted = r.granted /\ q.job = r.job
BY DEF Row, Settle

Resettle(r, st, f) == [r EXCEPT !.st = st, !.ask = 0, !.answer = "none", !.node = f]
\* A settled record whose nodes are rewritten keeps its approvals.
LEMMA Resettled ==
    ASSUME NEW r \in Row, NEW st \in RowStatus, NEW f \in [Nodes -> NodeStatus]
    PROVE  LET q == Resettle(r, st, f)
           IN  /\ q \in Row /\ q.st = st /\ q.answer = "none"
               /\ q.node = f /\ q.granted = r.granted /\ q.job = r.job
BY DEF Row, Resettle

Mark(r, e, f) == [r EXCEPT !.err = e, !.node = f]
\* Only the error and the nodes differ.
LEMMA Marked ==
    ASSUME NEW r \in Row, NEW e \in Errors, NEW f \in [Nodes -> NodeStatus]
    PROVE  LET q == Mark(r, e, f)
           IN  /\ q \in Row /\ q.st = r.st /\ q.node = f /\ q.ask = r.ask
               /\ q.answer = r.answer /\ q.granted = r.granted /\ q.job = r.job
BY DEF Row, Mark

Requeue(r, k) == [r EXCEPT !.st = "queued", !.job = k]
\* A record that waits for a new job keeps what has been answered.
LEMMA Requeued ==
    ASSUME NEW r \in Row, NEW k \in JobIds
    PROVE  LET q == Requeue(r, k)
           IN  /\ q \in Row /\ q.st = "queued" /\ q.job = k
               /\ q.node = r.node /\ q.answer = r.answer /\ q.granted = r.granted
BY DEF Row, Requeue, RowStatus

\* What executeNode writes of a node.
LEMMA NodeFields ==
    ASSUME NEW r \in Row, NEW n \in Nodes, NEW s \in NodeStatus
    PROVE  LET q == [r EXCEPT !.node[n] = s]
           IN  /\ q.node = [r.node EXCEPT ![n] = s] /\ q.st = r.st /\ q.ask = r.ask
               /\ q.answer = r.answer /\ q.granted = r.granted /\ q.job = r.job
BY DEF Row

\* A completed node changes its own status, and may use the answer up.
LEMMA DoneFields ==
    ASSUME NEW r \in Row, NEW n \in Nodes, NEW p
    PROVE  LET q == NodeDone(r, n, p)
           IN  /\ q.node = [r.node EXCEPT ![n] = "completed"] /\ q.st = r.st
               /\ q.answer \in {r.answer, "none"} /\ q.granted = r.granted /\ q.job = r.job
BY DEF Row, NodeDone

\* A failed node changes no other node, answer or approval.
LEMMA FailedFields ==
    ASSUME NEW r \in Row, NEW n \in Nodes
    PROVE  LET q == NodeFailed(r, n)
           IN  /\ q.node = [r.node EXCEPT ![n] = "failed"] /\ q.st = r.st /\ q.ask = r.ask
               /\ q.answer = r.answer /\ q.granted = r.granted /\ q.job = r.job
BY DEF Row, NodeFailed

\* A node that asks waits, and its question is pending.
LEMMA AsksFields ==
    ASSUME NEW r \in Row, NEW n \in Nodes
    PROVE  LET q == NodeAsks(r, n)
           IN  /\ q.node = [r.node EXCEPT ![n] = "waiting"] /\ q.st = r.st /\ q.ask = n
               /\ q.answer = "pending" /\ q.granted = r.granted /\ q.job = r.job
BY DEF Row, NodeAsks

\* A decision makes the node that asked pending or failed, and changes no other.
LEMMA DecidedFields ==
    ASSUME NEW r \in Row, NEW a \in {"approved", "rejected"}, r.ask \in Nodes,
           r.answer = "pending"
    PROVE  LET q == Decided(r, a)
               n == r.ask
           IN  /\ q \in Row
               /\ q.job = r.job /\ q.answer # "pending"
               /\ q.node = [r.node EXCEPT ![n] = IF Kind[n] = "tool" /\ a = "rejected"
                                                 THEN "failed" ELSE "pending"]
               /\ q.granted = IF Kind[n] = "tool" /\ a = "approved"
                              THEN r.granted \cup {n} ELSE r.granted
<1> DEFINE n == r.ask
           f == NodeFailed(r, n)
<1>1. f \in Row /\ f.node = [r.node EXCEPT ![n] = "failed"] /\ f.granted = r.granted
      /\ f.job = r.job /\ f.answer = r.answer
  BY NodeOutcomes, FailedFields
<1>2. [r.node EXCEPT ![n] = "pending"] \in [Nodes -> NodeStatus]
  BY DEF Row, NodeStatus
<1>3. CASE Kind[n] = "tool" /\ a = "rejected"
  <2>1. Decided(r, a) = [f EXCEPT !.ask = IF "error" \in OutPorts(n) THEN 0 ELSE n,
                                  !.answer = IF "error" \in OutPorts(n) THEN "none" ELSE a]
    BY <1>3 DEF Decided
  <2> HIDE DEF f
  <2> QED
    BY <1>1, <1>3, <2>1 DEF Row
<1>4. CASE ~(Kind[n] = "tool" /\ a = "rejected")
  <2>1. Decided(r, a) = [r EXCEPT !.node[n] = "pending", !.answer = a,
                                  !.granted = IF Kind[n] = "tool" THEN @ \cup {n} ELSE @]
    BY <1>4 DEF Decided
  <2>2. CASE Kind[n] = "tool"
    <3>1. Decided(r, a) = [r EXCEPT !.node = [@ EXCEPT ![n] = "pending"], !.answer = a,
                                    !.granted = @ \cup {n}]
      BY <2>1, <2>2
    <3>2. r.granted \cup {n} \in SUBSET Nodes
      BY DEF Row
    <3> QED
      BY <1>2, <1>4, <2>2, <3>1, <3>2 DEF Row
  <2>3. CASE Kind[n] # "tool"
    <3>1. Decided(r, a) = [r EXCEPT !.node = [@ EXCEPT ![n] = "pending"], !.answer = a]
      BY <2>1, <2>3 DEF Row
    <3> QED
      BY <1>2, <1>4, <2>3, <3>1 DEF Row
  <2> QED
    BY <2>2, <2>3
<1> QED
  BY <1>3, <1>4

\* What a step of one handler leaves of the others, and of its own job.
Others(w) == /\ worker' \in [Workers -> Handler]
             /\ \A v \in Workers \ {w} : worker'[v] = worker[v]
Keeps(w) == /\ Others(w)
            /\ worker'[w].job = worker[w].job /\ worker'[w].live = worker[w].live
Frees(w) == Others(w) /\ worker'[w] = IdleWorker
Stays(w, pc) == /\ Keeps(w) /\ worker'[w].pc = pc /\ worker'[w].seen = worker[w].seen
                /\ worker'[w].n = worker[w].n /\ worker'[w].out = worker[w].out
Throws(w) == /\ Keeps(w) /\ worker'[w].pc = "fail" /\ worker'[w].seen = worker[w].seen
             /\ worker'[w].out = worker[w].out

Reads(w, pc, r) == worker' = [worker EXCEPT ![w].pc = pc, ![w].seen = r]
Plans(w, pc, r) == worker' = [worker EXCEPT ![w].pc = pc, ![w].out = r]
Fails(w, e) == worker' = [worker EXCEPT ![w].pc = "fail", ![w].err = e]

\* The ways in which a handler goes on.
LEMMA HandlerMoves ==
    ASSUME worker \in [Workers -> Handler], NEW w \in Workers
    PROVE  /\ \A pc \in WorkerPcs : Goto(w, pc) => Stays(w, pc)
           /\ Free(w) => Frees(w)
           /\ \A pc \in WorkerPcs, r \in Row :
                 Reads(w, pc, r) =>
                    /\ Keeps(w) /\ worker'[w].pc = pc /\ worker'[w].seen = r
                    /\ worker'[w].out = worker[w].out
           /\ \A pc \in WorkerPcs, r \in Row :
                 Plans(w, pc, r) =>
                    Keeps(w) /\ worker'[w].pc = pc /\ worker'[w].out = r
                    /\ worker'[w].seen = worker[w].seen /\ worker'[w].n = worker[w].n
           /\ \A e \in Errors :
                 Fails(w, e) => Throws(w)
           /\ \A e \in Errors : Throw(w, e) => Throws(w)
           /\ \A r \in Row : Yields(w, r) =>
                 Keeps(w) /\ worker'[w].pc = "save" /\ worker'[w].out = r
                 /\ worker'[w].seen = worker[w].seen /\ worker'[w].n = worker[w].n
           /\ Trouble(w) =>
                 Keeps(w) /\ worker'[w].pc \in {"save", "bury"}
                 /\ worker'[w].out = NodeFailed(worker[w].out, worker[w].n)
                 /\ worker'[w].seen = worker[w].seen /\ worker'[w].n = worker[w].n
<1> USE DEF Keeps, Others
<1>1. ASSUME NEW pc \in WorkerPcs, Goto(w, pc)
      PROVE  Stays(w, pc)
  BY <1>1 DEF Goto, Handler, Stays
<1>2. Free(w) => Frees(w)
  BY Resting DEF Free, Frees
<1>3. ASSUME NEW e \in Errors, Throw(w, e)
      PROVE  Throws(w)
  BY <1>3 DEF Throw, Throws, Handler, WorkerPcs
<1>4. ASSUME NEW r \in Row, Yields(w, r)
      PROVE  /\ Keeps(w) /\ worker'[w].pc = "save" /\ worker'[w].out = r
             /\ worker'[w].seen = worker[w].seen /\ worker'[w].n = worker[w].n
  BY <1>4 DEF Yields, Handler, WorkerPcs
<1>5. ASSUME Trouble(w)
      PROVE  /\ Keeps(w) /\ worker'[w].pc \in {"save", "bury"}
             /\ worker'[w].out = NodeFailed(worker[w].out, worker[w].n)
             /\ worker'[w].seen = worker[w].seen /\ worker'[w].n = worker[w].n
  <2> DEFINE x == worker[w]
             pc == IF "error" \in OutPorts(x.n) THEN "save" ELSE "bury"
  <2>1. worker' = [worker EXCEPT ![w].out = NodeFailed(@, x.n), ![w].pc = pc]
    BY <1>5 DEF Trouble
  <2>2. x.out \in Row /\ NodeFailed(x.out, x.n) \in Row
    BY NodeOutcomes DEF Handler
  <2>3. pc \in {"save", "bury"}
    OBVIOUS
  <2> HIDE DEF pc
  <2> QED
    BY <2>1, <2>2, <2>3 DEF Handler, WorkerPcs
<1>6. ASSUME NEW pc \in WorkerPcs, NEW r \in Row,
             Reads(w, pc, r)
      PROVE  /\ Keeps(w) /\ worker'[w].pc = pc /\ worker'[w].seen = r
             /\ worker'[w].out = worker[w].out
  BY <1>6 DEF Handler, Reads
<1>7. ASSUME NEW e \in Errors, Fails(w, e)
      PROVE  Throws(w)
  BY <1>7 DEF Throws, Handler, WorkerPcs, Fails
<1>8. ASSUME NEW pc \in WorkerPcs, NEW r \in Row,
             Plans(w, pc, r)
      PROVE  Keeps(w) /\ worker'[w].pc = pc /\ worker'[w].out = r
             /\ worker'[w].seen = worker[w].seen /\ worker'[w].n = worker[w].n
  BY <1>8 DEF Handler, Plans
<1> QED
  BY <1>1, <1>2, <1>3, <1>4, <1>5, <1>6, <1>7, <1>8

\* The outcome that a handler reports ends its delivery.
Finishes(w, ok) ==
    LET j == worker[w].job
    IN  /\ job' \in [JobIds -> Job]
        /\ \A k \in JobIds \ {j} : job'[k] = job[k]
        /\ ~worker[w].live => job' = job
        /\ worker[w].live /\ j \in JobIds =>
              /\ job'[j].st # "active"
              /\ job[j].st = "none" => job'[j].st = "none"
              /\ ok => /\ job'[j].tries = job[j].tries
                       /\ job'[j].st \in {job[j].st, "completed"}
\* A reported outcome closes the delivery, and a success spends no try.
LEMMA Outcome ==
    ASSUME job \in [JobIds -> Job], NEW w \in Workers
    PROVE  /\ Reports(w, "ok") => Finishes(w, TRUE)
           /\ Reports(w, "error") => Finishes(w, FALSE)
<1> DEFINE j == worker[w].job
<1>1. \A k \in JobIds : /\ Failed(k) \in Job /\ Failed(k).st # "active"
                        /\ [job[k] EXCEPT !.st = "completed"] \in Job
                        /\ [job[k] EXCEPT !.st = "completed"].st = "completed"
                        /\ [job[k] EXCEPT !.st = "completed"].tries = job[k].tries
  BY DEF Failed, Job
<1>2. ASSUME NEW o \in {"ok", "error"}, Reports(w, o)
      PROVE  Finishes(w, o = "ok")
  <2>1. CASE ~worker[w].live \/ job[j].st # "active"
    <3>1. job' = job
      BY <1>2, <2>1 DEF Reports
    <3> QED
      BY <2>1, <3>1 DEF Finishes
  <2>2. CASE worker[w].live /\ job[j].st = "active" /\ j \notin JobIds
    <3>1. job' = job
      BY <1>2, <2>2 DEF Reports
    <3> QED
      BY <2>2, <3>1 DEF Finishes
  <2>3. CASE worker[w].live /\ job[j].st = "active" /\ j \in JobIds
    <3>1. job' = [job EXCEPT ![j] = IF o = "ok" THEN [@ EXCEPT !.st = "completed"] ELSE Failed(j)]
      BY <1>2, <2>3 DEF Reports
    <3>2. j \in JobIds /\ job[j].st = "active" /\ worker[w].live
      BY <2>3
    <3>3. CASE o = "ok"
      BY <1>1, <3>1, <3>2, <3>3 DEF Finishes
    <3>4. CASE o = "error"
      BY <1>1, <3>1, <3>2, <3>4 DEF Finishes
    <3> QED
      BY <1>2, <3>3, <3>4
  <2> QED
    BY <2>1, <2>2, <2>3
<1>3. ASSUME Reports(w, "ok")
      PROVE  Finishes(w, TRUE)
  BY <1>2, <1>3
<1>4. ASSUME Reports(w, "error")
      PROVE  Finishes(w, FALSE)
  BY <1>2, <1>4
<1> QED
  BY <1>3, <1>4

\* A node ends in one way or another: what is to be saved of it.
EndsNode(w) ==
    /\ Keeps(w) /\ worker'[w].seen = worker[w].seen /\ worker'[w].n = worker[w].n
    /\ \/ /\ worker'[w].pc = "save"
          /\ \E p \in SUBSET Ports : worker'[w].out = NodeDone(worker[w].out, worker[w].n, p)
       \/ /\ worker'[w].pc \in {"save", "bury"}
          /\ worker'[w].out = NodeFailed(worker[w].out, worker[w].n)

-----------------------------------------------------------------------------
(* What each step of a handler means for the record, its job and itself. *)

\* The handler leaves a run that is over or asks, and takes in any other.
LEMMA LoadMeans ==
    ASSUME TypeOK, NEW w \in Workers, Load(w)
    PROVE  /\ UNCHANGED row
           /\ \/ /\ row.st \in {"completed", "cancelled", "waiting_approval"}
                 /\ Frees(w) /\ Finishes(w, TRUE)
              \/ row.st = "failed" /\ Frees(w) /\ Finishes(w, FALSE)
              \/ /\ row.st \in Open /\ UNCHANGED job
                 /\ Keeps(w) /\ worker'[w].pc = "track" /\ worker'[w].seen = row
                 /\ worker'[w].out = worker[w].out
<1>1. CASE row.st \in {"completed", "cancelled", "waiting_approval"}
  BY <1>1, HandlerMoves, Outcome DEF Load, TypeOK
<1>2. CASE row.st = "failed"
  BY <1>2, HandlerMoves, Outcome DEF Load, TypeOK
<1>3. CASE row.st \in Open
  <2>1. Reads(w, "track", row) /\ UNCHANGED <<row, job>>
    BY <1>3 DEF Load, Open, Reads
  <2>2. "track" \in WorkerPcs
    BY DEF WorkerPcs
  <2>3. /\ Keeps(w) /\ worker'[w].pc = "track" /\ worker'[w].seen = row
        /\ worker'[w].out = worker[w].out
    BY <2>1, <2>2, HandlerMoves DEF TypeOK
  <2> QED
    BY <1>3, <2>1, <2>3
<1> QED
  BY <1>1, <1>2, <1>3 DEF Load, Open

\* A denied run fails in the memory of its handler alone.
LEMMA DenyMeans ==
    ASSUME TypeOK, NEW w \in Workers, Deny(w)
    PROVE  UNCHANGED <<row, job>> /\ Throws(w)
<1>1. Fails(w, "denied") /\ UNCHANGED <<row, job>>
  BY DEF Deny, Fails
<1> QED
  BY <1>1, HandlerMoves DEF TypeOK, Errors

\* An exceeded limit fails the run in the memory of its handler alone.
LEMMA TimeOutMeans ==
    ASSUME TypeOK, NEW w \in Workers, TimeOut(w)
    PROVE  UNCHANGED <<row, job>> /\ Throws(w)
BY HandlerMoves DEF TimeOut, TypeOK, Errors

\* A run found running is told from a new one; nothing is written.
LEMMA TrackMeans ==
    ASSUME TypeOK, NEW w \in Workers, Track(w)
    PROVE  /\ UNCHANGED <<row, job>>
           /\ \/ Stays(w, "interrupt") /\ worker[w].seen.st = "running"
              \/ Stays(w, "orch")
              \/ Throws(w)
<1>1. CASE Admits
  BY <1>1, HandlerMoves DEF Track, TypeOK, WorkerPcs
<1>2. CASE ~Admits
  <2>1. Fails(w, "busy") /\ UNCHANGED <<row, job>>
    BY <1>2 DEF Track, Fails
  <2> QED
    BY <2>1, HandlerMoves DEF TypeOK, Errors
<1> QED
  BY <1>1, <1>2

\* The nodes found running are failed over the record as it was read.
LEMMA InterruptMeans ==
    ASSUME TypeOK, NEW w \in Workers, Interrupt(w)
    PROVE  /\ Throws(w) /\ UNCHANGED job
           /\ \/ UNCHANGED row
              \/ LET r == worker[w].seen
                 IN  /\ row.st = "running"
                     /\ row' \in Row /\ row'.st = r.st /\ row'.ask = r.ask
                     /\ row'.answer = r.answer /\ row'.granted = r.granted /\ row'.job = r.job
                     /\ \A n \in Nodes : row'.node[n] = IF r.node[n] = "running" THEN "failed"
                                                        ELSE r.node[n]
<1> DEFINE r == worker[w].seen
           f == [n \in Nodes |-> IF r.node[n] = "running" THEN "failed" ELSE r.node[n]]
<1>1. r \in Row /\ f \in [Nodes -> NodeStatus]
  BY DEF TypeOK, Handler, Row, NodeStatus
<1>2. Throws(w) /\ UNCHANGED job
  BY HandlerMoves DEF Interrupt, TypeOK, Errors
<1>3. CASE row.st = "running"
  <2>1. row' = Mark(r, "interrupted", f)
    BY <1>3 DEF Interrupt, Expecting, Mark
  <2>2. "interrupted" \in Errors
    BY DEF Errors
  <2>3. row' \in Row /\ row'.st = r.st /\ row'.node = f /\ row'.ask = r.ask
        /\ row'.answer = r.answer /\ row'.granted = r.granted /\ row'.job = r.job
    BY <1>1, <2>1, <2>2, Marked
  <2> QED
    BY <1>2, <1>3, <2>3
<1>4. CASE row.st # "running"
  BY <1>2, <1>4 DEF Interrupt, Expecting
<1> QED
  BY <1>3, <1>4

\* The orchestration is started; the record stays.
LEMMA OrchestrateMeans ==
    ASSUME TypeOK, NEW w \in Workers, Orchestrate(w)
    PROVE  UNCHANGED <<row, job>> /\ Stays(w, "enter")
BY HandlerMoves DEF Orchestrate, TypeOK, WorkerPcs

\* The run is marked running, unless the record has moved on.
LEMMA EnterMeans ==
    ASSUME TypeOK, NEW w \in Workers, Enter(w)
    PROVE  /\ UNCHANGED job
           /\ \/ LET r == worker[w].seen
                 IN  /\ row.st = r.st /\ Stays(w, "look")
                     /\ row' \in Row /\ row'.st = "running" /\ row'.node = r.node /\ row'.ask = r.ask
                     /\ row'.answer = r.answer /\ row'.granted = r.granted /\ row'.job = r.job
              \/ row.st # worker[w].seen.st /\ UNCHANGED row /\ Throws(w)
<1> DEFINE r == worker[w].seen
<1>1. r \in Row /\ "running" \in RowStatus /\ "none" \in Errors
  BY DEF TypeOK, Handler, RowStatus, Errors
<1>2. CASE row.st = r.st
  <2>1. row' = Rewrite(r, "running", "none") /\ Goto(w, "look") /\ job' = job
    BY <1>2 DEF Enter, Expecting, Rewrite
  <2>2. Stays(w, "look")
    BY <2>1, HandlerMoves DEF TypeOK, WorkerPcs
  <2> QED
    BY <1>1, <1>2, <2>1, <2>2, Rewritten
<1>3. CASE row.st # r.st
  BY <1>3, HandlerMoves DEF Enter, Expecting, TypeOK, Errors
<1> QED
  BY <1>2, <1>3

\* What comes next is decided on a fresh read of the record.
LEMMA LookMeans ==
    ASSUME TypeOK, NEW w \in Workers, Look(w)
    PROVE  /\ UNCHANGED row
           /\ \/ UNCHANGED job /\ Throws(w)
              \/ UNCHANGED job /\ row.st = "cancelled" /\ Stays(w, "drop")
              \/ row.st # "cancelled" /\ row.answer = "pending" /\ Frees(w) /\ Finishes(w, TRUE)
              \/ /\ UNCHANGED job /\ row.st # "cancelled" /\ row.answer # "pending"
                 /\ Keeps(w) /\ worker'[w].seen = row
                 /\ worker'[w].pc # "save" => worker'[w].out = worker[w].out
                 /\ \/ worker'[w].pc = "close"
                    \/ /\ worker'[w].n \in Nodes /\ row.node[worker'[w].n] = "pending"
                       /\ \/ worker'[w].pc = "claim"
                          \/ /\ worker'[w].pc = "save"
                             /\ worker'[w].out = [row EXCEPT !.node[worker'[w].n] = "skipped"]
<1>1. CASE Aborted
  BY <1>1, HandlerMoves DEF Look, TypeOK, Errors
<1>2. CASE ~Aborted /\ row.st = "cancelled"
  BY <1>2, HandlerMoves DEF Look, TypeOK, WorkerPcs
<1>3. CASE ~Aborted /\ row.st # "cancelled" /\ row.answer = "pending"
  BY <1>3, HandlerMoves, Outcome DEF Look, Return, TypeOK
<1>4. CASE ~Aborted /\ row.st # "cancelled" /\ row.answer # "pending"
  <2>1. ASSUME NEW n \in Nodes, IsNext(row, n), UNCHANGED job,
               worker' = [worker EXCEPT ![w] =
                       IF Active(row, n)
                       THEN [@ EXCEPT !.pc = "claim", !.seen = row, !.n = n]
                       ELSE [@ EXCEPT !.pc = "save", !.seen = row, !.n = n,
                                      !.out = [row EXCEPT !.node[n] = "skipped"]]]
        PROVE  /\ UNCHANGED row
              /\ \/ UNCHANGED job /\ Throws(w)
                 \/ UNCHANGED job /\ row.st = "cancelled" /\ Stays(w, "drop")
                 \/ row.st # "cancelled" /\ row.answer = "pending" /\ Frees(w) /\ Finishes(w, TRUE)
                 \/ /\ UNCHANGED job /\ row.st # "cancelled" /\ row.answer # "pending"
                    /\ Keeps(w) /\ worker'[w].seen = row
                    /\ worker'[w].pc # "save" => worker'[w].out = worker[w].out
                    /\ \/ worker'[w].pc = "close"
                       \/ /\ worker'[w].n \in Nodes /\ row.node[worker'[w].n] = "pending"
                          /\ \/ worker'[w].pc = "claim"
                             \/ /\ worker'[w].pc = "save"
                                /\ worker'[w].out = [row EXCEPT !.node[worker'[w].n] = "skipped"]
    <3>1. row.node[n] = "pending"
      BY <2>1 DEF IsNext, Ready
    <3>2. CASE Active(row, n)
      <4>1. worker' = [worker EXCEPT ![w] = [@ EXCEPT !.pc = "claim", !.seen = row, !.n = n]]
        BY <2>1, <3>2
      <4>2. /\ Keeps(w) /\ worker'[w].seen = row /\ worker'[w].n = n /\ worker'[w].pc = "claim"
            /\ worker'[w].out = worker[w].out
        BY <4>1 DEF TypeOK, Handler, WorkerPcs, Keeps, Others
      <4> QED
        BY <1>4, <2>1, <3>1, <4>2 DEF Look
    <3>3. CASE ~Active(row, n)
      <4> DEFINE q == [row EXCEPT !.node[n] = "skipped"]
      <4>1. worker' = [worker EXCEPT ![w] = [@ EXCEPT !.pc = "save", !.seen = row, !.n = n, !.out = q]]
        BY <2>1, <3>3
      <4>2. q \in Row
        BY NodeOutcomes DEF TypeOK, NodeStatus
      <4> HIDE DEF q
      <4>3. Keeps(w) /\ worker'[w].seen = row /\ worker'[w].n = n /\ worker'[w].pc = "save"
            /\ worker'[w].out = q
        BY <4>1, <4>2 DEF TypeOK, Handler, WorkerPcs, Keeps, Others
      <4> USE DEF q
      <4> QED
        BY <1>4, <2>1, <3>1, <4>3 DEF Look
    <3> QED
      BY <3>2, <3>3
  <2>2. CASE Reads(w, "close", row) /\ UNCHANGED job
    <3>1. /\ Keeps(w) /\ worker'[w].pc = "close" /\ worker'[w].seen = row
          /\ worker'[w].out = worker[w].out
      BY <2>2, HandlerMoves DEF TypeOK, WorkerPcs
    <3> QED
      BY <1>4, <2>2, <3>1 DEF Look
  <2>3. CASE Throw(w, "stuck") /\ UNCHANGED job
    BY <2>3, HandlerMoves DEF Look, TypeOK, Errors
  <2> QED
    BY <1>4, <2>1, <2>2, <2>3 DEF Look, Reads
<1> QED
  BY <1>1, <1>2, <1>3, <1>4

\* A node is marked running over the record as it was read.
LEMMA ClaimMeans ==
    ASSUME TypeOK, NEW w \in Workers, Claim(w)
    PROVE  /\ UNCHANGED job
           /\ \/ LET q == [worker[w].seen EXCEPT !.node[worker[w].n] = "running"]
                 IN  /\ row.st = worker[w].seen.st
                     /\ Keeps(w) /\ worker'[w].pc = "act" /\ worker'[w].out = q
                     /\ worker'[w].seen = worker[w].seen /\ worker'[w].n = worker[w].n
                     /\ q \in Row /\ row' \in Row
                     /\ row'.st = "running" /\ row'.ask = q.ask /\ Agrees(row', q)
              \/ UNCHANGED row /\ Throws(w)
<1> DEFINE q == [worker[w].seen EXCEPT !.node[worker[w].n] = "running"]
<1>1. q \in Row /\ worker[w].seen \in Row
  BY NodeOutcomes DEF TypeOK, Handler, NodeStatus
<1>2. q.st = worker[w].seen.st
  BY <1>1 DEF Row
<1>3. CASE ~Aborted /\ row.st = worker[w].seen.st
  <2>1. /\ row' = Rewrite(q, "running", "none") /\ job' = job
        /\ Plans(w, "act", q)
    BY <1>2, <1>3 DEF Claim, Expecting, Plans, Rewrite
  <2>2. "running" \in RowStatus /\ "none" \in Errors
    BY DEF RowStatus, Errors
  <2> HIDE DEF q
  <2>4. row' \in Row /\ row'.st = "running" /\ row'.ask = q.ask /\ Agrees(row', q)
    BY <1>1, <2>1, <2>2, Rewritten DEF Agrees
  <2>3. Keeps(w) /\ worker'[w].pc = "act" /\ worker'[w].out = q
        /\ worker'[w].seen = worker[w].seen /\ worker'[w].n = worker[w].n
    BY <1>1, <2>1, HandlerMoves DEF TypeOK, WorkerPcs
  <2> USE DEF q
  <2> QED
    BY <1>1, <1>3, <2>1, <2>3, <2>4
<1>4. CASE ~(~Aborted /\ row.st = worker[w].seen.st)
  <2>1. Throw(w, IF Aborted THEN "aborted" ELSE "stale") /\ UNCHANGED <<row, job>>
    BY <1>2, <1>4 DEF Claim, Expecting
  <2>2. (IF Aborted THEN "aborted" ELSE "stale") \in Errors
    BY DEF Errors
  <2> QED
    BY <2>1, <2>2, HandlerMoves DEF TypeOK
<1> QED
  BY <1>3, <1>4

\* A node ends, asks, or starts an effect, a guarded one only if granted.
LEMMA ActMeans ==
    ASSUME TypeOK, NEW w \in Workers, Act(w)
    PROVE  /\ UNCHANGED <<row, job>>
           /\ \/ UNCHANGED effects /\ EndsNode(w)
              \/ /\ UNCHANGED effects /\ Keeps(w) /\ worker'[w].pc = "save"
                 /\ worker'[w].seen = worker[w].seen /\ worker'[w].n = worker[w].n
                 /\ worker'[w].out = NodeAsks(worker[w].out, worker[w].n)
                 /\ Kind[worker[w].n] = "tool" =>
                       worker[w].n \in Guarded /\ worker[w].n \notin worker[w].out.granted
              \/ /\ Stays(w, "effect")
                 /\ effects' = [effects EXCEPT ![worker[w].n] = IF @ = 2 THEN 2 ELSE @ + 1]
                 /\ worker[w].n \in Guarded => worker[w].n \in worker[w].out.granted
<1> DEFINE n == worker[w].n
           r == worker[w].out
<1>1. r \in Row /\ n \in Nodes \cup {0}
  BY DEF TypeOK, Handler
<1>2. /\ \A p \in SUBSET Ports : NodeDone(r, n, p) \in Row
      /\ NodeFailed(r, n) \in Row /\ NodeAsks(r, n) \in Row
  BY <1>1, NodeOutcomes
<1>3. ASSUME NEW p \in SUBSET Ports, Yields(w, NodeDone(r, n, p))
      PROVE  EndsNode(w)
  <2>1. NodeDone(r, n, p) \in Row
    BY <1>2
  <2>2. /\ Keeps(w) /\ worker'[w].pc = "save" /\ worker'[w].out = NodeDone(r, n, p)
        /\ worker'[w].seen = worker[w].seen /\ worker'[w].n = worker[w].n
    BY <1>3, <2>1, HandlerMoves DEF TypeOK
  <2> QED
    BY <2>2 DEF EndsNode
<1>4. Trouble(w) => EndsNode(w)
  BY HandlerMoves DEF TypeOK, EndsNode
<1>5. CASE Kind[n] \in {"plain", "branch"}
  <2>1. \/ \E p \in Choices(n) : Yields(w, NodeDone(r, n, {p})) /\ UNCHANGED effects
        \/ Trouble(w) /\ UNCHANGED effects
    BY <1>5 DEF Act, MayStart
  <2>2. \A p \in Choices(n) : {p} \in SUBSET Ports
    BY PortsOfNode
  <2> QED
    BY <1>3, <1>4, <2>1, <2>2 DEF Act
<1>6. CASE Kind[n] = "approval"
  <2>1. /\ UNCHANGED effects
        /\ Yields(w, IF r.ask = n /\ r.answer \in {"approved", "rejected"}
                     THEN NodeDone(r, n, {r.answer}) ELSE NodeAsks(r, n))
    BY <1>6 DEF Act, MayStart
  <2>2. CASE r.ask = n /\ r.answer \in {"approved", "rejected"}
    <3>1. {r.answer} \in SUBSET Ports /\ Yields(w, NodeDone(r, n, {r.answer}))
      BY <2>1, <2>2, PortsOfNode
    <3> QED
      BY <1>3, <2>1, <3>1 DEF Act
  <2>3. CASE ~(r.ask = n /\ r.answer \in {"approved", "rejected"})
    BY <1>2, <1>6, <2>1, <2>3, HandlerMoves DEF Act, TypeOK
  <2> QED
    BY <2>2, <2>3
<1>7. CASE Kind[n] \in {"tool", "agent"} /\ ~MayStart(w)
  <2>1. CASE Kind[n] = "tool"
    <3>1. Yields(w, NodeAsks(r, n)) /\ UNCHANGED effects
      BY <1>7, <2>1 DEF Act
    <3>2. n \in Guarded /\ n \notin r.granted
      BY <1>7, <2>1 DEF MayStart
    <3> QED
      BY <1>2, <3>1, <3>2, HandlerMoves DEF Act, TypeOK
  <2>2. CASE Kind[n] = "agent"
    BY <1>4, <1>7, <2>2 DEF Act
  <2> QED
    BY <1>7, <2>1, <2>2
<1>8. CASE MayStart(w)
  <2>1. /\ effects' = [effects EXCEPT ![n] = IF @ = 2 THEN 2 ELSE @ + 1]
        /\ Goto(w, "effect")
    BY <1>8 DEF Act, MayStart
  <2>2. n \in Guarded => n \in r.granted
    BY <1>8, GraphAssumption DEF MayStart
  <2> QED
    BY <2>1, <2>2, HandlerMoves DEF Act, TypeOK, WorkerPcs
<1>9. MayStart(w) \/ Kind[n] \in {"plain", "branch", "approval", "tool", "agent"}
  BY DEF Act
<1> QED
  BY <1>5, <1>6, <1>7, <1>8, <1>9

\* What became of an effect is kept in the memory of the handler.
LEMMA EffectMeans ==
    ASSUME TypeOK, NEW w \in Workers, Effect(w)
    PROVE  UNCHANGED <<row, job>> /\ EndsNode(w)
<1>1. CASE Trouble(w)
  BY <1>1, HandlerMoves DEF Effect, TypeOK, EndsNode
<1>2. CASE Yields(w, NodeDone(worker[w].out, worker[w].n, SuccessPorts(worker[w].n)))
  <2>1. worker[w].out \in Row /\ worker[w].n \in Nodes \cup {0}
    BY DEF TypeOK, Handler
  <2>2. NodeDone(worker[w].out, worker[w].n, SuccessPorts(worker[w].n)) \in Row
    BY <2>1, NodeOutcomes, PortsOfNode
  <2> QED
    BY <1>2, <2>2, HandlerMoves, PortsOfNode DEF Effect, TypeOK, EndsNode
<1> QED
  BY <1>1, <1>2 DEF Effect

\* What a node came to is written, unless the record has moved on.
LEMMA SaveMeans ==
    ASSUME TypeOK, NEW w \in Workers, Save(w)
    PROVE  /\ UNCHANGED job
           /\ \/ LET r == worker[w].out
                     paused == r.node[worker[w].n] = "waiting"
                 IN  /\ row.st = worker[w].seen.st
                     /\ Stays(w, IF paused THEN "pause" ELSE "look")
                     /\ row' \in Row /\ row'.st = (IF paused THEN "waiting_approval" ELSE "running")
                     /\ row'.node = r.node /\ row'.ask = r.ask
                     /\ row'.answer = r.answer /\ row'.granted = r.granted /\ row'.job = r.job
              \/ UNCHANGED row /\ Throws(w)
<1> DEFINE r == worker[w].out
           st == IF r.node[worker[w].n] = "waiting" THEN "waiting_approval" ELSE "running"
           pc == IF r.node[worker[w].n] = "waiting" THEN "pause" ELSE "look"
<1>1. r \in Row /\ "none" \in Errors /\ st \in RowStatus /\ pc \in WorkerPcs
  BY DEF TypeOK, Handler, RowStatus, Errors, WorkerPcs
<1>2. CASE row.st = worker[w].seen.st
  <2>1. row' = Rewrite(r, st, "none") /\ Goto(w, pc) /\ job' = job
    BY <1>2 DEF Save, Expecting, Rewrite
  <2> HIDE DEF st, pc
  <2>3. Stays(w, pc)
    BY <1>1, <2>1, HandlerMoves DEF TypeOK
  <2>4. /\ row' \in Row /\ row'.st = st /\ row'.node = r.node /\ row'.ask = r.ask
        /\ row'.answer = r.answer /\ row'.granted = r.granted /\ row'.job = r.job
    BY <1>1, <2>1, Rewritten
  <2> USE DEF st, pc
  <2> QED
    BY <1>2, <2>1, <2>3, <2>4
<1>3. CASE row.st # worker[w].seen.st
  BY <1>3, HandlerMoves DEF Save, Expecting, TypeOK, Errors
<1> QED
  BY <1>2, <1>3

\* A paused handler lets the job go; the record stays.
LEMMA PauseMeans ==
    ASSUME TypeOK, NEW w \in Workers, Pause(w)
    PROVE  UNCHANGED row /\ Frees(w) /\ Finishes(w, TRUE)
BY HandlerMoves, Outcome DEF Pause, Return, TypeOK

\* A cancelled run lets the job go; the record stays.
LEMMA DropMeans ==
    ASSUME TypeOK, NEW w \in Workers, Drop(w)
    PROVE  UNCHANGED row /\ Frees(w) /\ Finishes(w, TRUE)
BY HandlerMoves, Outcome DEF Drop, Return, TypeOK

\* A failed node fails the run, unless the record has moved on.
LEMMA BuryMeans ==
    ASSUME TypeOK, NEW w \in Workers, Bury(w)
    PROVE  /\ UNCHANGED job /\ Throws(w)
           /\ \/ /\ row.st = worker[w].seen.st /\ row' \in Row /\ row'.st = "failed"
                 /\ row'.job = worker[w].out.job /\ row'.granted = worker[w].out.granted
                 /\ row'.node = worker[w].out.node
              \/ UNCHANGED row
<1>1. worker[w].out \in Row /\ "failed" \in RowStatus /\ "node" \in Errors
  BY DEF TypeOK, Handler, RowStatus, Errors
<1>2. UNCHANGED job /\ Throws(w)
  BY HandlerMoves DEF Bury, TypeOK, Errors
<1>3. CASE row.st = worker[w].seen.st
  <2>1. row' = Rewrite(worker[w].out, "failed", "node")
    BY <1>3 DEF Bury, Expecting, Rewrite
  <2> QED
    BY <1>1, <1>2, <1>3, <2>1, Rewritten
<1>4. CASE row.st # worker[w].seen.st
  BY <1>2, <1>4 DEF Bury, Expecting
<1> QED
  BY <1>3, <1>4

\* The orchestration is closed; the record stays.
LEMMA CloseMeans ==
    ASSUME TypeOK, NEW w \in Workers, Close(w)
    PROVE  UNCHANGED <<row, job>> /\ Stays(w, "complete")
BY HandlerMoves DEF Close, TypeOK, WorkerPcs

\* The record is completed, unless it has moved on.
LEMMA CompleteMeans ==
    ASSUME TypeOK, NEW w \in Workers, Complete(w)
    PROVE  \/ /\ row.st = worker[w].seen.st /\ Frees(w) /\ Finishes(w, TRUE)
              /\ row' \in Row /\ row'.st = "completed" /\ row'.answer = "none"
              /\ row'.node = worker[w].seen.node /\ row'.granted = worker[w].seen.granted
              /\ row'.job = worker[w].seen.job
           \/ UNCHANGED <<row, job>> /\ Throws(w)
<1>1. worker[w].seen \in Row /\ "completed" \in RowStatus
  BY DEF TypeOK, Handler, RowStatus
<1>2. CASE row.st = worker[w].seen.st
  <2>1. row' = Settle(worker[w].seen, "completed")
    BY <1>2 DEF Complete, Expecting, Settle
  <2>2. Frees(w) /\ Finishes(w, TRUE)
    BY <1>2, HandlerMoves, Outcome DEF Complete, Expecting, Return, TypeOK
  <2> QED
    BY <1>1, <1>2, <2>1, <2>2, Settles
<1>3. CASE row.st # worker[w].seen.st
  BY <1>3, HandlerMoves DEF Complete, Expecting, TypeOK, Errors
<1> QED
  BY <1>2, <1>3

\* A run that was completed or cancelled keeps its end; any other is to fail.
LEMMA FailMeans ==
    ASSUME TypeOK, NEW w \in Workers, Fail(w)
    PROVE  /\ UNCHANGED row
           /\ \/ row.st \in {"completed", "cancelled"} /\ Frees(w) /\ Finishes(w, FALSE)
              \/ /\ row.st \notin {"completed", "cancelled"} /\ UNCHANGED job
                 /\ Keeps(w) /\ worker'[w].pc = "failorch" /\ worker'[w].seen = row
                 /\ worker'[w].out = worker[w].out
<1>1. CASE row.st \in {"completed", "cancelled"}
  BY <1>1, HandlerMoves, Outcome DEF Fail, TypeOK
<1>2. CASE row.st \notin {"completed", "cancelled"}
  <2>1. Reads(w, "failorch", row)
    BY <1>2 DEF Fail, Reads
  <2> QED
    BY <1>2, <2>1, HandlerMoves DEF Fail, TypeOK, WorkerPcs
<1> QED
  BY <1>1, <1>2

\* The orchestration fails; the record stays.
LEMMA FailOrchestrationMeans ==
    ASSUME TypeOK, NEW w \in Workers, FailOrchestration(w)
    PROVE  UNCHANGED <<row, job>> /\ Stays(w, "failrow")
BY HandlerMoves DEF FailOrchestration, TypeOK, WorkerPcs

\* The record fails, unless it has moved on.
LEMMA FailRowMeans ==
    ASSUME TypeOK, NEW w \in Workers, FailRow(w)
    PROVE  /\ Frees(w) /\ Finishes(w, FALSE)
           /\ \/ /\ row.st = worker[w].seen.st /\ row' \in Row /\ row'.st = "failed"
                 /\ row'.job = worker[w].seen.job /\ row'.granted = worker[w].seen.granted
                 /\ row'.node = worker[w].seen.node
                 /\ undone' = undone \cup Stale(worker[w].seen)
              \/ row.st # worker[w].seen.st /\ UNCHANGED <<row, undone>>
<1>1. worker[w].seen \in Row /\ "failed" \in RowStatus /\ worker[w].err \in Errors
  BY DEF TypeOK, Handler, RowStatus
<1>2. Frees(w) /\ Finishes(w, FALSE)
  BY HandlerMoves, Outcome DEF FailRow, TypeOK
<1>3. CASE row.st = worker[w].seen.st
  <2>1. /\ row' = Rewrite(worker[w].seen, "failed", worker[w].err)
        /\ undone' = undone \cup Stale(worker[w].seen)
    BY <1>3 DEF FailRow, Expecting, Rewrite
  <2> QED
    BY <1>1, <1>2, <1>3, <2>1, Rewritten
<1>4. CASE row.st # worker[w].seen.st
  BY <1>2, <1>4 DEF FailRow, Expecting
<1> QED
  BY <1>3, <1>4

\* An idle handler takes the delivery of a job that is due.
LEMMA DeliverMeans ==
    ASSUME TypeOK, NEW w \in Workers, NEW j \in JobIds, Deliver(w, j)
    PROVE  /\ UNCHANGED row /\ \A v \in Workers : ~worker[v].live
           /\ Others(w) /\ worker'[w].pc = "load" /\ worker'[w].job = j /\ worker'[w].live
           /\ job[j].st \in {"created", "retry"}
           /\ job' \in [JobIds -> Job] /\ job'[j].st = "active" /\ job'[j].tries = job[j].tries
           /\ \A k \in JobIds \ {j} : job'[k] = job[k]
<1> DEFINE x == [IdleWorker EXCEPT !.pc = "load", !.job = j, !.live = TRUE]
<1>1. x \in Handler /\ x.pc = "load" /\ x.job = j /\ x.live
  BY Resting DEF Handler, WorkerPcs
<1>2. worker' = [worker EXCEPT ![w] = x]
  BY DEF Deliver
<1> HIDE DEF x
<1>3. Others(w) /\ worker'[w].pc = "load" /\ worker'[w].job = j /\ worker'[w].live
  BY <1>1, <1>2 DEF Others, TypeOK
<1>4. /\ job' \in [JobIds -> Job] /\ job'[j].st = "active" /\ job'[j].tries = job[j].tries
      /\ \A k \in JobIds \ {j} : job'[k] = job[k]
  BY DEF Deliver, TypeOK, Job
<1> QED
  BY <1>3, <1>4 DEF Deliver

-----------------------------------------------------------------------------
(* What each step of a request means for the record, its job and itself. *)

OtherRequests(c) == /\ client' \in [Clients -> Request]
                    /\ \A d \in Clients \ {c} : client'[d] = client[d]
Advances(c, pc) == /\ OtherRequests(c) /\ client'[c].pc = pc
                   /\ client'[c].seen = client[c].seen /\ client'[c].answer = client[c].answer
Leaves(c) == OtherRequests(c) /\ client'[c].pc = "idle"
Moves(c, pc) == client' = [client EXCEPT ![c].pc = pc]
Sends(c, r) == client' = [client EXCEPT ![c] = [IdleClient EXCEPT !.pc = "send", !.seen = r]]

\* The ways in which a request goes on.
LEMMA RequestMoves ==
    ASSUME client \in [Clients -> Request], NEW c \in Clients
    PROVE  /\ Leave(c) => Leaves(c)
           /\ \A pc \in ClientPcs : Moves(c, pc) => Advances(c, pc)
           /\ \A r \in Row : Sends(c, r) =>
                 OtherRequests(c) /\ client'[c].pc = "send" /\ client'[c].seen = r
           /\ \A pc \in ClientPcs, a \in {"none", "approved", "rejected"} :
                 row \in Row /\ Asks(c, pc, a) =>
                    OtherRequests(c) /\ client'[c] = [pc |-> pc, seen |-> row, answer |-> a]
<1> USE DEF OtherRequests
<1>1. Leave(c) => Leaves(c)
  BY Resting DEF Leave, Leaves
<1>2. ASSUME NEW pc \in ClientPcs, Moves(c, pc)
      PROVE  Advances(c, pc)
  BY <1>2 DEF Moves, Advances, Request
<1>3. ASSUME NEW r \in Row, Sends(c, r)
      PROVE  OtherRequests(c) /\ client'[c].pc = "send" /\ client'[c].seen = r
  <2> DEFINE q == [IdleClient EXCEPT !.pc = "send", !.seen = r]
  <2>1. q \in Request /\ q.pc = "send" /\ q.seen = r
    BY Resting DEF Request, ClientPcs
  <2>2. client' = [client EXCEPT ![c] = q]
    BY <1>3 DEF Sends
  <2> HIDE DEF q
  <2> QED
    BY <2>1, <2>2
<1>4. ASSUME NEW pc \in ClientPcs, NEW a \in {"none", "approved", "rejected"},
             row \in Row, Asks(c, pc, a)
      PROVE  OtherRequests(c) /\ client'[c] = [pc |-> pc, seen |-> row, answer |-> a]
  BY <1>4 DEF Asks, Request
<1> QED
  BY <1>1, <1>2, <1>3, <1>4

\* Sending creates the job if there is none yet, and changes no other.
Creates(c) ==
    /\ job' \in [JobIds -> Job]
    /\ \A k \in JobIds : \/ job'[k] = job[k]
                         \/ /\ k = client[c].seen.job /\ job[k].st = "none"
                            /\ job'[k].st = "created" /\ job'[k].tries = job[k].tries

\* A job may be created; the record stays.
LEMMA SendMeans ==
    ASSUME TypeOK, NEW c \in Clients, Send(c)
    PROVE  UNCHANGED row /\ Creates(c) /\ OtherRequests(c) /\ client'[c].pc \in {"idle", "unsent"}
<1> DEFINE j == client[c].seen.job
<1>1. CASE job[j].st \in {"none", "created", "active", "retry"}
  <2>1. job' = [job EXCEPT ![j].st = IF @ = "none" THEN "created" ELSE @] /\ Leave(c) /\ UNCHANGED row
    BY <1>1 DEF Send
  <2>2. Creates(c)
    BY <2>1 DEF Creates, TypeOK, Job
  <2> QED
    BY <2>1, <2>2, RequestMoves DEF TypeOK, Leaves
<1>2. CASE job[j].st \notin {"none", "created", "active", "retry"}
  <2>1. Moves(c, "unsent") /\ UNCHANGED <<row, job>>
    BY <1>2 DEF Send, Moves
  <2>2. Advances(c, "unsent")
    BY <2>1, RequestMoves DEF TypeOK, ClientPcs
  <2> QED
    BY <2>1, <2>2 DEF Advances, Creates, TypeOK
<1> QED
  BY <1>1, <1>2

\* A send that fails may still have created the job; the record stays.
LEMMA SendErrorMeans ==
    ASSUME TypeOK, NEW c \in Clients, SendError(c)
    PROVE  UNCHANGED row /\ Creates(c) /\ OtherRequests(c) /\ client'[c].pc \in {"idle", "unsent"}
<1>1. Moves(c, "unsent") /\ UNCHANGED row
  BY DEF SendError, Moves
<1>2. Advances(c, "unsent")
  BY <1>1, RequestMoves DEF TypeOK, ClientPcs
<1>3. Creates(c)
  BY DEF SendError, Creates, TypeOK, Job
<1> QED
  BY <1>1, <1>2, <1>3 DEF Advances

\* A failed send ends the request, or leaves the run to be given up.
LEMMA UnsentMeans ==
    ASSUME TypeOK, NEW c \in Clients, Unsent(c)
    PROVE  UNCHANGED <<row, job>> /\ OtherRequests(c) /\ client'[c].pc \in {"idle", "giveup"}
<1>1. UNCHANGED <<row, job>> /\ (Moves(c, "giveup") \/ Leave(c))
  BY DEF Unsent, Moves
<1> QED
  BY <1>1, RequestMoves DEF TypeOK, ClientPcs, Advances, Leaves

\* A run that is still queued fails.
LEMMA GiveUpMeans ==
    ASSUME TypeOK, NEW c \in Clients, GiveUp(c)
    PROVE  /\ UNCHANGED job /\ Leaves(c)
           /\ \/ UNCHANGED row
              \/ /\ row.st = "queued" /\ row' \in Row /\ row'.st = "failed"
                 /\ row'.job = row.job /\ row'.granted = row.granted /\ row'.node = row.node
<1>1. UNCHANGED job /\ Leaves(c)
  BY RequestMoves DEF GiveUp, TypeOK
<1>2. CASE row.st = "queued"
  <2>1. row' = Rewrite(row, "failed", "dispatch")
    BY <1>2 DEF GiveUp, Expecting, Rewrite
  <2>2. "failed" \in RowStatus /\ "dispatch" \in Errors
    BY DEF RowStatus, Errors
  <2> QED
    BY <1>1, <1>2, <2>1, <2>2, Rewritten DEF TypeOK
<1>3. CASE row.st # "queued"
  BY <1>1, <1>3 DEF GiveUp, Expecting
<1> QED
  BY <1>2, <1>3

\* The job of a cancelled run is cancelled; the record stays.
LEMMA CancelJobMeans ==
    ASSUME TypeOK, NEW c \in Clients, CancelJob(c)
    PROVE  /\ UNCHANGED row /\ Advances(c, "quit") /\ job' \in [JobIds -> Job]
           /\ \A k \in JobIds : \/ job'[k] = job[k]
                                \/ /\ job[k].st # "none" /\ job'[k].st = "cancelled"
                                   /\ job'[k].tries = job[k].tries
<1>1. Moves(c, "quit") /\ UNCHANGED row
  BY DEF CancelJob, Moves
<1>2. Advances(c, "quit")
  BY <1>1, RequestMoves DEF TypeOK, ClientPcs
<1> QED
  BY <1>1, <1>2 DEF CancelJob, TypeOK, Job

\* The orchestration is cancelled; the record stays.
LEMMA CancelOrchestrationMeans ==
    ASSUME TypeOK, NEW c \in Clients, CancelOrchestration(c)
    PROVE  UNCHANGED <<row, job>> /\ Advances(c, "cancelrow")
<1>1. Moves(c, "cancelrow") /\ UNCHANGED <<row, job>>
  BY DEF CancelOrchestration, Moves
<1> QED
  BY <1>1, RequestMoves DEF TypeOK, ClientPcs

\* The record is cancelled with its open nodes, unless it has moved on.
LEMMA CancelRowMeans ==
    ASSUME TypeOK, NEW c \in Clients, CancelRow(c)
    PROVE  /\ UNCHANGED job
           /\ \/ UNCHANGED row /\ Leaves(c)
              \/ LET r == client[c].seen
                 IN  /\ row.st = r.st /\ OtherRequests(c) /\ client'[c].pc = "abort"
                     /\ row' \in Row /\ row'.st = "cancelled" /\ row'.answer = "none"
                     /\ row'.granted = r.granted /\ row'.job = r.job
                     /\ \A n \in Nodes : row'.node[n] = IF r.node[n] \in Settled THEN r.node[n]
                                                        ELSE "cancelled"
<1> DEFINE r == client[c].seen
           f == [n \in Nodes |-> IF r.node[n] \in Settled THEN r.node[n] ELSE "cancelled"]
<1>1. CASE row.st = r.st
  <2>1. row' = Resettle(r, "cancelled", f) /\ Moves(c, "abort") /\ UNCHANGED job
    BY <1>1 DEF CancelRow, Expecting, Resettle, Moves
  <2>2. r \in Row /\ "cancelled" \in RowStatus /\ f \in [Nodes -> NodeStatus]
    BY DEF TypeOK, Request, Row, RowStatus, NodeStatus
  <2>3. row' \in Row /\ row'.st = "cancelled" /\ row'.answer = "none"
        /\ row'.node = f /\ row'.granted = r.granted /\ row'.job = r.job
    BY <2>1, <2>2, Resettled
  <2>4. Advances(c, "abort")
    BY <2>1, RequestMoves DEF TypeOK, ClientPcs
  <2> QED
    BY <1>1, <2>1, <2>3, <2>4 DEF Advances
<1>2. CASE row.st # r.st
  BY <1>2, RequestMoves DEF CancelRow, Expecting, TypeOK
<1> QED
  BY <1>1, <1>2

\* The task of the run is aborted; the record stays.
LEMMA AbortTaskMeans ==
    ASSUME TypeOK, NEW c \in Clients, AbortTask(c)
    PROVE  UNCHANGED <<row, job>> /\ Leaves(c)
BY RequestMoves DEF AbortTask, TypeOK

\* An answer settles the node that asked, of a run that still waits.
LEMMA DecideMeans ==
    ASSUME TypeOK, \A d \in Clients : RequestInStep(d), NEW c \in Clients, Decide(c)
    PROVE  /\ UNCHANGED job
           /\ LET r == client[c].seen
                  a == client[c].answer
                  rejects == Kind[r.ask] = "tool" /\ a = "rejected"
              IN  \/ /\ row.st # "waiting_approval"
                     /\ UNCHANGED <<row, sent, decisions, undone>> /\ Leaves(c)
                  \/ /\ row.st = "waiting_approval"
                     /\ decisions' = [decisions EXCEPT ![r.ask] = @ \cup {a}]
                     /\ undone' = undone \cup Stale(r) /\ row' \in Row
                     /\ row'.node = [r.node EXCEPT ![r.ask] = IF rejects THEN "failed" ELSE "pending"]
                     /\ row'.granted = IF Kind[r.ask] = "tool" /\ a = "approved"
                                       THEN r.granted \cup {r.ask} ELSE r.granted
                     /\ \/ /\ row'.st = "queued" /\ row'.answer # "pending" /\ row'.job = sent + 1
                           /\ sent < MaxJobs /\ sent' = sent + 1
                           /\ OtherRequests(c) /\ client'[c].pc = "send" /\ client'[c].seen = row'
                        \/ /\ row'.st = "failed" /\ row'.job = r.job
                           /\ UNCHANGED sent /\ Leaves(c)
<1> DEFINE r == client[c].seen
           a == client[c].answer
           q == Decided(r, a)
<1>1. r \in Row /\ a \in {"approved", "rejected"} /\ r.ask \in Nodes /\ r.answer = "pending"
  BY DEF TypeOK, Request, RequestInStep, Decide
<1>2. /\ q \in Row /\ q.job = r.job /\ q.answer # "pending"
      /\ q.node = [r.node EXCEPT ![r.ask] = IF Kind[r.ask] = "tool" /\ a = "rejected"
                                            THEN "failed" ELSE "pending"]
      /\ q.granted = IF Kind[r.ask] = "tool" /\ a = "approved"
                     THEN r.granted \cup {r.ask} ELSE r.granted
  BY <1>1, DecidedFields
<1> HIDE DEF q
<1>3. CASE row.st # "waiting_approval"
  BY <1>3, RequestMoves DEF Decide, Expecting, TypeOK
<1>4. CASE row.st = "waiting_approval"
  <2>1. /\ decisions' = [decisions EXCEPT ![r.ask] = @ \cup {a}] /\ UNCHANGED job
        /\ undone' = undone \cup Stale(r)
        /\ \/ /\ sent < MaxJobs /\ sent' = sent + 1
              /\ row' = Requeue(q, sent + 1) /\ Sends(c, row')
           \/ row' = Rewrite(q, "failed", "rejected") /\ Leave(c) /\ UNCHANGED sent
    BY <1>4 DEF Decide, Expecting, Requeue, Rewrite, Sends, q
  <2>2. CASE /\ sent < MaxJobs /\ sent' = sent + 1
             /\ row' = Requeue(q, sent + 1) /\ Sends(c, row')
    <3>1. sent + 1 \in JobIds
      BY <2>2, GraphAssumption DEF TypeOK, JobIds
    <3>2. row' \in Row /\ row'.st = "queued" /\ row'.job = sent + 1 /\ row'.node = q.node
          /\ row'.answer = q.answer /\ row'.granted = q.granted
      BY <1>2, <2>2, <3>1, Requeued
    <3>3. OtherRequests(c) /\ client'[c].pc = "send" /\ client'[c].seen = row'
      BY <2>2, <3>2, RequestMoves DEF TypeOK
    <3> QED
      BY <1>2, <1>4, <2>1, <2>2, <3>2, <3>3
  <2>3. CASE row' = Rewrite(q, "failed", "rejected") /\ Leave(c) /\ UNCHANGED sent
    <3>1. "failed" \in RowStatus /\ "rejected" \in Errors
      BY DEF RowStatus, Errors
    <3>2. row' \in Row /\ row'.st = "failed" /\ row'.job = q.job /\ row'.node = q.node
          /\ row'.granted = q.granted
      BY <1>2, <2>3, <3>1, Rewritten
    <3>3. Leaves(c)
      BY <2>3, RequestMoves DEF TypeOK
    <3> QED
      BY <1>2, <1>4, <2>1, <2>3, <3>2, <3>3
  <2> QED
    BY <2>1, <2>2, <2>3
<1> QED
  BY <1>3, <1>4

\* A run is recorded once, queued and without an answer.
LEMMA StartMeans ==
    ASSUME TypeOK, NEW c \in Devices, Start(c)
    PROVE  /\ UNCHANGED job /\ row.st = "none" /\ sent' = 1 /\ 1 \in JobIds
           /\ row' \in Row /\ row'.st = "queued" /\ row'.job = 1 /\ row'.answer = "none"
           /\ row'.granted = {} /\ row'.node = [n \in Nodes |-> "pending"]
           /\ OtherRequests(c) /\ client'[c].seen = row' /\ client'[c].pc = "send"
<1>1. 1 \in JobIds
  BY GraphAssumption DEF JobIds
<1>2. row' = Requeue(NoRow, 1) /\ Sends(c, row')
  BY DEF Start, Requeue, Sends
<1>3. row' \in Row /\ row'.st = "queued" /\ row'.job = 1 /\ row'.node = NoRow.node
      /\ row'.answer = NoRow.answer /\ row'.granted = NoRow.granted
  BY <1>1, <1>2, Requeued, Resting
<1>4. OtherRequests(c) /\ client'[c].pc = "send" /\ client'[c].seen = row'
  BY <1>2, <1>3, RequestMoves DEF TypeOK, Clients
<1> QED
  BY <1>1, <1>3, <1>4 DEF Start, NoRow

\* A cancellation goes on only from a run that is not over.
LEMMA AskCancelMeans ==
    ASSUME TypeOK, NEW c \in Devices, AskCancel(c)
    PROVE  /\ UNCHANGED <<row, job>> /\ row.st \in {"queued", "running", "waiting_approval"}
           /\ OtherRequests(c) /\ client'[c].pc = "unqueue" /\ client'[c].seen = row
<1>1. Asks(c, "unqueue", "none") /\ row \in Row /\ c \in Clients /\ "unqueue" \in ClientPcs
  BY DEF AskCancel, TypeOK, Clients, ClientPcs
<1>2. OtherRequests(c) /\ client'[c] = [pc |-> "unqueue", seen |-> row, answer |-> "none"]
  BY <1>1, RequestMoves DEF TypeOK
<1> QED
  BY <1>2 DEF AskCancel

\* An answer goes on only to a run that asks.
LEMMA AskAnswerMeans ==
    ASSUME TypeOK, NEW c \in Devices, NEW a \in {"approved", "rejected"}, AskAnswer(c, a)
    PROVE  /\ UNCHANGED <<row, job>> /\ row.st = "waiting_approval" /\ row.answer = "pending"
           /\ OtherRequests(c) /\ client'[c].pc = "decide" /\ client'[c].seen = row
           /\ client'[c].answer = a
<1>1. Asks(c, "decide", a) /\ row \in Row /\ c \in Clients /\ "decide" \in ClientPcs
  BY DEF AskAnswer, TypeOK, Clients, ClientPcs
<1>2. a \in {"none", "approved", "rejected"} /\ client \in [Clients -> Request]
  BY DEF TypeOK
<1>3. OtherRequests(c) /\ client'[c] = [pc |-> "decide", seen |-> row, answer |-> a]
  BY <1>1, <1>2, RequestMoves
<1> QED
  BY <1>3 DEF AskAnswer

\* A job past its limit goes back to the queue, and its handler goes on without it.
LEMMA ExpireMeans ==
    ASSUME TypeOK, NEW j \in JobIds, Expire(j)
    PROVE  /\ UNCHANGED <<row, orch, sent, registry, client, asked, up, crashes>>
           /\ UNCHANGED <<effects, decisions, undone>>
           /\ job[j].st = "active" /\ overruns' \in 0..MaxOverruns
           /\ job' \in [JobIds -> Job] /\ \A k \in JobIds \ {j} : job'[k] = job[k]
           /\ \/ job[j].tries > 0 /\ job'[j].st = "retry" /\ job'[j].tries = job[j].tries - 1
              \/ job[j].tries = 0 /\ job'[j].st = "failed" /\ job'[j].tries = 0
           /\ worker' \in [Workers -> Handler]
           /\ \A w \in Workers : /\ worker'[w].pc = worker[w].pc /\ worker'[w].job = worker[w].job
                                 /\ worker'[w].seen = worker[w].seen /\ worker'[w].n = worker[w].n
                                 /\ worker'[w].out = worker[w].out
           /\ overruns' = 0 =>
                 worker' = worker /\ \A w \in Workers : worker[w].live => worker[w].job # j
<1> DEFINE on(w) == worker[w].live /\ worker[w].job # j
           held == \E w \in Workers : worker[w].live /\ worker[w].job = j
<1>1. /\ worker' = [w \in Workers |-> [worker[w] EXCEPT !.live = on(w)]]
      /\ job' = [job EXCEPT ![j] = Failed(j)] /\ job[j].st = "active"
  BY DEF Expire
<1>2. /\ Failed(j) \in Job
      /\ \/ job[j].tries > 0 /\ Failed(j).st = "retry" /\ Failed(j).tries = job[j].tries - 1
         \/ job[j].tries = 0 /\ Failed(j).st = "failed" /\ Failed(j).tries = 0
  BY DEF Failed, TypeOK, Job
<1>3. /\ job' \in [JobIds -> Job] /\ \A k \in JobIds \ {j} : job'[k] = job[k]
      /\ job'[j] = Failed(j)
  BY <1>1, <1>2 DEF TypeOK
<1>4. /\ held => overruns < MaxOverruns
      /\ overruns' = IF held THEN overruns + 1 ELSE overruns
  BY DEF Expire
<1>5. overruns \in Nat /\ overruns <= MaxOverruns /\ MaxOverruns \in Nat
  BY GraphAssumption DEF TypeOK
<1>6. overruns' \in 0..MaxOverruns /\ (overruns' = 0 => ~held)
  <2> HIDE DEF held
  <2> QED
    BY <1>4, <1>5
<1>7. \A w \in Workers : on(w) \in BOOLEAN /\ worker[w] \in Handler
  BY DEF TypeOK, Handler
<1>8. /\ worker' \in [Workers -> Handler]
      /\ \A w \in Workers : /\ worker'[w].pc = worker[w].pc /\ worker'[w].job = worker[w].job
                            /\ worker'[w].seen = worker[w].seen /\ worker'[w].n = worker[w].n
                            /\ worker'[w].out = worker[w].out
  <2> HIDE DEF on
  <2> QED
    BY <1>1, <1>7 DEF Handler
<1>9. ASSUME ~held
      PROVE  worker' = worker
  <2>1. ASSUME NEW w \in Workers
        PROVE  [worker[w] EXCEPT !.live = on(w)] = worker[w]
    <3>1. on(w) = worker[w].live
      BY <1>9 DEF TypeOK, Handler
    <3> HIDE DEF on
    <3> QED
      BY <1>7, <3>1 DEF Handler
  <2> QED
    BY <1>1, <2>1 DEF TypeOK
<1>10. /\ UNCHANGED <<row, orch, sent, registry, client, asked, up, crashes>>
       /\ UNCHANGED <<effects, decisions, undone>>
  BY DEF Expire
<1> QED
  BY <1>1, <1>2, <1>3, <1>6, <1>8, <1>9, <1>10

\* Every handler and request is gone; the record stays.
LEMMA CrashMeans ==
    ASSUME TypeOK, Crash
    PROVE  /\ UNCHANGED <<row, job, sent, overruns, effects, decisions, undone>>
           /\ crashes' = crashes + 1
           /\ worker' \in [Workers -> Handler] /\ \A w \in Workers : worker'[w] = IdleWorker
           /\ client' \in [Clients -> Request] /\ \A c \in Clients : client'[c].pc = "idle"
BY Resting DEF Crash, TypeOK

\* After a restart the runs on record are listed.
LEMMA RestartMeans ==
    ASSUME TypeOK, Restart
    PROVE  /\ UNCHANGED <<row, job>> /\ Boot \in Clients
           /\ OtherRequests(Boot) /\ client'[Boot].pc = "list"
<1>1. Moves(Boot, "list") /\ Boot \in Clients /\ "list" \in ClientPcs
  BY DEF Restart, Moves, Clients, ClientPcs
<1>2. Advances(Boot, "list")
  BY <1>1, RequestMoves DEF TypeOK
<1> QED
  BY <1>1, <1>2 DEF Restart, Advances

\* A run found queued is sent again; any other is left.
LEMMA ReconcileMeans ==
    ASSUME TypeOK, Reconcile
    PROVE  /\ UNCHANGED <<row, job>> /\ OtherRequests(Boot) /\ Boot \in Clients
           /\ \/ row.st = "queued" /\ client'[Boot].pc = "send" /\ client'[Boot].seen = row
              \/ client'[Boot].pc = "idle"
<1>1. Boot \in Clients
  BY DEF Clients
<1>2. CASE row.st = "queued"
  <2>1. Sends(Boot, row) /\ row \in Row
    BY <1>2 DEF Reconcile, Sends, TypeOK
  <2>2. OtherRequests(Boot) /\ client'[Boot].pc = "send" /\ client'[Boot].seen = row
    BY <1>1, <2>1, RequestMoves DEF TypeOK
  <2> QED
    BY <1>1, <1>2, <2>2 DEF Reconcile
<1>3. CASE row.st # "queued"
  <2>1. Leaves(Boot)
    BY <1>1, <1>3, RequestMoves DEF Reconcile, TypeOK
  <2> QED
    BY <1>1, <2>1 DEF Reconcile, Leaves
<1> QED
  BY <1>2, <1>3

-----------------------------------------------------------------------------
(* What each step leaves alone. *)

HandlerFrame == UNCHANGED <<sent, client, asked, up, crashes, overruns, decisions>>
RequestFrame == UNCHANGED <<worker, up, crashes, overruns, effects>>

\* Where a step of a handler starts, and what it leaves alone.
LEMMA HandlerFrames ==
    ASSUME NEW w \in Workers
    PROVE  /\ Load(w) => worker[w].pc = "load" /\ HandlerFrame /\ UNCHANGED <<effects, undone>>
           /\ Track(w) => worker[w].pc = "track" /\ HandlerFrame /\ UNCHANGED <<effects, undone>>
           /\ Interrupt(w) => worker[w].pc = "interrupt" /\ HandlerFrame /\ UNCHANGED <<effects, undone>>
           /\ Orchestrate(w) => worker[w].pc = "orch" /\ HandlerFrame /\ UNCHANGED <<effects, undone>>
           /\ Enter(w) => worker[w].pc = "enter" /\ HandlerFrame /\ UNCHANGED <<effects, undone>>
           /\ Look(w) => worker[w].pc = "look" /\ HandlerFrame /\ UNCHANGED <<effects, undone>>
           /\ Claim(w) => worker[w].pc = "claim" /\ HandlerFrame /\ UNCHANGED <<effects, undone>>
           /\ Act(w) => worker[w].pc = "act" /\ HandlerFrame /\ UNCHANGED undone
           /\ Effect(w) => worker[w].pc = "effect" /\ HandlerFrame /\ UNCHANGED <<effects, undone>>
           /\ Save(w) => worker[w].pc = "save" /\ HandlerFrame /\ UNCHANGED <<effects, undone>>
           /\ Pause(w) => worker[w].pc = "pause" /\ HandlerFrame /\ UNCHANGED <<effects, undone>>
           /\ Bury(w) => worker[w].pc = "bury" /\ HandlerFrame /\ UNCHANGED <<effects, undone>>
           /\ Drop(w) => worker[w].pc = "drop" /\ HandlerFrame /\ UNCHANGED <<effects, undone>>
           /\ Close(w) => worker[w].pc = "close" /\ HandlerFrame /\ UNCHANGED <<effects, undone>>
           /\ Complete(w) => worker[w].pc = "complete" /\ HandlerFrame /\ UNCHANGED <<effects, undone>>
           /\ Fail(w) => worker[w].pc = "fail" /\ HandlerFrame /\ UNCHANGED <<effects, undone>>
           /\ FailOrchestration(w) => worker[w].pc = "failorch" /\ HandlerFrame /\ UNCHANGED <<effects, undone>>
           /\ FailRow(w) => worker[w].pc = "failrow" /\ HandlerFrame /\ UNCHANGED effects
           /\ Deny(w) => worker[w].pc = "track" /\ HandlerFrame /\ UNCHANGED <<effects, undone>>
           /\ TimeOut(w) => worker[w].pc \in {"look", "claim"} /\ HandlerFrame /\ UNCHANGED <<effects, undone>>
<1>1. Load(w) => worker[w].pc = "load" /\ HandlerFrame /\ UNCHANGED <<effects, undone>>
  BY DEF Load, HandlerFrame
<1>2. Track(w) => worker[w].pc = "track" /\ HandlerFrame /\ UNCHANGED <<effects, undone>>
  BY DEF Track, HandlerFrame
<1>3. Interrupt(w) => worker[w].pc = "interrupt" /\ HandlerFrame /\ UNCHANGED <<effects, undone>>
  BY DEF Interrupt, HandlerFrame
<1>4. Orchestrate(w) => worker[w].pc = "orch" /\ HandlerFrame /\ UNCHANGED <<effects, undone>>
  BY DEF Orchestrate, HandlerFrame
<1>5. Enter(w) => worker[w].pc = "enter" /\ HandlerFrame /\ UNCHANGED <<effects, undone>>
  BY DEF Enter, HandlerFrame
<1>6. Look(w) => worker[w].pc = "look" /\ HandlerFrame /\ UNCHANGED <<effects, undone>>
  BY DEF Look, HandlerFrame
<1>7. Claim(w) => worker[w].pc = "claim" /\ HandlerFrame /\ UNCHANGED <<effects, undone>>
  BY DEF Claim, HandlerFrame
<1>8. Act(w) => worker[w].pc = "act" /\ HandlerFrame /\ UNCHANGED undone
  BY DEF Act, HandlerFrame
<1>9. Effect(w) => worker[w].pc = "effect" /\ HandlerFrame /\ UNCHANGED <<effects, undone>>
  BY DEF Effect, HandlerFrame
<1>10. Save(w) => worker[w].pc = "save" /\ HandlerFrame /\ UNCHANGED <<effects, undone>>
  BY DEF Save, HandlerFrame
<1>11. Pause(w) => worker[w].pc = "pause" /\ HandlerFrame /\ UNCHANGED <<effects, undone>>
  BY DEF Pause, HandlerFrame
<1>12. Bury(w) => worker[w].pc = "bury" /\ HandlerFrame /\ UNCHANGED <<effects, undone>>
  BY DEF Bury, HandlerFrame
<1>13. Drop(w) => worker[w].pc = "drop" /\ HandlerFrame /\ UNCHANGED <<effects, undone>>
  BY DEF Drop, HandlerFrame
<1>14. Close(w) => worker[w].pc = "close" /\ HandlerFrame /\ UNCHANGED <<effects, undone>>
  BY DEF Close, HandlerFrame
<1>15. Complete(w) => worker[w].pc = "complete" /\ HandlerFrame /\ UNCHANGED <<effects, undone>>
  BY DEF Complete, HandlerFrame
<1>16. Fail(w) => worker[w].pc = "fail" /\ HandlerFrame /\ UNCHANGED <<effects, undone>>
  BY DEF Fail, HandlerFrame
<1>17. FailOrchestration(w) => worker[w].pc = "failorch" /\ HandlerFrame /\ UNCHANGED <<effects, undone>>
  BY DEF FailOrchestration, HandlerFrame
<1>18. FailRow(w) => worker[w].pc = "failrow" /\ HandlerFrame /\ UNCHANGED effects
  BY DEF FailRow, HandlerFrame
<1>19. Deny(w) => worker[w].pc = "track" /\ HandlerFrame /\ UNCHANGED <<effects, undone>>
  BY DEF Deny, HandlerFrame
<1>20. TimeOut(w) => worker[w].pc \in {"look", "claim"} /\ HandlerFrame /\ UNCHANGED <<effects, undone>>
  BY DEF TimeOut, HandlerFrame
<1> QED
  BY <1>1, <1>2, <1>3, <1>4, <1>5, <1>6, <1>7, <1>8, <1>9, <1>10, <1>11, <1>12, <1>13,
     <1>14, <1>15, <1>16, <1>17, <1>18, <1>19, <1>20

\* Where a step of a request starts, and what it leaves alone.
LEMMA RequestFrames ==
    ASSUME NEW c \in Clients
    PROVE  /\ Send(c) => client[c].pc = "send" /\ RequestFrame /\ UNCHANGED <<asked, sent, decisions, undone>>
           /\ SendError(c) => client[c].pc = "send" /\ RequestFrame /\ UNCHANGED <<asked, sent, decisions, undone>>
           /\ Unsent(c) => client[c].pc = "unsent" /\ RequestFrame /\ UNCHANGED <<asked, sent, decisions, undone>>
           /\ GiveUp(c) => client[c].pc = "giveup" /\ RequestFrame /\ UNCHANGED <<asked, sent, decisions, undone>>
           /\ CancelJob(c) => client[c].pc = "unqueue" /\ RequestFrame /\ UNCHANGED <<asked, sent, decisions, undone>>
           /\ CancelOrchestration(c) => client[c].pc = "quit" /\ RequestFrame /\ UNCHANGED <<asked, sent, decisions, undone>>
           /\ CancelRow(c) => client[c].pc = "cancelrow" /\ RequestFrame /\ UNCHANGED <<asked, sent, decisions, undone>>
           /\ AbortTask(c) => client[c].pc = "abort" /\ RequestFrame /\ UNCHANGED <<asked, sent, decisions, undone>>
           /\ Decide(c) => client[c].pc = "decide" /\ RequestFrame /\ UNCHANGED asked
<1>1. Send(c) => client[c].pc = "send" /\ RequestFrame /\ UNCHANGED <<asked, sent, decisions, undone>>
  BY DEF Send, RequestFrame
<1>2. SendError(c) => client[c].pc = "send" /\ RequestFrame /\ UNCHANGED <<asked, sent, decisions, undone>>
  BY DEF SendError, RequestFrame
<1>3. Unsent(c) => client[c].pc = "unsent" /\ RequestFrame /\ UNCHANGED <<asked, sent, decisions, undone>>
  BY DEF Unsent, RequestFrame
<1>4. GiveUp(c) => client[c].pc = "giveup" /\ RequestFrame /\ UNCHANGED <<asked, sent, decisions, undone>>
  BY DEF GiveUp, RequestFrame
<1>5. CancelJob(c) => client[c].pc = "unqueue" /\ RequestFrame /\ UNCHANGED <<asked, sent, decisions, undone>>
  BY DEF CancelJob, RequestFrame
<1>6. CancelOrchestration(c) => client[c].pc = "quit" /\ RequestFrame /\ UNCHANGED <<asked, sent, decisions, undone>>
  BY DEF CancelOrchestration, RequestFrame
<1>7. CancelRow(c) => client[c].pc = "cancelrow" /\ RequestFrame /\ UNCHANGED <<asked, sent, decisions, undone>>
  BY DEF CancelRow, RequestFrame
<1>8. AbortTask(c) => client[c].pc = "abort" /\ RequestFrame /\ UNCHANGED <<asked, sent, decisions, undone>>
  BY DEF AbortTask, RequestFrame
<1>9. Decide(c) => client[c].pc = "decide" /\ RequestFrame /\ UNCHANGED asked
  BY DEF Decide, RequestFrame
<1> QED
  BY <1>1, <1>2, <1>3, <1>4, <1>5, <1>6, <1>7, <1>8, <1>9

\* The registry and the orchestration run stay in their types, and the history only grows.
SideTyped == /\ orch' \in {"none", "running", "waiting", "interrupted"} \cup OrchEnded
             /\ registry' \in {"none", "running", "aborted", "done"}
             /\ undone \subseteq undone' /\ undone' \subseteq Nodes
             /\ overruns' \in 0..MaxOverruns /\ overruns <= overruns'
\* No step takes them out of it.
LEMMA SideTypes ==
    ASSUME TypeOK, [Next]_vars
    PROVE  SideTyped
<1> USE GraphAssumption DEF TypeOK, OrchEnded, Throw, Return, SideTyped
<1>1. ASSUME NEW w \in Workers, Load(w)
      PROVE  SideTyped
  BY <1>1 DEF Load
<1>2. ASSUME NEW w \in Workers, Track(w)
      PROVE  SideTyped
  BY <1>2 DEF Track
<1>3. ASSUME NEW w \in Workers, Interrupt(w)
      PROVE  SideTyped
  BY <1>3 DEF Interrupt
<1>4. ASSUME NEW w \in Workers, Orchestrate(w)
      PROVE  SideTyped
  BY <1>4 DEF Orchestrate
<1>5. ASSUME NEW w \in Workers, Enter(w)
      PROVE  SideTyped
  BY <1>5 DEF Enter
<1>6. ASSUME NEW w \in Workers, Look(w)
      PROVE  SideTyped
  <2>1. /\ UNCHANGED <<orch, undone, overruns>>
        /\ registry' \in {registry, "done"}
    BY <1>6 DEF Look
  <2> QED
    BY <2>1
<1>7. ASSUME NEW w \in Workers, Claim(w)
      PROVE  SideTyped
  BY <1>7 DEF Claim
<1>8. ASSUME NEW w \in Workers, Act(w)
      PROVE  SideTyped
  BY <1>8 DEF Act
<1>9. ASSUME NEW w \in Workers, Effect(w)
      PROVE  SideTyped
  BY <1>9 DEF Effect
<1>10. ASSUME NEW w \in Workers, Save(w)
      PROVE  SideTyped
  BY <1>10 DEF Save
<1>11. ASSUME NEW w \in Workers, Pause(w)
      PROVE  SideTyped
  BY <1>11 DEF Pause
<1>12. ASSUME NEW w \in Workers, Bury(w)
      PROVE  SideTyped
  BY <1>12 DEF Bury
<1>13. ASSUME NEW w \in Workers, Drop(w)
      PROVE  SideTyped
  BY <1>13 DEF Drop
<1>14. ASSUME NEW w \in Workers, Close(w)
      PROVE  SideTyped
  BY <1>14 DEF Close
<1>15. ASSUME NEW w \in Workers, Complete(w)
      PROVE  SideTyped
  BY <1>15 DEF Complete
<1>16. ASSUME NEW w \in Workers, Fail(w)
      PROVE  SideTyped
  BY <1>16 DEF Fail
<1>17. ASSUME NEW w \in Workers, FailOrchestration(w)
      PROVE  SideTyped
  BY <1>17 DEF FailOrchestration
<1>18. ASSUME NEW w \in Workers, FailRow(w)
      PROVE  SideTyped
  BY <1>18 DEF FailRow, Stale
<1>19. ASSUME NEW w \in Workers, Deny(w)
      PROVE  SideTyped
  BY <1>19 DEF Deny
<1>20. ASSUME NEW w \in Workers, TimeOut(w)
      PROVE  SideTyped
  BY <1>20 DEF TimeOut
<1>21. ASSUME NEW w \in Workers, NEW j \in JobIds, Deliver(w, j)
      PROVE  SideTyped
  BY <1>21 DEF Deliver
<1>22. ASSUME NEW j \in JobIds, Expire(j)
      PROVE  SideTyped
  BY <1>22 DEF Expire
<1>23. ASSUME Evict
      PROVE  SideTyped
  BY <1>23 DEF Evict
<1>24. ASSUME NEW c \in Clients, Send(c)
      PROVE  SideTyped
  BY <1>24 DEF Send
<1>25. ASSUME NEW c \in Clients, SendError(c)
      PROVE  SideTyped
  BY <1>25 DEF SendError
<1>26. ASSUME NEW c \in Clients, Unsent(c)
      PROVE  SideTyped
  BY <1>26 DEF Unsent
<1>27. ASSUME NEW c \in Clients, GiveUp(c)
      PROVE  SideTyped
  BY <1>27 DEF GiveUp
<1>28. ASSUME NEW c \in Clients, CancelJob(c)
      PROVE  SideTyped
  BY <1>28 DEF CancelJob
<1>29. ASSUME NEW c \in Clients, CancelOrchestration(c)
      PROVE  SideTyped
  BY <1>29 DEF CancelOrchestration
<1>30. ASSUME NEW c \in Clients, CancelRow(c)
      PROVE  SideTyped
  BY <1>30 DEF CancelRow
<1>31. ASSUME NEW c \in Clients, AbortTask(c)
      PROVE  SideTyped
  BY <1>31 DEF AbortTask
<1>32. ASSUME NEW c \in Clients, Decide(c)
      PROVE  SideTyped
  BY <1>32 DEF Decide, Stale
<1>33. ASSUME NEW c \in Devices, Start(c)
      PROVE  SideTyped
  BY <1>33 DEF Start
<1>34. ASSUME NEW c \in Devices, AskCancel(c)
      PROVE  SideTyped
  BY <1>34 DEF AskCancel
<1>35. ASSUME NEW c \in Devices, NEW a \in {"approved", "rejected"}, AskAnswer(c, a)
      PROVE  SideTyped
  BY <1>35 DEF AskAnswer
<1>36. ASSUME Crash
      PROVE  SideTyped
  BY <1>36 DEF Crash
<1>37. ASSUME Restart
      PROVE  SideTyped
  BY <1>37 DEF Restart
<1>38. ASSUME Reconcile
      PROVE  SideTyped
  BY <1>38 DEF Reconcile
<1>39. CASE UNCHANGED vars
  BY <1>39 DEF vars
<1> QED
  BY <1>1, <1>2, <1>3, <1>4, <1>5, <1>6, <1>7, <1>8, <1>9, <1>10, <1>11, <1>12, <1>13,
     <1>14, <1>15, <1>16, <1>17, <1>18, <1>19, <1>20, <1>21, <1>22, <1>23, <1>24, <1>25,
     <1>26, <1>27, <1>28, <1>29, <1>30, <1>31, <1>32, <1>33, <1>34, <1>35, <1>36, <1>37,
     <1>38, <1>39
  DEF Next, Works, Dispatches, Serves

\* Every step keeps the types.
LEMMA TypeStep ==
    ASSUME TypeOK, \A c \in Clients : RequestInStep(c), [Next]_vars
    PROVE  TypeOK'
<1>0. /\ orch' \in {"none", "running", "waiting", "interrupted"} \cup OrchEnded
      /\ registry' \in {"none", "running", "aborted", "done"}
      /\ undone' \in SUBSET Nodes /\ overruns' \in 0..MaxOverruns
  BY SideTypes DEF SideTyped
<1> USE <1>0, GraphAssumption DEF TypeOK
<1>1. ASSUME NEW w \in Workers, Load(w)
      PROVE  TypeOK'
  BY <1>1, LoadMeans, HandlerFrames DEF HandlerFrame, Frees, Keeps, Others, Stays, Throws,
     Finishes, EndsNode
<1>2. ASSUME NEW w \in Workers, Track(w)
      PROVE  TypeOK'
  BY <1>2, TrackMeans, HandlerFrames DEF HandlerFrame, Frees, Keeps, Others, Stays,
     Throws, Finishes, EndsNode
<1>3. ASSUME NEW w \in Workers, Interrupt(w)
      PROVE  TypeOK'
  BY <1>3, InterruptMeans, HandlerFrames DEF HandlerFrame, Frees, Keeps, Others, Stays,
     Throws, Finishes, EndsNode
<1>4. ASSUME NEW w \in Workers, Orchestrate(w)
      PROVE  TypeOK'
  BY <1>4, OrchestrateMeans, HandlerFrames DEF HandlerFrame, Frees, Keeps, Others, Stays,
     Throws, Finishes, EndsNode
<1>5. ASSUME NEW w \in Workers, Enter(w)
      PROVE  TypeOK'
  BY <1>5, EnterMeans, HandlerFrames DEF HandlerFrame, Frees, Keeps, Others, Stays,
     Throws, Finishes, EndsNode
<1>6. ASSUME NEW w \in Workers, Look(w)
      PROVE  TypeOK'
  BY <1>6, LookMeans, HandlerFrames DEF HandlerFrame, Frees, Keeps, Others, Stays, Throws,
     Finishes, EndsNode
<1>7. ASSUME NEW w \in Workers, Claim(w)
      PROVE  TypeOK'
  BY <1>7, ClaimMeans, HandlerFrames DEF HandlerFrame, Frees, Keeps, Others, Stays,
     Throws, Finishes, EndsNode
<1>8. ASSUME NEW w \in Workers, Act(w)
      PROVE  TypeOK'
  BY <1>8, ActMeans, HandlerFrames DEF HandlerFrame, Frees, Keeps, Others, Stays, Throws,
     Finishes, EndsNode
<1>9. ASSUME NEW w \in Workers, Effect(w)
      PROVE  TypeOK'
  BY <1>9, EffectMeans, HandlerFrames DEF HandlerFrame, Frees, Keeps, Others, Stays,
     Throws, Finishes, EndsNode
<1>10. ASSUME NEW w \in Workers, Save(w)
      PROVE  TypeOK'
  BY <1>10, SaveMeans, HandlerFrames DEF HandlerFrame, Frees, Keeps, Others, Stays,
     Throws, Finishes, EndsNode
<1>11. ASSUME NEW w \in Workers, Pause(w)
      PROVE  TypeOK'
  BY <1>11, PauseMeans, HandlerFrames DEF HandlerFrame, Frees, Keeps, Others, Stays,
     Throws, Finishes, EndsNode
<1>12. ASSUME NEW w \in Workers, Bury(w)
      PROVE  TypeOK'
  BY <1>12, BuryMeans, HandlerFrames DEF HandlerFrame, Frees, Keeps, Others, Stays,
     Throws, Finishes, EndsNode
<1>13. ASSUME NEW w \in Workers, Drop(w)
      PROVE  TypeOK'
  BY <1>13, DropMeans, HandlerFrames DEF HandlerFrame, Frees, Keeps, Others, Stays,
     Throws, Finishes, EndsNode
<1>14. ASSUME NEW w \in Workers, Close(w)
      PROVE  TypeOK'
  BY <1>14, CloseMeans, HandlerFrames DEF HandlerFrame, Frees, Keeps, Others, Stays,
     Throws, Finishes, EndsNode
<1>15. ASSUME NEW w \in Workers, Complete(w)
      PROVE  TypeOK'
  BY <1>15, CompleteMeans, HandlerFrames DEF HandlerFrame, Frees, Keeps, Others, Stays,
     Throws, Finishes, EndsNode
<1>16. ASSUME NEW w \in Workers, Fail(w)
      PROVE  TypeOK'
  BY <1>16, FailMeans, HandlerFrames DEF HandlerFrame, Frees, Keeps, Others, Stays,
     Throws, Finishes, EndsNode
<1>17. ASSUME NEW w \in Workers, FailOrchestration(w)
      PROVE  TypeOK'
  BY <1>17, FailOrchestrationMeans, HandlerFrames DEF HandlerFrame, Frees, Keeps, Others,
     Stays, Throws, Finishes, EndsNode
<1>18. ASSUME NEW w \in Workers, FailRow(w)
      PROVE  TypeOK'
  BY <1>18, FailRowMeans, HandlerFrames DEF HandlerFrame, Frees, Keeps, Others, Stays,
     Throws, Finishes, EndsNode
<1>19. ASSUME NEW w \in Workers, Deny(w)
      PROVE  TypeOK'
  BY <1>19, DenyMeans, HandlerFrames DEF HandlerFrame, Frees, Keeps, Others, Stays,
     Throws, Finishes, EndsNode
<1>20. ASSUME NEW w \in Workers, TimeOut(w)
      PROVE  TypeOK'
  BY <1>20, TimeOutMeans, HandlerFrames DEF HandlerFrame, Frees, Keeps, Others, Stays,
     Throws, Finishes, EndsNode
<1>21. ASSUME NEW w \in Workers, NEW j \in JobIds, Deliver(w, j)
      PROVE  TypeOK'
  BY <1>21, DeliverMeans DEF Deliver, Others
<1>22. ASSUME NEW j \in JobIds, Expire(j)
      PROVE  TypeOK'
  BY <1>22, ExpireMeans DEF Expire
<1>23. ASSUME Evict
      PROVE  TypeOK'
  BY <1>23 DEF Evict
<1>24. ASSUME NEW c \in Clients, Send(c)
      PROVE  TypeOK'
  BY <1>24, SendMeans, RequestFrames DEF RequestFrame, OtherRequests, Advances, Leaves,
     Creates
<1>25. ASSUME NEW c \in Clients, SendError(c)
      PROVE  TypeOK'
  BY <1>25, SendErrorMeans, RequestFrames DEF RequestFrame, OtherRequests, Advances,
     Leaves, Creates
<1>26. ASSUME NEW c \in Clients, Unsent(c)
      PROVE  TypeOK'
  BY <1>26, UnsentMeans, RequestFrames DEF RequestFrame, OtherRequests, Advances, Leaves,
     Creates
<1>27. ASSUME NEW c \in Clients, GiveUp(c)
      PROVE  TypeOK'
  BY <1>27, GiveUpMeans, RequestFrames DEF RequestFrame, OtherRequests, Advances, Leaves,
     Creates
<1>28. ASSUME NEW c \in Clients, CancelJob(c)
      PROVE  TypeOK'
  BY <1>28, CancelJobMeans, RequestFrames DEF RequestFrame, OtherRequests, Advances,
     Leaves, Creates
<1>29. ASSUME NEW c \in Clients, CancelOrchestration(c)
      PROVE  TypeOK'
  BY <1>29, CancelOrchestrationMeans, RequestFrames DEF RequestFrame, OtherRequests,
     Advances, Leaves, Creates
<1>30. ASSUME NEW c \in Clients, CancelRow(c)
      PROVE  TypeOK'
  BY <1>30, CancelRowMeans, RequestFrames DEF RequestFrame, OtherRequests, Advances,
     Leaves, Creates
<1>31. ASSUME NEW c \in Clients, AbortTask(c)
      PROVE  TypeOK'
  BY <1>31, AbortTaskMeans, RequestFrames DEF RequestFrame, OtherRequests, Advances,
     Leaves, Creates
<1>32. ASSUME NEW c \in Clients, Decide(c)
      PROVE  TypeOK'
  <2>1. client[c].pc = "decide" /\ UNCHANGED <<job, worker, asked, up, crashes, effects>>
    BY <1>32, DecideMeans, RequestFrames DEF RequestFrame
  <2>2. /\ row' \in Row /\ client' \in [Clients -> Request]
        /\ (UNCHANGED sent \/ (sent < MaxJobs /\ sent' = sent + 1))
    <3>1. row' \in Row
      BY <1>32, DecideMeans
    <3>2. OtherRequests(c)
      BY <1>32, DecideMeans DEF Leaves
    <3>3. (UNCHANGED sent \/ (sent < MaxJobs /\ sent' = sent + 1))
      BY <1>32, DecideMeans
    <3> QED
      BY <3>1, <3>2, <3>3 DEF OtherRequests
  <2>5. sent' \in 0..MaxJobs
    BY <2>2
  <2>3. client[c].answer \in {"approved", "rejected"}
    BY <2>1 DEF RequestInStep, Request
  <2>4. decisions' \in [Nodes -> SUBSET {"approved", "rejected"}]
    <3>1. decisions' = decisions \/ decisions' = [decisions EXCEPT ![client[c].seen.ask] = @ \cup {client[c].answer}]
      BY <1>32, DecideMeans
    <3> QED
      BY <2>3, <3>1
  <2> QED
    BY <2>1, <2>2, <2>4, <2>5
<1>33. ASSUME NEW c \in Devices, Start(c)
      PROVE  TypeOK'
  <2>1. UNCHANGED <<job, worker, asked, up, crashes, effects, decisions>>
    BY <1>33 DEF Start
  <2>2. sent' = 1 /\ 1 \in JobIds /\ row' \in Row /\ client' \in [Clients -> Request]
    BY <1>33, StartMeans DEF OtherRequests
  <2> QED
    BY <2>1, <2>2 DEF JobIds
<1>34. ASSUME NEW c \in Devices, AskCancel(c)
      PROVE  TypeOK'
  <2>1. /\ UNCHANGED <<row, job, sent, worker, up, crashes, effects, decisions>>
        /\ asked < MaxRequests /\ asked' = asked + 1
    BY <1>34 DEF AskCancel, Asks
  <2>2. client' \in [Clients -> Request]
    BY <1>34, AskCancelMeans DEF OtherRequests
  <2> QED
    BY <2>1, <2>2
<1>35. ASSUME NEW c \in Devices, NEW a \in {"approved", "rejected"}, AskAnswer(c, a)
      PROVE  TypeOK'
  <2>1. /\ UNCHANGED <<row, job, sent, worker, up, crashes, effects, decisions>>
        /\ asked < MaxRequests /\ asked' = asked + 1
    BY <1>35 DEF AskAnswer, Asks
  <2>2. client' \in [Clients -> Request]
    BY <1>35, AskAnswerMeans DEF OtherRequests
  <2> QED
    BY <2>1, <2>2
<1>36. ASSUME Crash
      PROVE  TypeOK'
  <2>1. UNCHANGED <<row, job, sent, asked, effects, decisions>> /\ up' = FALSE
        /\ crashes < MaxCrashes /\ crashes' = crashes + 1
    BY <1>36 DEF Crash
  <2>2. worker' \in [Workers -> Handler] /\ client' \in [Clients -> Request]
    BY <1>36, CrashMeans
  <2>3. crashes' \in 0..MaxCrashes
    BY <2>1
  <2>5. up' \in BOOLEAN
    BY <2>1
  <2>4. UNCHANGED <<row, job, sent, asked, effects, decisions>>
    BY <2>1
  <2> QED
    BY <2>2, <2>3, <2>4, <2>5
<1>37. ASSUME Restart
      PROVE  TypeOK'
  BY <1>37, RestartMeans DEF Restart, OtherRequests
<1>38. ASSUME Reconcile
      PROVE  TypeOK'
  BY <1>38, ReconcileMeans DEF Reconcile, OtherRequests
<1>39. CASE UNCHANGED vars
  BY <1>39 DEF vars
<1> QED
  BY <1>1, <1>2, <1>3, <1>4, <1>5, <1>6, <1>7, <1>8, <1>9, <1>10, <1>11, <1>12, <1>13,
     <1>14, <1>15, <1>16, <1>17, <1>18, <1>19, <1>20, <1>21, <1>22, <1>23, <1>24, <1>25,
     <1>26, <1>27, <1>28, <1>29, <1>30, <1>31, <1>32, <1>33, <1>34, <1>35, <1>36, <1>37,
     <1>38, <1>39
  DEF Next, Works, Dispatches, Serves

-----------------------------------------------------------------------------
(* As long as no job has expired under its handler: the memory of the one handler, *)
(* and what it writes and reports.                                               *)

\* The record asks when it waits, and only then.
AskOnRecord == (row.st \in Open => row.answer # "pending") /\ PausedAsks
\* A job id is drawn before it is sent, and belongs to an open record until the
\* record has ended or has drawn another.
JobsInOrder ==
    /\ row.st = "none" => row = NoRow /\ sent = 0
    /\ row.st # "none" => row.job \in 1..sent
    /\ \A j \in JobIds : job[j].st # "none" => j <= sent
    /\ row.st \in Open => job[row.job].st # "completed"
    /\ ~Ended => \A j \in JobIds : Accounted(j)
\* What makes the order inductive.
ExecutionInv ==
    /\ TypeOK
    /\ OneHandler /\ AskOnRecord /\ JobsInOrder
    /\ \A w \in Workers : HandlerInStep(w)
    /\ \A c \in Clients : RequestInStep(c)

\* It is what the invariant says of an execution without overruns.
LEMMA ExecutionIs ==
    /\ OverlapInv /\ InOrder => ExecutionInv
    /\ ExecutionInv => OneHandler /\ JobsAccounted /\ \A w \in Workers : HandlerInStep(w)
<1>1. ASSUME OverlapInv, InOrder
      PROVE  ExecutionInv
  <2>1. /\ TypeOK /\ PausedAsks /\ JobsDrawn /\ OneHandler /\ JobsAccounted
        /\ \A w \in Workers : HandlerInStep(w)
        /\ \A c \in Clients : RequestInStep(c)
    BY <1>1 DEF OverlapInv, InOrder
  <2> QED
    BY <2>1 DEF ExecutionInv, AskOnRecord, PausedAsks, JobsInOrder, JobsDrawn, JobsAccounted
<1>2. ASSUME ExecutionInv
      PROVE  OneHandler /\ JobsAccounted /\ \A w \in Workers : HandlerInStep(w)
  BY <1>2 DEF ExecutionInv, AskOnRecord, PausedAsks, JobsInOrder, JobsAccounted
<1> QED
  BY <1>1, <1>2

\* A handler writes only a record that can go on, or a failed one as failed again;
\* it leaves the job and the approvals as they are.
Written ==
    \/ UNCHANGED row
    \/ /\ row.st \in Open \/ (row.st = "failed" /\ row'.st = "failed")
       /\ row'.st \in {"running", "waiting_approval", "completed", "failed"}
       /\ row'.job = row.job /\ row'.granted = row.granted
       /\ AskOnRecord'

\* A delivery ends well only when its job is no longer that of an open record, and
\* badly only when the record has ended.
Reported(w) ==
    \/ UNCHANGED job /\ Keeps(w) /\ worker'[w].pc # "idle"
    \/ Frees(w) /\ Finishes(w, FALSE) /\ Ended'
    \/ Frees(w) /\ Finishes(w, TRUE) /\ (row'.st \notin Open \/ row'.job > worker[w].job)

\* While a handler works all others rest, and stay so.
LEMMA LoneHandler ==
    ASSUME ExecutionInv, NEW w \in Workers, worker[w].pc # "idle"
    PROVE  /\ \A v \in Workers \ {w} : worker[v] = IdleWorker
           /\ worker[w].live /\ worker[w].job \in JobIds /\ worker[w].job \in 1..sent
           /\ HandlerInStep(w) /\ AskOnRecord /\ row \in Row
           /\ worker[w].seen \in Row /\ worker[w].out \in Row /\ worker[w].n \in Nodes \cup {0}
<1>1. \A v \in Workers \ {w} : worker[v] = IdleWorker
  BY DEF ExecutionInv, OneHandler
<1>2. worker[w].live /\ worker[w].job \in 1..sent /\ sent \in 0..MaxJobs
  BY Resting DEF ExecutionInv, OneHandler, TypeOK
<1>3. worker[w].job \in JobIds
  BY <1>2, GraphAssumption DEF JobIds
<1> QED
  BY <1>1, <1>2, <1>3 DEF ExecutionInv, TypeOK, Handler

\* A node that ends leaves in the memory of its handler what is to be saved.
LEMMA EndsFields ==
    ASSUME NEW w \in Workers, worker[w].out \in Row, worker[w].n \in Nodes, EndsNode(w)
    PROVE  LET x == worker[w]
               q == worker'[w].out
           IN  /\ worker'[w].pc \in {"save", "bury"}
               /\ worker'[w].n = x.n /\ worker'[w].seen = x.seen
               /\ q.node[x.n] \in {"completed", "failed"}
               /\ \A m \in Nodes \ {x.n} : q.node[m] = x.out.node[m]
               /\ q.granted = x.out.granted /\ q.job = x.out.job
               /\ q.answer \in {x.out.answer, "none"}
<1> DEFINE x == worker[w]
<1>1. x.out.node \in [Nodes -> NodeStatus]
  BY DEF Row
<1>2. CASE \E p \in SUBSET Ports : worker'[w].out = NodeDone(x.out, x.n, p)
  <2>1. PICK p \in SUBSET Ports : worker'[w].out = NodeDone(x.out, x.n, p)
    BY <1>2
  <2> DEFINE q == NodeDone(x.out, x.n, p)
  <2>2. /\ q.node = [x.out.node EXCEPT ![x.n] = "completed"]
        /\ q.answer \in {x.out.answer, "none"} /\ q.granted = x.out.granted /\ q.job = x.out.job
    BY DoneFields
  <2> HIDE DEF q
  <2>3. worker'[w].out = q
    BY <2>1 DEF q
  <2> QED
    BY <1>1, <2>2, <2>3 DEF EndsNode
<1>3. CASE worker'[w].out = NodeFailed(x.out, x.n)
  <2> DEFINE q == NodeFailed(x.out, x.n)
  <2>2. /\ q.node = [x.out.node EXCEPT ![x.n] = "failed"]
        /\ q.answer = x.out.answer /\ q.granted = x.out.granted /\ q.job = x.out.job
    BY FailedFields
  <2> HIDE DEF q
  <2>3. worker'[w].out = q
    BY <1>3 DEF q
  <2> QED
    BY <1>1, <2>2, <2>3 DEF EndsNode
<1> QED
  BY <1>2, <1>3 DEF EndsNode

\* Every step of a handler leaves it in step with the record.
LEMMA HandlerSteps ==
    ASSUME ExecutionInv, NEW w \in Workers, Works(w) \/ Deny(w) \/ TimeOut(w)
    PROVE  HandlerInStep(w)' /\ Written /\ Reported(w)
<1> DEFINE x == worker[w]
<1>0. x.pc # "idle"
  BY HandlerFrames DEF Works
<1>a. /\ InStep(x, row) /\ AskOnRecord /\ row \in Row
      /\ x.seen \in Row /\ x.out \in Row /\ x.n \in Nodes \cup {0}
      /\ TypeOK /\ x.live /\ x.job \in JobIds
  BY <1>0, LoneHandler DEF HandlerInStep, ExecutionInv
<1> SUFFICES InStep(worker'[w], row') /\ Written /\ Reported(w)
  BY DEF HandlerInStep
<1> HIDE DEF x
<1>b. ASSUME Throws(w), UNCHANGED <<row, job>>, row.st \in Open \cup Over
      PROVE  InStep(worker'[w], row') /\ Written /\ Reported(w)
  BY <1>b DEF Throws, InStep, Written, Reported
<1>c. ASSUME EndsNode(w), UNCHANGED <<row, job>>, x.n \in Nodes, x.seen.st = "running",
             x.out.node[x.n] = "running",
             (row.st = "running" /\ Agrees(row, x.out)) \/ row.st = "cancelled"
      PROVE  InStep(worker'[w], row') /\ Written /\ Reported(w)
  <2> DEFINE y == worker'[w]
  <2>1. /\ y.pc \in {"save", "bury"} /\ y.n = x.n /\ y.seen = x.seen
        /\ y.out.node[x.n] \in {"completed", "failed"}
        /\ \A m \in Nodes \ {x.n} : y.out.node[m] = x.out.node[m]
        /\ y.out.granted = x.out.granted /\ y.out.job = x.out.job
        /\ y.out.answer \in {x.out.answer, "none"}
    BY <1>a, <1>c, EndsFields DEF x
  <2>2. row.st = "running" => Differs(row, y.out, x.n) /\ y.out.answer # "pending"
    BY <1>a, <1>c, <2>1 DEF Differs, Agrees, AskOnRecord, PausedAsks, Open
  <2>3. InStep(y, row)
    BY <1>c, <2>1, <2>2 DEF InStep
  <2> QED
    BY <1>c, <2>3 DEF Written, Reported, EndsNode
<1>1. ASSUME Load(w)
      PROVE  InStep(worker'[w], row') /\ Written /\ Reported(w)
  <2>1. CASE row.st \in {"completed", "cancelled", "waiting_approval"}
    BY <1>1, <1>a, <2>1, LoadMeans, Resting DEF Frees, InStep, Written, Reported, Open
  <2>2. CASE row.st = "failed"
    BY <1>1, <1>a, <2>2, LoadMeans, Resting DEF Frees, InStep, Written, Reported, Open,
       Ended, Over
  <2>3. CASE row.st \in Open
    BY <1>1, <1>a, <2>3, LoadMeans DEF InStep, Written, Reported, Open
  <2> QED
    BY <1>1, <1>a, <2>1, <2>2, <2>3, LoadMeans
<1>2. ASSUME Track(w)
      PROVE  InStep(worker'[w], row') /\ Written /\ Reported(w)
  <2>1. x.pc = "track" /\ UNCHANGED <<row, job>>
    BY <1>2, <1>a, HandlerFrames, TrackMeans DEF x
  <2>2. x.seen.st \in Open /\ (row = x.seen \/ row.st \in Over)
    BY <1>a, <2>1 DEF InStep
  <2>3. CASE Throws(w)
    BY <1>b, <2>1, <2>2, <2>3
  <2>4. CASE Stays(w, "interrupt") \/ Stays(w, "orch")
    BY <2>1, <2>2, <2>4 DEF Stays, InStep, Written, Reported, x
  <2> QED
    BY <1>2, <1>a, <2>3, <2>4, TrackMeans
<1>3. ASSUME Interrupt(w)
      PROVE  InStep(worker'[w], row') /\ Written /\ Reported(w)
  <2>1. x.pc = "interrupt"
    BY <1>3, HandlerFrames DEF x
  <2>2. x.seen.st \in Open /\ (row = x.seen \/ row.st \in Over)
    BY <1>a, <2>1 DEF InStep
  <2>3. Throws(w) /\ UNCHANGED job
    BY <1>3, <1>a, InterruptMeans
  <2>4. CASE UNCHANGED row
    BY <1>b, <2>2, <2>3, <2>4
  <2>5. CASE ~UNCHANGED row
    <3>1. /\ row.st = "running" /\ row'.st = x.seen.st /\ row'.answer = x.seen.answer
          /\ row'.granted = x.seen.granted /\ row'.job = x.seen.job
      BY <1>3, <1>a, <2>5, InterruptMeans DEF x
    <3>2. row = x.seen
      BY <2>2, <3>1 DEF Over
    <3> QED
      BY <1>a, <2>3, <3>1, <3>2 DEF Throws, InStep, Written, Reported, AskOnRecord, PausedAsks, Open
  <2> QED
    BY <2>4, <2>5
<1>4. ASSUME Orchestrate(w)
      PROVE  InStep(worker'[w], row') /\ Written /\ Reported(w)
  <2>1. x.pc = "orch" /\ UNCHANGED <<row, job>> /\ Stays(w, "enter")
    BY <1>4, <1>a, HandlerFrames, OrchestrateMeans DEF x
  <2> QED
    BY <1>a, <2>1 DEF Stays, InStep, Written, Reported, x
<1>5. ASSUME Enter(w)
      PROVE  InStep(worker'[w], row') /\ Written /\ Reported(w)
  <2>1. x.pc = "enter" /\ UNCHANGED job
    BY <1>5, <1>a, HandlerFrames, EnterMeans DEF x
  <2>2. x.seen.st \in Open /\ (row = x.seen \/ row.st \in Over)
    BY <1>a, <2>1 DEF InStep
  <2>3. CASE UNCHANGED row /\ Throws(w)
    BY <1>b, <2>1, <2>2, <2>3
  <2>4. CASE ~(UNCHANGED row /\ Throws(w))
    <3>1. /\ row.st = x.seen.st /\ Stays(w, "look") /\ row'.st = "running"
          /\ row'.answer = x.seen.answer /\ row'.granted = x.seen.granted /\ row'.job = x.seen.job
      BY <1>5, <1>a, <2>4, EnterMeans DEF x
    <3>2. row = x.seen
      BY <2>2, <3>1 DEF Over, Open
    <3> QED
      BY <1>a, <2>1, <2>2, <3>1, <3>2 DEF Stays, InStep, Written, Reported, AskOnRecord, PausedAsks,
         Open
  <2> QED
    BY <2>3, <2>4
<1>6. ASSUME Look(w)
      PROVE  InStep(worker'[w], row') /\ Written /\ Reported(w)
  <2>1. x.pc = "look" /\ UNCHANGED row /\ row.st \in {"running", "cancelled"}
    <3>1. x.pc = "look" /\ UNCHANGED row
      BY <1>6, <1>a, HandlerFrames, LookMeans DEF x
    <3> QED
      BY <1>a, <3>1 DEF InStep
  <2>2. row.st \in Open \cup Over /\ (row.st = "running" => row.answer # "pending")
    BY <1>a, <2>1 DEF AskOnRecord, PausedAsks, Open, Over
  <2>3. CASE UNCHANGED job /\ Throws(w)
    BY <1>b, <2>1, <2>2, <2>3
  <2>4. CASE UNCHANGED job /\ row.st = "cancelled" /\ Stays(w, "drop")
    BY <2>1, <2>4 DEF Stays, InStep, Written, Reported
  <2>5. CASE /\ UNCHANGED job /\ row.st = "running" /\ Keeps(w) /\ worker'[w].seen = row
             /\ worker'[w].pc = "close"
    BY <2>1, <2>5 DEF InStep, Written, Reported
  <2>6. CASE /\ UNCHANGED job /\ row.st = "running" /\ Keeps(w) /\ worker'[w].seen = row
             /\ worker'[w].n \in Nodes /\ row.node[worker'[w].n] = "pending"
             /\ worker'[w].pc = "claim"
    BY <2>1, <2>6 DEF InStep, Written, Reported
  <2>7. ASSUME UNCHANGED job, row.st = "running", Keeps(w), worker'[w].seen = row,
               worker'[w].n \in Nodes, row.node[worker'[w].n] = "pending",
               worker'[w].pc = "save",
               worker'[w].out = [row EXCEPT !.node[worker'[w].n] = "skipped"]
        PROVE  InStep(worker'[w], row') /\ Written /\ Reported(w)
    <3> DEFINE y == worker'[w]
               q == [row EXCEPT !.node[y.n] = "skipped"]
    <3>1. /\ q.node = [row.node EXCEPT ![y.n] = "skipped"] /\ q.answer = row.answer
          /\ q.granted = row.granted /\ q.job = row.job
      BY <1>a, <2>7, NodeFields DEF NodeStatus
    <3> HIDE DEF q
    <3>2. y.out = q
      BY <2>7 DEF q
    <3>3. q.node[y.n] = "skipped" /\ \A m \in Nodes \ {y.n} : q.node[m] = row.node[m]
      BY <1>a, <2>7, <3>1 DEF Row
    <3>4. Differs(row, q, y.n)
      BY <2>7, <3>1, <3>3 DEF Differs
    <3>5. InStep(y, row)
      BY <2>2, <2>7, <3>1, <3>2, <3>3, <3>4 DEF InStep
    <3> QED
      BY <2>1, <2>7, <3>5 DEF Written, Reported
  <2> QED
    BY <1>6, <1>a, <2>1, <2>2, <2>3, <2>4, <2>5, <2>6, <2>7, LookMeans
<1>7. ASSUME Claim(w)
      PROVE  InStep(worker'[w], row') /\ Written /\ Reported(w)
  <2>1. x.pc = "claim" /\ UNCHANGED job
    BY <1>7, <1>a, HandlerFrames, ClaimMeans DEF x
  <2>2. /\ x.seen.st = "running" /\ (row = x.seen \/ row.st = "cancelled")
        /\ x.n \in Nodes /\ x.seen.node[x.n] = "pending"
    BY <1>a, <2>1 DEF InStep
  <2>3. CASE UNCHANGED row /\ Throws(w)
    BY <1>b, <2>1, <2>2, <2>3 DEF Open, Over
  <2>4. CASE ~(UNCHANGED row /\ Throws(w))
    <3> DEFINE y == worker'[w]
               q == [x.seen EXCEPT !.node[x.n] = "running"]
    <3>1. /\ row.st = x.seen.st /\ Keeps(w) /\ y.pc = "act" /\ y.out = q
          /\ y.seen = x.seen /\ y.n = x.n /\ row'.st = "running" /\ Agrees(row', q)
      BY <1>7, <1>a, <2>4, ClaimMeans DEF x
    <3>2. /\ q.node = [x.seen.node EXCEPT ![x.n] = "running"] /\ q.answer = x.seen.answer
          /\ q.granted = x.seen.granted /\ q.job = x.seen.job
      BY <1>a, <2>2, NodeFields DEF NodeStatus
    <3> HIDE DEF q
    <3>3. q.node[x.n] = "running"
      BY <1>a, <2>2, <3>2 DEF Row
    <3>4. row = x.seen
      BY <2>2, <3>1
    <3>5. InStep(y, row')
      BY <2>2, <3>1, <3>3 DEF InStep
    <3> QED
      BY <1>a, <2>1, <2>2, <3>1, <3>2, <3>4, <3>5
      DEF Written, Reported, AskOnRecord, PausedAsks, Open, Agrees
  <2> QED
    BY <2>3, <2>4
<1>8. ASSUME Act(w)
      PROVE  InStep(worker'[w], row') /\ Written /\ Reported(w)
  <2>1. x.pc = "act" /\ UNCHANGED <<row, job>>
    BY <1>8, <1>a, HandlerFrames, ActMeans DEF x
  <2>2. /\ x.n \in Nodes /\ x.seen.st = "running" /\ x.out.node[x.n] = "running"
        /\ (row.st = "running" /\ Agrees(row, x.out)) \/ row.st = "cancelled"
    BY <1>a, <2>1 DEF InStep
  <2>3. CASE EndsNode(w)
    BY <1>c, <2>1, <2>2, <2>3
  <2>4. CASE Stays(w, "effect")
    BY <2>1, <2>2, <2>4 DEF Stays, InStep, Written, Reported, x
  <2>5. ASSUME Keeps(w), worker'[w].pc = "save", worker'[w].seen = x.seen, worker'[w].n = x.n,
               worker'[w].out = NodeAsks(x.out, x.n)
        PROVE  InStep(worker'[w], row') /\ Written /\ Reported(w)
    <3> DEFINE y == worker'[w]
               q == NodeAsks(x.out, x.n)
    <3>1. /\ q.node = [x.out.node EXCEPT ![x.n] = "waiting"] /\ q.ask = x.n
          /\ q.answer = "pending" /\ q.granted = x.out.granted /\ q.job = x.out.job
      BY <1>a, <2>2, AsksFields
    <3> HIDE DEF q
    <3>2. y.out = q
      BY <2>5 DEF q
    <3>3. q.node[x.n] = "waiting" /\ \A m \in Nodes \ {x.n} : q.node[m] = x.out.node[m]
      BY <1>a, <2>2, <3>1 DEF Row
    <3>4. row.st = "running" => Differs(row, q, x.n)
      BY <2>2, <3>1, <3>3 DEF Differs, Agrees
    <3>5. InStep(y, row)
      BY <2>2, <2>5, <3>1, <3>2, <3>3, <3>4 DEF InStep
    <3> QED
      BY <2>1, <2>5, <3>5 DEF Written, Reported
  <2> QED
    BY <1>8, <1>a, <2>3, <2>4, <2>5, ActMeans DEF x
<1>9. ASSUME Effect(w)
      PROVE  InStep(worker'[w], row') /\ Written /\ Reported(w)
  <2>1. x.pc = "effect" /\ UNCHANGED <<row, job>> /\ EndsNode(w)
    BY <1>9, <1>a, HandlerFrames, EffectMeans DEF x
  <2>2. /\ x.n \in Nodes /\ x.seen.st = "running" /\ x.out.node[x.n] = "running"
        /\ (row.st = "running" /\ Agrees(row, x.out)) \/ row.st = "cancelled"
    BY <1>a, <2>1 DEF InStep
  <2> QED
    BY <1>c, <2>1, <2>2
<1>10. ASSUME Save(w)
      PROVE  InStep(worker'[w], row') /\ Written /\ Reported(w)
  <2>1. x.pc = "save" /\ UNCHANGED job
    BY <1>10, <1>a, HandlerFrames, SaveMeans DEF x
  <2>2. /\ x.n \in Nodes /\ x.seen.st = "running"
        /\ (row.st = "running" /\ Differs(row, x.out, x.n)) \/ row.st = "cancelled"
        /\ row.st = "running" => IF x.out.node[x.n] = "waiting"
                                 THEN x.out.ask = x.n /\ x.out.answer = "pending"
                                 ELSE x.out.answer # "pending"
    BY <1>a, <2>1 DEF InStep
  <2>3. CASE UNCHANGED row /\ Throws(w)
    BY <1>b, <2>1, <2>2, <2>3 DEF Open, Over
  <2>4. CASE ~(UNCHANGED row /\ Throws(w))
    <3> DEFINE paused == x.out.node[x.n] = "waiting"
    <3>1. /\ row.st = x.seen.st /\ Stays(w, IF paused THEN "pause" ELSE "look")
          /\ row'.st = (IF paused THEN "waiting_approval" ELSE "running")
          /\ row'.node = x.out.node /\ row'.ask = x.out.ask /\ row'.answer = x.out.answer
          /\ row'.granted = x.out.granted /\ row'.job = x.out.job
      BY <1>10, <1>a, <2>4, SaveMeans DEF x
    <3>2. InStep(worker'[w], row')
      BY <3>1 DEF InStep, Stays
    <3>3. row.st = "running" /\ row.job = x.out.job /\ row.granted = x.out.granted
      BY <2>2, <3>1 DEF Differs
    <3>4. AskOnRecord'
      BY <2>2, <3>1, <3>3 DEF AskOnRecord, PausedAsks, Open
    <3>5. row'.st \in {"running", "waiting_approval"} /\ Keeps(w) /\ worker'[w].pc # "idle"
      BY <3>1 DEF Stays
    <3> QED
      BY <2>1, <3>1, <3>2, <3>3, <3>4, <3>5 DEF Written, Reported, Open
  <2> QED
    BY <2>3, <2>4
<1>11. ASSUME Pause(w)
      PROVE  InStep(worker'[w], row') /\ Written /\ Reported(w)
  <2>1. x.pc = "pause" /\ UNCHANGED row /\ Frees(w) /\ Finishes(w, TRUE)
    BY <1>11, <1>a, HandlerFrames, PauseMeans DEF x
  <2>2. row.st \notin Open \/ row.job > x.job
    BY <1>a, <2>1 DEF InStep, Open, Over
  <2>3. InStep(worker'[w], row')
    BY <2>1, Resting DEF Frees, InStep
  <2> QED
    BY <2>1, <2>2, <2>3 DEF Written, Reported, Open, x
<1>12. ASSUME Bury(w)
      PROVE  InStep(worker'[w], row') /\ Written /\ Reported(w)
  <2>1. x.pc = "bury" /\ UNCHANGED job /\ Throws(w)
    BY <1>12, <1>a, HandlerFrames, BuryMeans DEF x
  <2>2. /\ x.seen.st = "running"
        /\ (row.st = "running" /\ Differs(row, x.out, x.n)) \/ row.st = "cancelled"
    BY <1>a, <2>1 DEF InStep
  <2>3. CASE UNCHANGED row
    BY <1>b, <2>1, <2>2, <2>3 DEF Open, Over
  <2>4. CASE ~UNCHANGED row
    <3>1. /\ row.st = x.seen.st /\ row'.st = "failed"
          /\ row'.job = x.out.job /\ row'.granted = x.out.granted
      BY <1>12, <1>a, <2>4, BuryMeans DEF x
    <3> QED
      BY <2>1, <2>2, <3>1
      DEF Throws, InStep, Differs, Written, Reported, AskOnRecord, PausedAsks, Open, Over
  <2> QED
    BY <2>3, <2>4
<1>13. ASSUME Drop(w)
      PROVE  InStep(worker'[w], row') /\ Written /\ Reported(w)
  <2>1. x.pc = "drop" /\ UNCHANGED row /\ Frees(w) /\ Finishes(w, TRUE)
    BY <1>13, <1>a, HandlerFrames, DropMeans DEF x
  <2>2. row.st = "cancelled"
    BY <1>a, <2>1 DEF InStep, Open, Over
  <2>3. InStep(worker'[w], row')
    BY <2>1, Resting DEF Frees, InStep
  <2> QED
    BY <2>1, <2>2, <2>3 DEF Written, Reported, Open, x
<1>14. ASSUME Close(w)
      PROVE  InStep(worker'[w], row') /\ Written /\ Reported(w)
  <2>1. x.pc = "close" /\ UNCHANGED <<row, job>> /\ Stays(w, "complete")
    BY <1>14, <1>a, HandlerFrames, CloseMeans DEF x
  <2> QED
    BY <1>a, <2>1 DEF Stays, InStep, Written, Reported, x
<1>15. ASSUME Complete(w)
      PROVE  InStep(worker'[w], row') /\ Written /\ Reported(w)
  <2>1. x.pc = "complete"
    BY <1>15, HandlerFrames DEF x
  <2>2. x.seen.st = "running" /\ (row = x.seen \/ row.st = "cancelled")
    BY <1>a, <2>1 DEF InStep
  <2>3. CASE UNCHANGED <<row, job>> /\ Throws(w)
    BY <1>b, <2>2, <2>3 DEF Open, Over
  <2>4. CASE ~(UNCHANGED <<row, job>> /\ Throws(w))
    <3>1. /\ row.st = x.seen.st /\ Frees(w) /\ Finishes(w, TRUE)
          /\ row'.st = "completed" /\ row'.granted = x.seen.granted /\ row'.job = x.seen.job
      BY <1>15, <1>a, <2>4, CompleteMeans DEF x
    <3>2. InStep(worker'[w], row')
      BY <3>1, Resting DEF Frees, InStep
    <3> QED
      BY <2>2, <3>1, <3>2 DEF Written, Reported, AskOnRecord, PausedAsks, Open
  <2> QED
    BY <2>3, <2>4
<1>16. ASSUME Fail(w)
      PROVE  InStep(worker'[w], row') /\ Written /\ Reported(w)
  <2>1. x.pc = "fail" /\ UNCHANGED row
    BY <1>16, <1>a, HandlerFrames, FailMeans DEF x
  <2>2. row.st \in Open \cup Over
    BY <1>a, <2>1 DEF InStep
  <2>3. CASE Frees(w)
    <3>1. worker'[w].pc = "idle"
      BY <2>3, Resting DEF Frees
    <3>2. row.st \in {"completed", "cancelled"} /\ Finishes(w, FALSE)
      BY <1>16, <1>a, <3>1, FailMeans
    <3> QED
      BY <2>1, <2>3, <3>1, <3>2 DEF InStep, Written, Reported, Ended, Over
  <2>4. CASE /\ row.st \notin {"completed", "cancelled"} /\ UNCHANGED job
             /\ Keeps(w) /\ worker'[w].pc = "failorch" /\ worker'[w].seen = row
    BY <2>1, <2>2, <2>4 DEF InStep, Written, Reported, Over
  <2> QED
    BY <1>16, <1>a, <2>3, <2>4, FailMeans
<1>17. ASSUME FailOrchestration(w)
      PROVE  InStep(worker'[w], row') /\ Written /\ Reported(w)
  <2>1. x.pc = "failorch" /\ UNCHANGED <<row, job>> /\ Stays(w, "failrow")
    BY <1>17, <1>a, HandlerFrames, FailOrchestrationMeans DEF x
  <2> QED
    BY <1>a, <2>1 DEF Stays, InStep, Written, Reported, x
<1>18. ASSUME FailRow(w)
      PROVE  InStep(worker'[w], row') /\ Written /\ Reported(w)
  <2>1. x.pc = "failrow" /\ Frees(w) /\ Finishes(w, FALSE)
    BY <1>18, <1>a, HandlerFrames, FailRowMeans DEF x
  <2>2. \/ row = x.seen /\ x.seen.st \in Open \cup {"failed"}
        \/ x.seen.st \in Open /\ row.st \in Over
    BY <1>a, <2>1 DEF InStep
  <2>3. InStep(worker'[w], row')
    BY <2>1, Resting DEF Frees, InStep
  <2>4. CASE row.st # x.seen.st /\ UNCHANGED row
    BY <2>1, <2>2, <2>3, <2>4 DEF Written, Reported, Ended, Over, Open
  <2>5. CASE row.st = x.seen.st
    <3>1. row'.st = "failed" /\ row'.job = x.seen.job /\ row'.granted = x.seen.granted
      BY <1>18, <1>a, <2>5, FailRowMeans DEF x
    <3> QED
      BY <2>1, <2>2, <2>3, <2>5, <3>1 DEF Written, Reported, Ended, AskOnRecord, PausedAsks, Open, Over
  <2> QED
    BY <1>18, <1>a, <2>4, <2>5, FailRowMeans DEF x
<1>19. ASSUME Deny(w)
      PROVE  InStep(worker'[w], row') /\ Written /\ Reported(w)
  <2>1. x.pc = "track" /\ UNCHANGED <<row, job>> /\ Throws(w)
    BY <1>19, <1>a, HandlerFrames, DenyMeans DEF x
  <2> QED
    BY <1>a, <1>b, <2>1 DEF InStep
<1>20. ASSUME TimeOut(w)
      PROVE  InStep(worker'[w], row') /\ Written /\ Reported(w)
  <2>1. x.pc \in {"look", "claim"} /\ UNCHANGED <<row, job>> /\ Throws(w)
    BY <1>20, <1>a, HandlerFrames, TimeOutMeans DEF x
  <2> QED
    BY <1>a, <1>b, <2>1 DEF InStep, Open, Over
<1> QED
  BY <1>1, <1>2, <1>3, <1>4, <1>5, <1>6, <1>7, <1>8, <1>9, <1>10, <1>11, <1>12, <1>13,
     <1>14, <1>15, <1>16, <1>17, <1>18, <1>19, <1>20 DEF Works

\* A handler at rest has nothing in its memory.
LEMMA RestInStep == \A r : InStep(IdleWorker, r)
BY Resting DEF InStep

\* A step of a handler keeps the record, the queue and all handlers together.
LEMMA HandlerExecution ==
    ASSUME ExecutionInv, NEW w \in Workers, Works(w) \/ Deny(w) \/ TimeOut(w)
    PROVE  /\ OneHandler' /\ AskOnRecord' /\ JobsInOrder'
           /\ \A v \in Workers : HandlerInStep(v)'
           /\ \A c \in Clients : RequestInStep(c)'
<1> DEFINE x == worker[w]
<1>1. x.pc # "idle" /\ HandlerFrame
  BY HandlerFrames DEF Works
<1>2. UNCHANGED <<sent, client, crashes>>
  BY <1>1 DEF HandlerFrame
<1>3. /\ \A v \in Workers \ {w} : worker[v] = IdleWorker
      /\ x.live /\ x.job \in JobIds /\ x.job \in 1..sent /\ AskOnRecord /\ JobsInOrder
      /\ row \in Row /\ job \in [JobIds -> Job]
  BY <1>1, LoneHandler DEF ExecutionInv, TypeOK
<1>4. HandlerInStep(w)' /\ Written /\ Reported(w)
  BY HandlerSteps
<1>5. /\ \A v \in Workers \ {w} : worker'[v] = IdleWorker
      /\ \/ worker'[w] = IdleWorker
         \/ worker'[w].pc # "idle" /\ worker'[w].job = x.job /\ worker'[w].live
  BY <1>3, <1>4 DEF Reported, Keeps, Frees, Others
<1>6. OneHandler'
  <2>1. \A v \in Workers : IF worker'[v].pc = "idle" THEN worker'[v] = IdleWorker
                             ELSE worker'[v].live /\ worker'[v].job \in 1..sent'
    BY <1>2, <1>3, <1>5, Resting
  <2>2. \A u, v \in Workers : worker'[u].pc # "idle" /\ worker'[v].pc # "idle" => u = v
    BY <1>5, Resting
  <2> QED
    BY <2>1, <2>2 DEF OneHandler
<1>7. AskOnRecord'
  BY <1>3, <1>4 DEF Written, AskOnRecord, PausedAsks
<1>8. ASSUME NEW v \in Workers
      PROVE  HandlerInStep(v)'
  BY <1>4, <1>5, RestInStep DEF HandlerInStep
<1>9. ASSUME NEW c \in Clients
      PROVE  RequestInStep(c)'
  BY <1>2 DEF ExecutionInv, RequestInStep
<1>10. /\ row.st # "none" /\ row'.st # "none" /\ row'.job \in 1..sent'
       /\ row'.st \in Open => row.st \in Open /\ row'.job = row.job
       /\ Ended => Ended'
  BY <1>2, <1>3, <1>4 DEF Written, JobsInOrder, Open, Ended, Over
<1>11. \A j \in JobIds : job'[j].st # "none" => j <= sent'
  BY <1>2, <1>3, <1>4 DEF Reported, Finishes, JobsInOrder
<1>12. row'.st \in Open => job'[row'.job].st # "completed"
  <2> SUFFICES ASSUME row'.st \in Open
               PROVE  job'[row'.job].st # "completed"
    OBVIOUS
  <2>1. row'.job = row.job /\ job[row.job].st # "completed" /\ row.job \in 1..sent /\ ~Ended'
    BY <1>3, <1>10 DEF JobsInOrder, Ended, Over, Open
  <2>2. row.job \in JobIds
    BY <2>1, GraphAssumption DEF ExecutionInv, TypeOK, JobIds
  <2> QED
    BY <1>3, <1>4, <2>1, <2>2 DEF Reported, Finishes
<1>13. ASSUME ~Ended', NEW j \in JobIds
       PROVE  Accounted(j)'
  <2>1. Accounted(j)
    BY <1>3, <1>10, <1>13 DEF JobsInOrder
  <2>2. CASE UNCHANGED job /\ Keeps(w)
    BY <1>2, <2>1, <2>2 DEF Accounted, Keeps, Others
  <2>3. CASE Frees(w) /\ Finishes(w, TRUE)
    <3>1. CASE j = x.job
      <4>1. job'[j].st # "active" /\ job'[j].tries = job[j].tries
            /\ job'[j].st \in {job[j].st, "completed"}
        BY <1>3, <2>3, <3>1 DEF Finishes
      <4> QED
        BY <1>2, <2>1, <4>1 DEF Accounted
    <3>2. CASE j # x.job
      <4>1. job'[j] = job[j]
        BY <1>3, <2>3, <3>2 DEF Finishes
      <4>2. (\A v \in Workers : worker'[v].job # j) => (\A v \in Workers : worker[v].job # j)
        BY <1>3, <3>2 DEF IdleWorker, JobIds
      <4> QED
        BY <1>2, <2>1, <4>1, <4>2 DEF Accounted
    <3> QED
      BY <3>1, <3>2
  <2> QED
    BY <1>4, <1>13, <2>2, <2>3 DEF Reported
<1>14. JobsInOrder'
  BY <1>10, <1>11, <1>12, <1>13 DEF JobsInOrder
<1> QED
  BY <1>6, <1>7, <1>8, <1>9, <1>14

-----------------------------------------------------------------------------
(* What a request writes and sends. *)

\* A request ends an open or a waiting record, or queues one that waits or is new,
\* under the next job id.
Asked ==
    \/ UNCHANGED <<row, sent>>
    \/ /\ UNCHANGED sent /\ row'.job \in 1..sent
       /\ \/ row.st \in Open \cup {"waiting_approval"} /\ row'.st = "cancelled"
          \/ row.st \in {"queued", "waiting_approval"} /\ row'.st = "failed"
    \/ /\ row.st \in {"none", "waiting_approval"} /\ row'.st = "queued" /\ row'.answer # "pending"
       /\ row'.job = sent + 1 /\ sent' = sent + 1 /\ sent' \in JobIds

\* A request creates or cancels jobs whose id was drawn.
Queued ==
    \A k \in JobIds : \/ job'[k] = job[k]
                      \/ /\ k <= sent /\ job'[k].st \in {"created", "cancelled"}
                         /\ job'[k].tries = job[k].tries

\* A record that ends under a handler, and one that is resumed while it pauses.
LEMMA EndedInStep ==
    ASSUME NEW x, NEW r, NEW q, InStep(x, r),
           \/ r.st \in Open /\ q.st = "cancelled"
           \/ r.st = "waiting_approval" /\ q.st \in {"cancelled", "failed"}
           \/ r.st = "queued" /\ q.st = "failed"
    PROVE  InStep(x, q)
BY DEF InStep, Open, Over, Differs, Agrees

\* A handler of an earlier job is in step with the run resumed after it.
LEMMA ResumedInStep ==
    ASSUME NEW x, NEW r, NEW q, InStep(x, r), r.st = "waiting_approval",
           q.st = "queued", q.job > x.job
    PROVE  InStep(x, q)
BY DEF InStep, Open, Over

\* A step of a request keeps the handlers in step.
LEMMA RequestExecution ==
    ASSUME ExecutionInv, Asked, Queued, UNCHANGED <<worker, crashes>>
    PROVE  /\ OneHandler' /\ AskOnRecord' /\ JobsInOrder'
           /\ \A v \in Workers : HandlerInStep(v)'
<1>1. OneHandler /\ AskOnRecord /\ JobsInOrder /\ sent \in 0..MaxJobs /\ sent \in Nat
      /\ MaxJobs \in Nat
  BY GraphAssumption DEF ExecutionInv, TypeOK
<1>2. sent' \in {sent, sent + 1} /\ sent' \in 0..MaxJobs
  BY <1>1 DEF Asked, JobIds
<1>3. OneHandler'
  BY <1>1, <1>2 DEF OneHandler
<1>4. AskOnRecord'
  BY <1>1 DEF Asked, AskOnRecord, PausedAsks, Open
<1>5. ASSUME NEW v \in Workers
      PROVE  HandlerInStep(v)'
  <2>1. InStep(worker[v], row) /\ worker'[v] = worker[v]
    BY DEF ExecutionInv, HandlerInStep
  <2> SUFFICES InStep(worker[v], row')
    BY <2>1 DEF HandlerInStep
  <2>2. CASE row.st = "none"
    <3>1. worker[v] = IdleWorker
      BY <1>1, <2>2 DEF OneHandler, JobsInOrder
    <3> QED
      BY <3>1, RestInStep
  <2>3. CASE UNCHANGED row
    BY <2>1, <2>3
  <2>4. CASE /\ row.st = "waiting_approval" /\ row'.st = "queued" /\ row'.job = sent + 1
    <3>1. CASE worker[v].pc = "idle"
      BY <1>1, <3>1, RestInStep DEF OneHandler
    <3>2. CASE worker[v].pc # "idle"
      <4>1. worker[v].job \in 1..sent
        BY <1>1, <3>2 DEF OneHandler
      <4>2. row'.job > worker[v].job
        BY <1>1, <2>4, <4>1
      <4> QED
        BY <2>1, <2>4, <4>2, ResumedInStep
    <3> QED
      BY <3>1, <3>2
  <2>5. CASE \/ row.st \in Open /\ row'.st = "cancelled"
             \/ row.st = "waiting_approval" /\ row'.st \in {"cancelled", "failed"}
             \/ row.st = "queued" /\ row'.st = "failed"
    BY <2>1, <2>5, EndedInStep
  <2> QED
    BY <2>2, <2>3, <2>4, <2>5 DEF Asked
<1>6. JobsInOrder'
  <2>1. row'.st = "none" => row' = NoRow /\ sent' = 0
    BY <1>1 DEF Asked, JobsInOrder
  <2>2. row'.st # "none" => row'.job \in 1..sent'
    BY <1>1 DEF Asked, JobsInOrder
  <2>3. \A j \in JobIds : job'[j].st # "none" => j <= sent'
    BY <1>1, <1>2 DEF Queued, JobsInOrder, JobIds
  <2>4. row'.st \in Open => job'[row'.job].st # "completed"
    <3>1. CASE UNCHANGED row
      BY <1>1, <2>2, <1>2, <3>1 DEF Queued, JobsInOrder, JobIds, Open
    <3>2. CASE row'.job = sent + 1 /\ sent' = sent + 1 /\ sent' \in JobIds
      <4>1. job[sent + 1].st = "none"
        BY <1>1, <3>2 DEF JobsInOrder
      <4> QED
        BY <3>2, <4>1 DEF Queued
    <3> QED
      BY <3>1, <3>2 DEF Asked, Open
  <2>5. ASSUME ~Ended', NEW j \in JobIds
        PROVE  Accounted(j)'
    <3>1. ~Ended
      BY <2>5 DEF Asked, Ended, Over, Open
    <3>2. Accounted(j)
      BY <1>1, <3>1 DEF JobsInOrder
    <3> QED
      BY <3>2 DEF Queued, Accounted
  <2> QED
    BY <2>1, <2>2, <2>3, <2>4, <2>5 DEF JobsInOrder
<1> QED
  BY <1>3, <1>4, <1>5, <1>6

\* What a request relies on.
Standing == /\ TypeOK /\ PausedAsks /\ JobsDrawn
            /\ \A c \in Clients : RequestInStep(c)

\* Every step of a request, from its start to its end.
LEMMA RequestSteps ==
    ASSUME Standing, NEW c \in Clients,
           \/ Serves(c)
           \/ c \in Devices /\ (Start(c) \/ AskCancel(c))
           \/ c \in Devices /\ (\E a \in {"approved", "rejected"} : AskAnswer(c, a))
           \/ c = Boot /\ (Restart \/ Reconcile)
    PROVE  /\ Asked /\ Queued /\ UNCHANGED <<worker, crashes>>
           /\ OtherRequests(c) /\ RequestInStep(c)'
<1> DEFINE x == client[c]
<1>0. /\ RequestInStep(c) /\ PausedAsks /\ JobsDrawn /\ TypeOK
      /\ \A d \in Clients : RequestInStep(d)
      /\ sent \in Nat /\ sent <= MaxJobs /\ job \in [JobIds -> Job] /\ MaxJobs \in Nat
  BY GraphAssumption DEF Standing, TypeOK
<1>a. ASSUME Creates(c), x.pc = "send", UNCHANGED row, sent' = sent
      PROVE  Asked /\ Queued
  BY <1>0, <1>a DEF Creates, Asked, Queued, RequestInStep, JobIds
<1>1. ASSUME Send(c) \/ SendError(c)
      PROVE  /\ Asked /\ Queued /\ UNCHANGED <<worker, crashes>>
             /\ OtherRequests(c) /\ RequestInStep(c)'
  <2>1. /\ UNCHANGED row /\ Creates(c) /\ OtherRequests(c) /\ client'[c].pc \in {"idle", "unsent"}
        /\ x.pc = "send" /\ UNCHANGED <<worker, crashes, sent>>
    BY <1>0, <1>1, SendMeans, SendErrorMeans, RequestFrames DEF RequestFrame
  <2> QED
    BY <1>a, <2>1 DEF RequestInStep
<1>2. ASSUME Unsent(c)
      PROVE  /\ Asked /\ Queued /\ UNCHANGED <<worker, crashes>>
             /\ OtherRequests(c) /\ RequestInStep(c)'
  BY <1>0, <1>2, UnsentMeans, RequestFrames DEF RequestFrame, Asked, Queued, RequestInStep
<1>3. ASSUME GiveUp(c)
      PROVE  /\ Asked /\ Queued /\ UNCHANGED <<worker, crashes>>
             /\ OtherRequests(c) /\ RequestInStep(c)'
  <2>1. /\ UNCHANGED <<job, worker, crashes, sent>> /\ OtherRequests(c) /\ client'[c].pc = "idle"
        /\ \/ UNCHANGED row
           \/ row.st = "queued" /\ row'.st = "failed" /\ row'.job = row.job
    BY <1>0, <1>3, GiveUpMeans, RequestFrames DEF RequestFrame, Leaves
  <2>2. Asked
    BY <1>0, <2>1 DEF Asked, JobsDrawn
  <2> QED
    BY <2>1, <2>2 DEF Queued, RequestInStep
<1>4. ASSUME CancelJob(c)
      PROVE  /\ Asked /\ Queued /\ UNCHANGED <<worker, crashes>>
             /\ OtherRequests(c) /\ RequestInStep(c)'
  <2>1. /\ UNCHANGED <<row, worker, crashes, sent>> /\ x.pc = "unqueue" /\ Advances(c, "quit")
        /\ \A k \in JobIds : \/ job'[k] = job[k]
                             \/ /\ job[k].st # "none" /\ job'[k].st = "cancelled"
                                /\ job'[k].tries = job[k].tries
    BY <1>0, <1>4, CancelJobMeans, RequestFrames DEF RequestFrame
  <2>2. Queued
    BY <1>0, <2>1 DEF Queued, JobsDrawn
  <2> QED
    BY <1>0, <2>1, <2>2 DEF Asked, Advances, RequestInStep
<1>5. ASSUME CancelOrchestration(c)
      PROVE  /\ Asked /\ Queued /\ UNCHANGED <<worker, crashes>>
             /\ OtherRequests(c) /\ RequestInStep(c)'
  <2>1. /\ UNCHANGED <<row, job, worker, crashes, sent>> /\ x.pc = "quit"
        /\ Advances(c, "cancelrow")
    BY <1>0, <1>5, CancelOrchestrationMeans, RequestFrames DEF RequestFrame
  <2> QED
    BY <1>0, <2>1 DEF Asked, Queued, Advances, RequestInStep
<1>6. ASSUME CancelRow(c)
      PROVE  /\ Asked /\ Queued /\ UNCHANGED <<worker, crashes>>
             /\ OtherRequests(c) /\ RequestInStep(c)'
  <2>1. /\ UNCHANGED <<job, worker, crashes, sent>> /\ x.pc = "cancelrow"
        /\ OtherRequests(c) /\ client'[c].pc \in {"idle", "abort"}
        /\ UNCHANGED row \/ (row.st = x.seen.st /\ row'.st = "cancelled" /\ row'.job = x.seen.job)
    BY <1>0, <1>6, CancelRowMeans, RequestFrames DEF RequestFrame, Leaves
  <2>2. Asked
    BY <1>0, <2>1 DEF Asked, RequestInStep
  <2> QED
    BY <2>1, <2>2 DEF Queued, RequestInStep
<1>7. ASSUME AbortTask(c)
      PROVE  /\ Asked /\ Queued /\ UNCHANGED <<worker, crashes>>
             /\ OtherRequests(c) /\ RequestInStep(c)'
  BY <1>0, <1>7, AbortTaskMeans, RequestFrames
  DEF RequestFrame, Asked, Queued, RequestInStep, Leaves
<1>8. ASSUME Decide(c)
      PROVE  /\ Asked /\ Queued /\ UNCHANGED <<worker, crashes>>
             /\ OtherRequests(c) /\ RequestInStep(c)'
  <2>1. UNCHANGED <<job, worker, crashes>> /\ x.pc = "decide"
    BY <1>0, <1>8, DecideMeans, RequestFrames DEF RequestFrame
  <2>2. x.seen.job \in 1..sent
    BY <1>0, <2>1 DEF RequestInStep
  <2>3. CASE UNCHANGED <<row, sent>> /\ Leaves(c)
    BY <2>1, <2>3 DEF Asked, Queued, RequestInStep, Leaves
  <2>4. CASE /\ row.st = "waiting_approval" /\ row'.st = "failed" /\ row'.job = x.seen.job
             /\ UNCHANGED sent /\ Leaves(c)
    BY <2>1, <2>2, <2>4 DEF Asked, Queued, RequestInStep, Leaves
  <2>5. CASE /\ row.st = "waiting_approval" /\ row'.st = "queued" /\ row'.answer # "pending"
             /\ row'.job = sent + 1 /\ sent < MaxJobs /\ sent' = sent + 1
             /\ OtherRequests(c) /\ client'[c].pc = "send" /\ client'[c].seen = row'
    <3>1. sent + 1 \in JobIds /\ sent + 1 \in 1..sent'
      BY <1>0, <2>5 DEF JobIds
    <3>2. Asked /\ RequestInStep(c)'
      BY <2>5, <3>1 DEF Asked, RequestInStep
    <3> QED
      BY <2>1, <2>5, <3>2 DEF Queued
  <2> QED
    BY <1>0, <1>8, <2>3, <2>4, <2>5, DecideMeans
<1>9. ASSUME c \in Devices, Start(c)
      PROVE  /\ Asked /\ Queued /\ UNCHANGED <<worker, crashes>>
             /\ OtherRequests(c) /\ RequestInStep(c)'
  <2>1. /\ UNCHANGED <<job, worker, crashes>> /\ row.st = "none" /\ sent' = 1 /\ 1 \in JobIds
        /\ row'.st = "queued" /\ row'.job = 1 /\ row'.answer = "none"
        /\ OtherRequests(c) /\ client'[c].seen = row' /\ client'[c].pc = "send"
    BY <1>0, <1>9, StartMeans DEF Start
  <2>2. sent = 0
    BY <1>0, <2>1 DEF JobsDrawn
  <2> QED
    BY <2>1, <2>2 DEF Asked, Queued, RequestInStep
<1>10. ASSUME c \in Devices, AskCancel(c)
       PROVE  /\ Asked /\ Queued /\ UNCHANGED <<worker, crashes>>
              /\ OtherRequests(c) /\ RequestInStep(c)'
  <2>1. /\ UNCHANGED <<row, job, worker, crashes, sent>> /\ row.st \in {"queued", "running", "waiting_approval"}
        /\ OtherRequests(c) /\ client'[c].pc = "unqueue" /\ client'[c].seen = row
    BY <1>0, <1>10, AskCancelMeans DEF AskCancel
  <2> QED
    BY <1>0, <2>1 DEF Asked, Queued, RequestInStep, JobsDrawn, Open
<1>11. ASSUME c \in Devices, NEW a \in {"approved", "rejected"}, AskAnswer(c, a)
       PROVE  /\ Asked /\ Queued /\ UNCHANGED <<worker, crashes>>
              /\ OtherRequests(c) /\ RequestInStep(c)'
  <2>1. /\ UNCHANGED <<row, job, worker, crashes, sent>> /\ row.st = "waiting_approval"
        /\ OtherRequests(c) /\ client'[c].pc = "decide" /\ client'[c].seen = row
        /\ client'[c].answer = a
    BY <1>0, <1>11, AskAnswerMeans DEF AskAnswer
  <2> QED
    BY <1>0, <2>1 DEF Asked, Queued, RequestInStep, JobsDrawn, PausedAsks
<1>12. ASSUME c = Boot, Restart
       PROVE  /\ Asked /\ Queued /\ UNCHANGED <<worker, crashes>>
              /\ OtherRequests(c) /\ RequestInStep(c)'
  BY <1>0, <1>12, RestartMeans DEF Restart, Asked, Queued, RequestInStep
<1>13. ASSUME c = Boot, Reconcile
       PROVE  /\ Asked /\ Queued /\ UNCHANGED <<worker, crashes>>
              /\ OtherRequests(c) /\ RequestInStep(c)'
  <2>1. UNCHANGED <<row, job, worker, crashes, sent>> /\ OtherRequests(c)
        /\ ((row.st = "queued" /\ client'[c].seen = row) \/ client'[c].pc = "idle")
        /\ client'[c].pc \in {"send", "idle"}
    BY <1>0, <1>13, ReconcileMeans DEF Reconcile
  <2> QED
    BY <1>0, <2>1 DEF Asked, Queued, RequestInStep, JobsDrawn
<1> QED
  BY <1>1, <1>2, <1>3, <1>4, <1>5, <1>6, <1>7, <1>8, <1>9, <1>10, <1>11, <1>12, <1>13
  DEF Serves, Dispatches

\* What one request does leaves what the others have read.
LEMMA OtherInStep ==
    ASSUME Standing, NEW c \in Clients, OtherRequests(c), RequestInStep(c)',
           sent' \in {sent, sent + 1}
    PROVE  \A d \in Clients : RequestInStep(d)'
<1>1. sent \in Nat
  BY GraphAssumption DEF Standing, TypeOK
<1>2. ASSUME NEW d \in Clients \ {c}
      PROVE  RequestInStep(d)'
  BY <1>1 DEF Standing, OtherRequests, RequestInStep
<1> QED
  BY <1>2

\* The delivery of a job to a handler at rest.
LEMMA DeliverExecution ==
    ASSUME ExecutionInv, NEW w \in Workers, NEW j \in JobIds, Deliver(w, j)
    PROVE  /\ OneHandler' /\ AskOnRecord' /\ JobsInOrder'
           /\ \A v \in Workers : HandlerInStep(v)'
           /\ \A c \in Clients : RequestInStep(c)'
<1>1. /\ UNCHANGED <<row, sent, client, crashes>> /\ \A v \in Workers : ~worker[v].live
      /\ Others(w) /\ worker'[w].pc = "load" /\ worker'[w].job = j /\ worker'[w].live
      /\ job[j].st \in {"created", "retry"}
      /\ job'[j].st = "active" /\ job'[j].tries = job[j].tries
      /\ \A k \in JobIds \ {j} : job'[k] = job[k]
  BY DeliverMeans DEF ExecutionInv, Deliver
<1>2. \A v \in Workers : worker[v] = IdleWorker
  BY <1>1 DEF ExecutionInv, OneHandler
<1>3. JobsInOrder /\ sent \in Nat /\ j \in 1..sent
  BY <1>1, GraphAssumption DEF ExecutionInv, JobsInOrder, TypeOK, JobIds
<1>4. OneHandler'
  <2>1. \A v \in Workers : IF worker'[v].pc = "idle" THEN worker'[v] = IdleWorker
                             ELSE worker'[v].live /\ worker'[v].job \in 1..sent'
    BY <1>1, <1>2, <1>3, Resting DEF Others
  <2>2. \A u, v \in Workers : worker'[u].pc # "idle" /\ worker'[v].pc # "idle" => u = v
    BY <1>1, <1>2, Resting DEF Others
  <2> QED
    BY <2>1, <2>2 DEF OneHandler
<1>5. ASSUME NEW v \in Workers
      PROVE  HandlerInStep(v)'
  <2>1. CASE v = w
    BY <1>1, <2>1 DEF HandlerInStep, InStep
  <2>2. CASE v # w
    BY <1>1, <1>2, <2>2, RestInStep DEF HandlerInStep, Others
  <2> QED
    BY <2>1, <2>2
<1>6. ASSUME NEW k \in JobIds, ~Ended'
      PROVE  Accounted(k)'
  <2>1. Accounted(k)
    BY <1>1, <1>3, <1>6 DEF JobsInOrder, Ended
  <2>2. CASE k = j
    BY <1>1, <2>1, <2>2 DEF Accounted
  <2>3. CASE k # j
    BY <1>1, <1>2, <2>1, <2>3 DEF Accounted, IdleWorker, JobIds
  <2> QED
    BY <2>2, <2>3
<1>7. JobsInOrder'
  <2>1. row.st \in Open => row.job \in JobIds
    BY <1>3, GraphAssumption DEF ExecutionInv, TypeOK, JobsInOrder, JobIds, Open
  <2>2. row.st \in Open => job'[row.job].st # "completed"
    BY <1>1, <1>3, <2>1 DEF JobsInOrder
  <2>3. \A k \in JobIds : job'[k].st # "none" => k <= sent
    BY <1>1, <1>3 DEF JobsInOrder
  <2> QED
    BY <1>1, <1>3, <1>6, <2>2, <2>3 DEF JobsInOrder
<1>8. AskOnRecord' /\ \A c \in Clients : RequestInStep(c)'
  BY <1>1 DEF ExecutionInv, AskOnRecord, PausedAsks, RequestInStep
<1> QED
  BY <1>4, <1>5, <1>7, <1>8

\* The queue takes back the job of a process that is gone.
LEMMA ExpireExecution ==
    ASSUME ExecutionInv, overruns' = 0, NEW j \in JobIds, Expire(j)
    PROVE  /\ OneHandler' /\ AskOnRecord' /\ JobsInOrder'
           /\ \A v \in Workers : HandlerInStep(v)'
           /\ \A c \in Clients : RequestInStep(c)'
<1>1. /\ UNCHANGED <<row, worker, sent, client, crashes>> /\ job[j].st = "active"
      /\ \A w \in Workers : worker[w].live => worker[w].job # j
      /\ \A k \in JobIds \ {j} : job'[k] = job[k]
      /\ \/ job[j].tries > 0 /\ job'[j].st = "retry" /\ job'[j].tries = job[j].tries - 1
         \/ job[j].tries = 0 /\ job'[j].st = "failed" /\ job'[j].tries = 0
  BY ExpireMeans DEF ExecutionInv, Expire
<1>2. \A w \in Workers : worker[w].job # j
  BY <1>1 DEF ExecutionInv, OneHandler, IdleWorker, JobIds
<1>3. JobsInOrder /\ job[j].tries \in Nat /\ crashes \in Nat
  BY GraphAssumption DEF ExecutionInv, TypeOK, Job
<1>4. ASSUME NEW k \in JobIds, ~Ended'
      PROVE  Accounted(k)'
  <2>1. Accounted(k) /\ Accounted(j)
    BY <1>1, <1>3, <1>4 DEF JobsInOrder, Ended
  <2>2. job[j].tries + crashes >= 3
    BY <1>1, <1>2, <2>1 DEF Accounted
  <2>3. CASE k = j
    BY <1>1, <1>3, <2>2, <2>3 DEF Accounted
  <2>4. CASE k # j
    BY <1>1, <2>1, <2>4 DEF Accounted
  <2> QED
    BY <2>3, <2>4
<1>5. job'[row.job].st = "completed" => job[row.job].st = "completed" \/ row.job \notin JobIds
  BY <1>1
<1>6. row.st \in Open => row.job \in JobIds
  BY <1>3, GraphAssumption DEF ExecutionInv, TypeOK, JobsInOrder, JobIds, Open
<1>7. JobsInOrder'
  BY <1>1, <1>3, <1>4, <1>5, <1>6 DEF JobsInOrder
<1>8. OneHandler' /\ AskOnRecord' /\ \A c \in Clients : RequestInStep(c)'
  BY <1>1 DEF ExecutionInv, OneHandler, AskOnRecord, PausedAsks, RequestInStep
<1>9. \A v \in Workers : HandlerInStep(v)'
  BY <1>1 DEF ExecutionInv, HandlerInStep
<1> QED
  BY <1>7, <1>8, <1>9

\* The process dies: a job that was being worked on is held by nobody, and that
\* is paid for by the crash.
LEMMA CrashExecution ==
    ASSUME ExecutionInv, Crash
    PROVE  /\ OneHandler' /\ AskOnRecord' /\ JobsInOrder'
           /\ \A v \in Workers : HandlerInStep(v)'
           /\ \A c \in Clients : RequestInStep(c)'
<1>1. /\ UNCHANGED <<row, job, sent>> /\ crashes' = crashes + 1
      /\ \A w \in Workers : worker'[w] = IdleWorker
      /\ \A c \in Clients : client'[c].pc = "idle"
  BY CrashMeans DEF ExecutionInv
<1>2. JobsInOrder /\ crashes \in Nat /\ job \in [JobIds -> Job]
  BY GraphAssumption DEF ExecutionInv, TypeOK
<1>3. ASSUME NEW k \in JobIds, ~Ended'
      PROVE  Accounted(k)'
  <2>1. Accounted(k) /\ job[k].tries \in Nat
    BY <1>1, <1>2, <1>3 DEF JobsInOrder, Ended, Job
  <2> QED
    BY <1>1, <1>2, <2>1 DEF Accounted
<1>4. JobsInOrder'
  BY <1>1, <1>2, <1>3 DEF JobsInOrder
<1>5. OneHandler' /\ AskOnRecord' /\ \A c \in Clients : RequestInStep(c)'
  BY <1>1, Resting DEF ExecutionInv, OneHandler, AskOnRecord, PausedAsks, RequestInStep
<1>6. \A v \in Workers : HandlerInStep(v)'
  BY <1>1, RestInStep DEF HandlerInStep
<1> QED
  BY <1>4, <1>5, <1>6

\* The invariant of the execution holds after each step without overruns.
LEMMA ExecutionStep ==
    ASSUME OverlapInv, ExecutionInv, overruns' = 0, [Next]_vars
    PROVE  ExecutionInv'
<1>1. TypeOK'
  BY TypeStep DEF ExecutionInv
<1> DEFINE Rest == /\ OneHandler' /\ AskOnRecord' /\ JobsInOrder'
                   /\ \A v \in Workers : HandlerInStep(v)'
                   /\ \A c \in Clients : RequestInStep(c)'
<1>2. ASSUME NEW w \in Workers, Works(w) \/ Deny(w) \/ TimeOut(w)
      PROVE  Rest
  BY <1>2, HandlerExecution
<1>3. ASSUME NEW w \in Workers, NEW j \in JobIds, Deliver(w, j)
      PROVE  Rest
  BY <1>3, DeliverExecution
<1>4. ASSUME NEW j \in JobIds, Expire(j)
      PROVE  Rest
  BY <1>4, ExpireExecution
<1>5. ASSUME NEW c \in Clients,
             \/ Serves(c)
             \/ c \in Devices /\ (Start(c) \/ AskCancel(c))
             \/ c \in Devices /\ (\E a \in {"approved", "rejected"} : AskAnswer(c, a))
             \/ c = Boot /\ (Restart \/ Reconcile)
      PROVE  Rest
  <2>0. Standing
    BY DEF OverlapInv, Standing
  <2>1. Asked /\ Queued /\ UNCHANGED <<worker, crashes>> /\ OtherRequests(c) /\ RequestInStep(c)'
    BY <1>5, <2>0, RequestSteps
  <2>2. sent' \in {sent, sent + 1}
    BY <2>1 DEF Asked
  <2> QED
    BY <2>0, <2>1, <2>2, RequestExecution, OtherInStep
<1>6. ASSUME Evict \/ UNCHANGED vars
      PROVE  Rest
  <2>1. UNCHANGED <<row, job, sent, worker, client, crashes>>
    BY <1>6 DEF Evict, vars
  <2>2. Asked /\ Queued /\ UNCHANGED <<worker, crashes>>
    BY <2>1 DEF Asked, Queued
  <2>3. \A c \in Clients : RequestInStep(c)'
    BY <2>1 DEF ExecutionInv, RequestInStep
  <2> QED
    BY <2>2, <2>3, RequestExecution
<1>7. ASSUME Crash
      PROVE  Rest
  BY <1>7, CrashExecution
<1>8. Rest
  <2> HIDE DEF Rest
  <2> QED
    BY <1>2, <1>3, <1>4, <1>5, <1>6, <1>7 DEF Next, Clients
<1> QED
  BY <1>1, <1>8 DEF ExecutionInv

-----------------------------------------------------------------------------
(* However many handlers run beside each other: the one that executes. *)

\* A step of a handler takes the free entry of the registry, or gives its own up.
Registers(w) ==
    \/ UNCHANGED registry /\ (worker[w].pc \in Executing <=> worker'[w].pc \in Executing)
    \/ /\ registry = "none" /\ registry' = "running"
       /\ worker[w].pc \notin Executing /\ worker'[w].pc \in Executing
    \/ worker[w].pc \in Executing /\ registry' = "done" /\ worker'[w].pc \notin Executing

\* The look at the record leads to an end, to a node or to the close.
LEMMA LookRegistry ==
    ASSUME TypeOK, NEW w \in Workers, Look(w)
    PROVE  \/ Free(w) /\ registry' = "done"
           \/ \E e \in Errors : Throw(w, e)
           \/ UNCHANGED registry /\ Others(w) /\ worker'[w].pc \in Executing
<1> USE DEF TypeOK
<1>1. \/ Free(w) /\ registry' = "done"
      \/ \E e \in Errors : Throw(w, e)
      \/ UNCHANGED registry /\ (Goto(w, "drop") \/ Reads(w, "close", row))
      \/ UNCHANGED registry /\ \E n \in Nodes :
               worker' = [worker EXCEPT ![w] =
                       IF Active(row, n)
                       THEN [@ EXCEPT !.pc = "claim", !.seen = row, !.n = n]
                       ELSE [@ EXCEPT !.pc = "save", !.seen = row, !.n = n,
                                      !.out = [row EXCEPT !.node[n] = "skipped"]]]
  <2>1. "aborted" \in Errors /\ "stuck" \in Errors
    BY DEF Errors
  <2> QED
    BY <2>1 DEF Look, Return, Reads
<1>2. CASE UNCHANGED registry /\ (Goto(w, "drop") \/ Reads(w, "close", row))
  BY <1>2, HandlerMoves DEF Stays, Keeps, Executing, WorkerPcs
<1>3. ASSUME UNCHANGED registry, NEW n \in Nodes,
             worker' = [worker EXCEPT ![w] =
                       IF Active(row, n)
                       THEN [@ EXCEPT !.pc = "claim", !.seen = row, !.n = n]
                       ELSE [@ EXCEPT !.pc = "save", !.seen = row, !.n = n,
                                      !.out = [row EXCEPT !.node[n] = "skipped"]]]
      PROVE  UNCHANGED registry /\ Others(w) /\ worker'[w].pc \in Executing
  <2> DEFINE q == [row EXCEPT !.node[n] = "skipped"]
             x == IF Active(row, n)
                  THEN [worker[w] EXCEPT !.pc = "claim", !.seen = row, !.n = n]
                  ELSE [worker[w] EXCEPT !.pc = "save", !.seen = row, !.n = n, !.out = q]
  <2>1. q \in Row
    BY NodeOutcomes DEF NodeStatus
  <2>2. worker' = [worker EXCEPT ![w] = x]
    BY <1>3
  <2> HIDE DEF q
  <2>3. x \in Handler /\ x.pc \in {"claim", "save"}
    BY <2>1 DEF Handler, WorkerPcs
  <2> HIDE DEF x
  <2> QED
    BY <1>3, <2>2, <2>3 DEF Others, Executing
<1> QED
  BY <1>1, <1>2, <1>3

\* Each step of a handler does one of the three.
LEMMA RegistryMeans ==
    ASSUME TypeOK, NEW w \in Workers, Works(w) \/ Deny(w) \/ TimeOut(w)
    PROVE  Registers(w) /\ Others(w)
<1> DEFINE Result == Registers(w) /\ Others(w)
<1>0. worker \in [Workers -> Handler] /\ IdleWorker.pc = "idle"
  BY DEF TypeOK, IdleWorker
<1>a. ASSUME NEW e \in Errors, Throw(w, e), worker[w].pc \in Executing
      PROVE  Result
  BY <1>0, <1>a, HandlerMoves DEF Throw, Throws, Keeps, Registers, Executing
<1>b. ASSUME Free(w), registry' = "done", worker[w].pc \in Executing
      PROVE  Result
  BY <1>0, <1>b, HandlerMoves DEF Frees, Registers, Executing
<1>c. ASSUME UNCHANGED registry, Others(w), worker[w].pc \in Executing, worker'[w].pc \in Executing
      PROVE  Result
  BY <1>c DEF Registers
<1>d. ASSUME UNCHANGED registry, worker[w].pc \in {"load", "track", "fail", "failorch", "failrow"},
             Others(w), worker'[w].pc \in {"idle", "track", "fail", "failorch", "failrow"}
      PROVE  Result
  BY <1>d DEF Registers, Executing
<1>e. ASSUME NEW pc \in Executing \cap WorkerPcs, Goto(w, pc), UNCHANGED registry, worker[w].pc \in Executing
      PROVE  Result
  BY <1>0, <1>c, <1>e, HandlerMoves DEF Stays, Keeps
<1> HIDE DEF Result
<1>1. ASSUME Load(w)
      PROVE  Result
  <2>1. UNCHANGED registry /\ worker[w].pc = "load"
    BY <1>1 DEF Load
  <2> QED
    BY <1>0, <1>1, <1>d, <2>1, LoadMeans DEF Frees, Keeps
<1>2. ASSUME Track(w)
      PROVE  Result
  <2>0. worker[w].pc = "track"
    BY <1>2 DEF Track
  <2>1. CASE Admits
    <3>1. /\ registry = "none" /\ registry' = "running"
          /\ Goto(w, "interrupt") \/ Goto(w, "orch")
      BY <1>2, <2>1 DEF Track, Admits
    <3> QED
      BY <1>0, <2>0, <3>1, HandlerMoves DEF Stays, Keeps, WorkerPcs, Executing, Registers, Result
  <2>2. CASE ~Admits
    <3>1. UNCHANGED registry /\ Fails(w, "busy") /\ "busy" \in Errors
      BY <1>2, <2>2 DEF Track, Fails, Errors
    <3> QED
      BY <1>0, <1>d, <2>0, <3>1, HandlerMoves DEF Throws, Keeps
  <2> QED
    BY <2>1, <2>2
<1>3. ASSUME Interrupt(w)
      PROVE  Result
  <2>1. \E e \in Errors : Throw(w, e)
    BY <1>3 DEF Interrupt, Errors
  <2>2. worker[w].pc \in Executing
    BY <1>3 DEF Interrupt, Executing
  <2> QED
    BY <1>a, <2>1, <2>2
<1>4. ASSUME Orchestrate(w) \/ Close(w)
      PROVE  Result
  <2>1. worker[w].pc \in Executing /\ UNCHANGED registry /\ (Goto(w, "enter") \/ Goto(w, "complete"))
    BY <1>4 DEF Orchestrate, Close, Executing
  <2>2. {"enter", "complete"} \subseteq Executing \cap WorkerPcs
    BY DEF Executing, WorkerPcs
  <2> QED
    BY <1>e, <2>1, <2>2
<1>5. ASSUME Enter(w)
      PROVE  Result
  <2>1. worker[w].pc \in Executing
    BY <1>5 DEF Enter, Executing
  <2>2. \/ UNCHANGED registry /\ Goto(w, "look")
        \/ \E e \in Errors : Throw(w, e)
    BY <1>5 DEF Enter, Errors
  <2>3. "look" \in Executing \cap WorkerPcs
    BY DEF Executing, WorkerPcs
  <2> QED
    BY <1>a, <1>e, <2>1, <2>2, <2>3
<1>6. ASSUME Look(w)
      PROVE  Result
  <2>1. worker[w].pc \in Executing
    BY <1>6 DEF Look, Executing
  <2> QED
    BY <1>6, <1>a, <1>b, <1>c, <2>1, LookRegistry
<1>7. ASSUME Claim(w)
      PROVE  Result
  <2> DEFINE q == [worker[w].seen EXCEPT !.node[worker[w].n] = "running"]
  <2>1. worker[w].pc \in Executing
    BY <1>7 DEF Claim, Executing
  <2>2. q \in Row
    BY <1>0, NodeOutcomes DEF Handler, NodeStatus
  <2>3. \/ UNCHANGED registry /\ Plans(w, "act", q)
        \/ \E e \in Errors : Throw(w, e)
    <3>1. "aborted" \in Errors /\ "stale" \in Errors
      BY DEF Errors
    <3> QED
      BY <1>7, <3>1 DEF Claim, Plans
  <2> HIDE DEF q
  <2>4. "act" \in WorkerPcs /\ "act" \in Executing
    BY DEF WorkerPcs, Executing
  <2>5. ASSUME UNCHANGED registry, Plans(w, "act", q)
        PROVE  Result
    <3>1. Keeps(w) /\ worker'[w].pc = "act"
      BY <1>0, <2>2, <2>4, <2>5, HandlerMoves
    <3> QED
      BY <1>c, <2>1, <2>4, <2>5, <3>1 DEF Keeps
  <2> QED
    BY <1>a, <2>1, <2>3, <2>5
<1>8. ASSUME Act(w)
      PROVE  Result
  <2>1. worker[w].pc \in Executing /\ UNCHANGED registry
    BY <1>8 DEF Act, Executing
  <2>2. Others(w) /\ worker'[w].pc \in {"save", "bury", "effect"}
    BY <1>8, ActMeans DEF EndsNode, Stays, Keeps
  <2> QED
    BY <1>c, <2>1, <2>2 DEF Executing
<1>9. ASSUME Effect(w)
      PROVE  Result
  <2>1. worker[w].pc \in Executing /\ UNCHANGED registry
    BY <1>9 DEF Effect, Executing
  <2>2. Others(w) /\ worker'[w].pc \in {"save", "bury"}
    BY <1>9, EffectMeans DEF EndsNode, Keeps
  <2> QED
    BY <1>c, <2>1, <2>2 DEF Executing
<1>10. ASSUME Save(w)
       PROVE  Result
  <2>1. worker[w].pc \in Executing
    BY <1>10 DEF Save, Executing
  <2>2. \/ UNCHANGED registry /\ (Goto(w, "pause") \/ Goto(w, "look"))
        \/ \E e \in Errors : Throw(w, e)
    BY <1>10 DEF Save, Errors
  <2>3. {"pause", "look"} \subseteq Executing \cap WorkerPcs
    BY DEF Executing, WorkerPcs
  <2> QED
    BY <1>a, <1>e, <2>1, <2>2, <2>3
<1>11. ASSUME Pause(w) \/ Drop(w)
       PROVE  Result
  <2>1. worker[w].pc \in Executing /\ Free(w) /\ registry' = "done"
    BY <1>11 DEF Pause, Drop, Return, Executing
  <2> QED
    BY <1>b, <2>1
<1>12. ASSUME Bury(w)
       PROVE  Result
  <2>1. worker[w].pc \in Executing /\ \E e \in Errors : Throw(w, e)
    BY <1>12 DEF Bury, Executing, Errors
  <2> QED
    BY <1>a, <2>1
<1>13. ASSUME Complete(w)
       PROVE  Result
  <2>1. worker[w].pc \in Executing
    BY <1>13 DEF Complete, Executing
  <2>2. \/ Free(w) /\ registry' = "done"
        \/ \E e \in Errors : Throw(w, e)
    BY <1>13 DEF Complete, Return, Errors
  <2> QED
    BY <1>a, <1>b, <2>1, <2>2
<1>14. ASSUME Fail(w)
       PROVE  Result
  <2>1. UNCHANGED registry /\ worker[w].pc = "fail"
    BY <1>14 DEF Fail
  <2> QED
    BY <1>0, <1>14, <1>d, <2>1, FailMeans DEF Frees, Keeps
<1>15. ASSUME FailOrchestration(w)
       PROVE  Result
  <2>1. UNCHANGED registry /\ worker[w].pc = "failorch"
    BY <1>15 DEF FailOrchestration
  <2> QED
    BY <1>15, <1>d, <2>1, FailOrchestrationMeans DEF Stays, Keeps
<1>16. ASSUME FailRow(w)
       PROVE  Result
  <2>1. UNCHANGED registry /\ worker[w].pc = "failrow"
    BY <1>16 DEF FailRow
  <2> QED
    BY <1>0, <1>16, <1>d, <2>1, FailRowMeans DEF Frees
<1>17. ASSUME Deny(w)
       PROVE  Result
  <2>1. UNCHANGED registry /\ worker[w].pc = "track"
    BY <1>17 DEF Deny
  <2> QED
    BY <1>17, <1>d, <2>1, DenyMeans DEF Throws, Keeps
<1>18. ASSUME TimeOut(w)
       PROVE  Result
  <2>1. worker[w].pc \in Executing /\ \E e \in Errors : Throw(w, e)
    BY <1>18 DEF TimeOut, Executing, Errors
  <2> QED
    BY <1>a, <2>1
<1>19. Result
  BY <1>1, <1>2, <1>3, <1>4, <1>5, <1>6, <1>7, <1>8, <1>9, <1>10, <1>11, <1>12, <1>13,
     <1>14, <1>15, <1>16, <1>17, <1>18 DEF Works
<1> QED
  BY <1>19 DEF Result

\* So one handler at most executes, and the entry lasts as long as it does.
LEMMA OneExecutes ==
    ASSUME OneExecutor, NEW w \in Workers, Registers(w), Others(w)
    PROVE  /\ OneExecutor'
           /\ registry' = "none" => registry = "none"
           /\ worker[w].pc \in Executing =>
                 /\ registry # "none" /\ registry' # "none"
                 /\ \A v \in Workers \ {w} : worker[v].pc \notin Executing
<1>1. CASE UNCHANGED registry /\ (worker[w].pc \in Executing <=> worker'[w].pc \in Executing)
  <2>1. \A v \in Workers : worker'[v].pc \in Executing <=> worker[v].pc \in Executing
    BY <1>1 DEF Others
  <2> HIDE DEF Executing
  <2> QED
    BY <1>1, <2>1 DEF OneExecutor
<1>2. CASE /\ registry = "none" /\ registry' = "running"
           /\ worker[w].pc \notin Executing /\ worker'[w].pc \in Executing
  <2>1. \A v \in Workers : worker[v].pc \notin Executing
    BY <1>2 DEF OneExecutor
  <2>2. \A v \in Workers : worker'[v].pc \in Executing => v = w
    BY <2>1 DEF Others
  <2> QED
    BY <1>2, <2>1, <2>2 DEF OneExecutor
<1>3. CASE worker[w].pc \in Executing /\ registry' = "done" /\ worker'[w].pc \notin Executing
  <2>1. \A v \in Workers : worker'[v].pc \notin Executing
    BY <1>3 DEF OneExecutor, Others
  <2> QED
    BY <1>3, <2>1 DEF OneExecutor
<1> QED
  BY <1>1, <1>2, <1>3 DEF Registers

-----------------------------------------------------------------------------
(* What a handler writes, reports and keeps in its memory. *)

\* The record it leaves has a drawn job and asks if it waits.
Writes(w) ==
    \/ UNCHANGED row
    \/ /\ row'.st \in {"running", "waiting_approval", "completed", "failed", "queued"}
       /\ row'.job \in 1..sent
       /\ row'.granted \in {worker[w].seen.granted, worker[w].out.granted}
       /\ PausedAsks'
\* Its own job is all that it reports.
Spends(w) == UNCHANGED job \/ Finishes(w, TRUE) \/ Finishes(w, FALSE)
\* Its memory comes from its memory and from the record.
Recalls(w) ==
    LET x == worker[w]
        y == worker'[w]
    IN  /\ y.pc # "idle" => y.job = x.job
        /\ y.pc \notin {"idle", "load"} => y.seen.job \in 1..sent
        /\ y.pc \in {"act", "effect", "save", "bury"} => y.out.job \in 1..sent
        /\ y.seen.granted \in {x.seen.granted, row.granted, {}}
        /\ y.out.granted \in {x.out.granted, x.seen.granted, row.granted, {}}

\* Every step of a handler is of that kind.
LEMMA HandlerDraws ==
    ASSUME TypeOK, PausedAsks, JobsDrawn, NEW w \in Workers, StatusInStep(worker[w]),
           Works(w) \/ Deny(w) \/ TimeOut(w)
    PROVE  Writes(w) /\ Spends(w) /\ Recalls(w)
<1> DEFINE x == worker[w]
           Result == Writes(w) /\ Spends(w) /\ Recalls(w)
<1>0. /\ x.pc # "idle" => x.job \in 1..sent
      /\ x.pc \notin {"idle", "load"} => x.seen.job \in 1..sent
      /\ x.pc \in {"act", "effect", "save", "bury"} => x.out.job \in 1..sent
      /\ row.st # "none" => row.job \in 1..sent
      /\ row.st = "none" => sent = 0
      /\ sent \in Nat
  BY GraphAssumption DEF JobsDrawn, TypeOK
<1>1. /\ x.seen \in Row /\ x.out \in Row /\ x.n \in Nodes \cup {0} /\ row \in Row
      /\ x.pc \in WorkerPcs
  BY DEF TypeOK, Handler
<1>2. x.pc # "idle" => row.st # "none" /\ row.job \in 1..sent
  BY <1>0
<1>a. ASSUME Throws(w), UNCHANGED job, x.pc \notin {"idle", "load"}, Writes(w)
      PROVE  Result
  BY <1>0, <1>a DEF Throws, Keeps, Recalls, Spends
<1>b. ASSUME Frees(w), Spends(w), Writes(w)
      PROVE  Result
  BY <1>0, <1>b DEF Frees, IdleWorker, NoRow, Recalls
<1>c. ASSUME NEW pc \in WorkerPcs, Stays(w, pc), UNCHANGED job, x.pc \notin {"idle", "load"}, Writes(w),
             pc \in {"act", "effect", "save", "bury"} => x.pc \in {"act", "effect", "save", "bury"}
      PROVE  Result
  BY <1>0, <1>c DEF Stays, Keeps, Recalls, Spends
<1>d. ASSUME EndsNode(w), UNCHANGED <<row, job>>, x.pc \in {"act", "effect"}, x.n \in Nodes
      PROVE  Result
  <2>1. /\ worker'[w].seen = x.seen /\ worker'[w].out.granted = x.out.granted
        /\ worker'[w].out.job = x.out.job
    BY <1>1, <1>d, EndsFields
  <2> QED
    BY <1>0, <1>d, <2>1 DEF EndsNode, Keeps, Recalls, Spends, Writes
<1> HIDE DEF Result, x
<1>3. ASSUME Load(w)
      PROVE  Result
  <2>1. x.pc = "load" /\ UNCHANGED row
    BY <1>3, LoadMeans, HandlerFrames DEF x
  <2>2. CASE Frees(w) /\ (Finishes(w, TRUE) \/ Finishes(w, FALSE))
    BY <1>b, <2>1, <2>2 DEF Spends, Writes
  <2>3. CASE /\ row.st \in Open /\ UNCHANGED job /\ Keeps(w) /\ worker'[w].pc = "track"
             /\ worker'[w].seen = row /\ worker'[w].out = worker[w].out
    BY <1>2, <2>1, <2>3 DEF Keeps, Recalls, Spends, Writes, Result, x
  <2> QED
    BY <1>3, <2>2, <2>3, LoadMeans
<1>4. ASSUME Track(w)
      PROVE  Result
  <2>1. x.pc = "track" /\ UNCHANGED <<row, job>>
    BY <1>4, TrackMeans, HandlerFrames DEF x
  <2> QED
    BY <1>4, <1>a, <1>c, <2>1, TrackMeans DEF Writes, WorkerPcs
<1>5. ASSUME Interrupt(w)
      PROVE  Result
  <2>1. x.pc = "interrupt" /\ Throws(w) /\ UNCHANGED job
    BY <1>5, InterruptMeans, HandlerFrames DEF x
  <2>2. x.seen.st \in Open /\ x.seen.job \in 1..sent
    BY <1>0, <2>1 DEF StatusInStep, Entering, x
  <2>3. UNCHANGED row \/ (row'.st = x.seen.st /\ row'.granted = x.seen.granted /\ row'.job = x.seen.job)
    BY <1>5, InterruptMeans DEF x
  <2>4. Writes(w)
    BY <2>2, <2>3 DEF Writes, PausedAsks, Open, x
  <2> QED
    BY <1>a, <2>1, <2>4
<1>6. ASSUME Orchestrate(w) \/ Close(w) \/ FailOrchestration(w)
      PROVE  Result
  <2>1. x.pc \in {"orch", "close", "failorch"} /\ UNCHANGED <<row, job>>
    BY <1>6, OrchestrateMeans, CloseMeans, FailOrchestrationMeans, HandlerFrames DEF x
  <2>2. Stays(w, "enter") \/ Stays(w, "complete") \/ Stays(w, "failrow")
    BY <1>6, OrchestrateMeans, CloseMeans, FailOrchestrationMeans
  <2> QED
    BY <1>c, <2>1, <2>2 DEF Writes, WorkerPcs
<1>7. ASSUME Enter(w)
      PROVE  Result
  <2>1. x.pc = "enter" /\ UNCHANGED job
    BY <1>7, EnterMeans, HandlerFrames DEF x
  <2>2. CASE UNCHANGED row /\ Throws(w)
    BY <1>a, <2>1, <2>2 DEF Writes
  <2>3. CASE /\ Stays(w, "look") /\ row'.st = "running" /\ row'.job = x.seen.job
             /\ row'.granted = x.seen.granted
    <3>1. Writes(w)
      BY <1>0, <2>1, <2>3 DEF Writes, PausedAsks, x
    <3> QED
      BY <1>c, <2>1, <2>3, <3>1 DEF WorkerPcs
  <2> QED
    BY <1>7, <2>2, <2>3, EnterMeans DEF x
<1>8. ASSUME Look(w)
      PROVE  Result
  <2>1. x.pc = "look" /\ UNCHANGED row
    BY <1>8, LookMeans, HandlerFrames DEF x
  <2>2. CASE Throws(w) /\ UNCHANGED job
    BY <1>a, <2>1, <2>2 DEF Writes
  <2>3. CASE Stays(w, "drop") /\ UNCHANGED job
    BY <1>c, <2>1, <2>3 DEF Writes, WorkerPcs
  <2>4. CASE Frees(w) /\ Finishes(w, TRUE)
    BY <1>b, <2>1, <2>4 DEF Writes, Spends
  <2>5. CASE /\ UNCHANGED job /\ Keeps(w) /\ worker'[w].seen = row
             /\ worker'[w].pc \in {"close", "claim"} /\ worker'[w].out = x.out
    BY <1>2, <2>1, <2>5 DEF Keeps, Recalls, Spends, Writes, Result, x
  <2>6. ASSUME UNCHANGED job, Keeps(w), worker'[w].seen = row, worker'[w].pc = "save", NEW n \in Nodes,
               worker'[w].out = [row EXCEPT !.node[n] = "skipped"]
        PROVE  Result
    <3>1. worker'[w].out.job = row.job /\ worker'[w].out.granted = row.granted
      BY <1>1, <2>6 DEF Row
    <3> QED
      BY <1>2, <2>1, <2>6, <3>1 DEF Keeps, Recalls, Spends, Writes, Result, x
  <2> QED
    BY <1>8, <2>2, <2>3, <2>4, <2>5, <2>6, LookMeans DEF x
<1>9. ASSUME Claim(w)
      PROVE  Result
  <2>1. x.pc = "claim" /\ UNCHANGED job
    BY <1>9, ClaimMeans, HandlerFrames DEF x
  <2>2. CASE UNCHANGED row /\ Throws(w)
    BY <1>a, <2>1, <2>2 DEF Writes
  <2> DEFINE q == [x.seen EXCEPT !.node[x.n] = "running"]
  <2>3. CASE /\ Keeps(w) /\ worker'[w].pc = "act" /\ worker'[w].out = q
             /\ worker'[w].seen = x.seen
             /\ row'.st = "running" /\ Agrees(row', q)
    <3>1. q.job = x.seen.job /\ q.granted = x.seen.granted
      BY <1>1 DEF Row
    <3> HIDE DEF q
    <3>2. Writes(w)
      BY <1>0, <2>1, <2>3, <3>1 DEF Writes, PausedAsks, Agrees, x
    <3>3. Recalls(w)
      BY <1>0, <2>1, <2>3, <3>1 DEF Recalls, Keeps, x
    <3> QED
      BY <2>1, <3>2, <3>3 DEF Spends, Result
  <2> QED
    BY <1>9, <2>2, <2>3, ClaimMeans DEF x
<1>10. ASSUME Act(w)
       PROVE  Result
  <2>1. x.pc = "act" /\ UNCHANGED <<row, job>>
    BY <1>10, ActMeans, HandlerFrames DEF x
  <2>2. x.n \in Nodes
    BY <2>1 DEF StatusInStep, Working, x
  <2>3. CASE EndsNode(w)
    BY <1>d, <2>1, <2>2, <2>3
  <2>4. CASE /\ Keeps(w) /\ worker'[w].pc = "save" /\ worker'[w].seen = x.seen
             /\ worker'[w].out = NodeAsks(x.out, x.n)
    <3>0. NodeAsks(x.out, x.n).job = x.out.job /\ NodeAsks(x.out, x.n).granted = x.out.granted
      BY <1>1, <2>2, AsksFields
    <3>1. worker'[w].out.job = x.out.job /\ worker'[w].out.granted = x.out.granted
      BY <2>4, <3>0
    <3> QED
      BY <1>0, <2>1, <2>4, <3>1 DEF Keeps, Recalls, Spends, Writes, Result, x
  <2>5. CASE Stays(w, "effect")
    BY <1>c, <2>1, <2>5 DEF Writes, WorkerPcs
  <2> QED
    BY <1>10, <2>3, <2>4, <2>5, ActMeans DEF x
<1>11. ASSUME Effect(w)
       PROVE  Result
  <2>1. x.pc = "effect" /\ UNCHANGED <<row, job>> /\ EndsNode(w)
    BY <1>11, EffectMeans, HandlerFrames DEF x
  <2> QED
    BY <1>d, <2>1 DEF StatusInStep, Working, x
<1>12. ASSUME Save(w)
       PROVE  Result
  <2>1. x.pc = "save" /\ UNCHANGED job
    BY <1>12, SaveMeans, HandlerFrames DEF x
  <2>2. CASE UNCHANGED row /\ Throws(w)
    BY <1>a, <2>1, <2>2 DEF Writes
  <2> DEFINE paused == x.out.node[x.n] = "waiting"
  <2>3. CASE /\ Stays(w, IF paused THEN "pause" ELSE "look")
             /\ row'.st = (IF paused THEN "waiting_approval" ELSE "running")
             /\ row'.node = x.out.node /\ row'.ask = x.out.ask
             /\ row'.answer = x.out.answer /\ row'.granted = x.out.granted /\ row'.job = x.out.job
    <3>1. x.n \in Nodes /\ (paused => x.out.ask = x.n /\ x.out.answer = "pending")
      BY <2>1 DEF StatusInStep, Working, x
    <3>2. PausedAsks'
      BY <2>3, <3>1 DEF PausedAsks
    <3>3. Writes(w)
      BY <1>0, <2>1, <2>3, <3>2 DEF Writes, x
    <3> QED
      BY <1>c, <2>1, <2>3, <3>3 DEF WorkerPcs
  <2> QED
    BY <1>12, <2>2, <2>3, SaveMeans DEF x
<1>13. ASSUME Pause(w) \/ Drop(w)
       PROVE  Result
  <2>1. UNCHANGED row /\ Frees(w) /\ Finishes(w, TRUE)
    BY <1>13, PauseMeans, DropMeans
  <2> QED
    BY <1>b, <2>1 DEF Writes, Spends
<1>14. ASSUME Bury(w)
       PROVE  Result
  <2>1. x.pc = "bury" /\ UNCHANGED job /\ Throws(w)
    BY <1>14, BuryMeans, HandlerFrames DEF x
  <2>2. Writes(w)
    BY <1>0, <1>14, <2>1, BuryMeans DEF Writes, PausedAsks, x
  <2> QED
    BY <1>a, <2>1, <2>2
<1>15. ASSUME Complete(w)
       PROVE  Result
  <2>1. x.pc = "complete"
    BY <1>15, HandlerFrames DEF x
  <2>2. CASE UNCHANGED <<row, job>> /\ Throws(w)
    BY <1>a, <2>1, <2>2 DEF Writes
  <2>3. CASE /\ Frees(w) /\ Finishes(w, TRUE) /\ row'.st = "completed"
             /\ row'.granted = x.seen.granted /\ row'.job = x.seen.job
    <3>1. Writes(w)
      BY <1>0, <2>1, <2>3 DEF Writes, PausedAsks, x
    <3> QED
      BY <1>b, <2>3, <3>1 DEF Spends
  <2> QED
    BY <1>15, <2>2, <2>3, CompleteMeans DEF x
<1>16. ASSUME Fail(w)
       PROVE  Result
  <2>1. x.pc = "fail" /\ UNCHANGED row
    BY <1>16, FailMeans, HandlerFrames DEF x
  <2>2. CASE Frees(w) /\ Finishes(w, FALSE)
    BY <1>b, <2>1, <2>2 DEF Writes, Spends
  <2>3. CASE /\ UNCHANGED job /\ Keeps(w) /\ worker'[w].pc = "failorch"
             /\ worker'[w].seen = row /\ worker'[w].out = x.out
    BY <1>2, <2>1, <2>3 DEF Keeps, Recalls, Spends, Writes, Result, x
  <2> QED
    BY <1>16, <2>2, <2>3, FailMeans DEF x
<1>17. ASSUME FailRow(w)
       PROVE  Result
  <2>1. x.pc = "failrow" /\ Frees(w) /\ Finishes(w, FALSE)
    BY <1>17, FailRowMeans, HandlerFrames DEF x
  <2>2. Writes(w)
    BY <1>0, <1>17, <2>1, FailRowMeans DEF Writes, PausedAsks, x
  <2> QED
    BY <1>b, <2>1, <2>2 DEF Spends
<1>18. ASSUME Deny(w) \/ TimeOut(w)
       PROVE  Result
  <2>1. x.pc \in {"track", "look", "claim"} /\ UNCHANGED <<row, job>> /\ Throws(w)
    BY <1>18, DenyMeans, TimeOutMeans, HandlerFrames DEF x
  <2> QED
    BY <1>a, <2>1 DEF Writes
<1>19. Result
  BY <1>3, <1>4, <1>5, <1>6, <1>7, <1>8, <1>9, <1>10, <1>11, <1>12, <1>13, <1>14, <1>15,
     <1>16, <1>17, <1>18 DEF Works
<1> QED
  BY <1>19 DEF Result

-----------------------------------------------------------------------------
(* However many handlers run beside each other: what the record and the     *)
(* memory of one handler say of one node.                                   *)

EffectBooked(n) ==
    /\ effects[n] <= 1
    /\ n \in Guarded /\ effects[n] > 0 => decisions[n] = {"approved"}
RecordBooked(n) ==
    row.st # "cancelled" =>
        /\ row.node[n] \in NotBegun => effects[n] = 0
        /\ n \in Guarded =>
              /\ n \in row.granted => decisions[n] = {"approved"}
              /\ decisions[n] # {} => n \in row.granted \/ row.node[n] = "failed"
              /\ row.node[n] = "waiting" => n \notin row.granted
MemoryBooked(w, n) ==
    LET x == worker[w]
    IN  /\ row.st # "cancelled" /\ Carries(x) => NodeInStep(x, n)
        /\ x.n = n =>
              /\ x.pc \in {"claim", "act"} => effects[n] = 0
              /\ x.pc \in {"save", "bury"} /\ x.out.node[n] \in NotBegun => effects[n] = 0
              /\ n \in Guarded =>
                    /\ x.pc = "act" /\ n \in x.out.granted => decisions[n] = {"approved"}
                    /\ x.pc \in {"save", "bury"} /\ x.out.node[n] = "waiting" =>
                          n \notin x.out.granted
Booked(n) == EffectBooked(n) /\ RecordBooked(n) /\ \A w \in Workers : MemoryBooked(w, n)

\* The invariant's two books say this of every node.
LEMMA BookedIs ==
    /\ (\A n \in Nodes \ undone : NodeBooked(n)) /\ (\A n \in Guarded \ undone : ApprovalBooked(n))
          => \A n \in Nodes \ undone : Booked(n)
    /\ (\A n \in Nodes \ undone : Booked(n))
          => /\ \A n \in Nodes \ undone : NodeBooked(n)
             /\ \A n \in Guarded \ undone : ApprovalBooked(n)
<1>1. Guarded \subseteq Nodes
  BY GraphAssumption
<1>2. ASSUME NEW n \in Nodes \ undone, NodeBooked(n), n \in Guarded => ApprovalBooked(n)
      PROVE  Booked(n)
  <2>1. EffectBooked(n)
    BY <1>2 DEF NodeBooked, ApprovalBooked, EffectBooked
  <2>2. RecordBooked(n)
    BY <1>2 DEF NodeBooked, ApprovalBooked, RecordBooked
  <2>3. ASSUME NEW w \in Workers
        PROVE  MemoryBooked(w, n)
    BY <1>2 DEF NodeBooked, ApprovalBooked, MemoryBooked
  <2> QED
    BY <2>1, <2>2, <2>3 DEF Booked
<1>3. ASSUME NEW n \in Nodes \ undone, Booked(n)
      PROVE  NodeBooked(n)
  BY <1>3 DEF NodeBooked, EffectBooked, RecordBooked, MemoryBooked, Booked
<1>4. ASSUME NEW n \in Guarded \ undone, Booked(n)
      PROVE  ApprovalBooked(n)
  BY <1>4 DEF ApprovalBooked, EffectBooked, RecordBooked, MemoryBooked, Booked
<1> QED
  BY <1>1, <1>2, <1>3, <1>4

\* The place of a handler where it has nothing to write.
AtRest == {"idle", "load", "pause", "drop", "fail"}

\* What a handler knows of the status of the record, it knows after its step.
LEMMA HandlerStatus ==
    ASSUME TypeOK, NEW w \in Workers, StatusInStep(worker[w]), Registers(w),
           Works(w) \/ Deny(w) \/ TimeOut(w)
    PROVE  StatusInStep(worker[w])'
<1> DEFINE x == worker[w]
           Result == StatusInStep(worker[w])'
<1>0. x.seen \in Row /\ x.out \in Row /\ x.n \in Nodes \cup {0} /\ row \in Row /\ x.pc \in WorkerPcs
  BY DEF TypeOK, Handler
<1>a. ASSUME worker'[w].pc \in AtRest
      PROVE  Result
  BY <1>a DEF StatusInStep, AtRest, Entering, Working, Closing
<1>b. ASSUME EndsNode(w), UNCHANGED row, x.pc \in {"act", "effect"}
      PROVE  Result
  <2>1. x.n \in Nodes
    BY <1>b DEF StatusInStep, Working
  <2>2. /\ worker'[w].pc \in {"save", "bury"} /\ worker'[w].n = x.n /\ worker'[w].seen = x.seen
        /\ worker'[w].out.node[x.n] \in {"completed", "failed"}
    BY <1>0, <1>b, <2>1, EndsFields
  <2> QED
    BY <1>b, <2>1, <2>2 DEF StatusInStep, Entering, Working, Closing
<1>c. Frees(w) => worker'[w].pc \in AtRest
  BY DEF Frees, IdleWorker, AtRest
<1>d. Throws(w) => worker'[w].pc \in AtRest
  BY DEF Throws, AtRest
<1> HIDE DEF Result
<1>1. ASSUME Load(w)
      PROVE  Result
  <2>1. CASE Frees(w)
    BY <1>a, <1>c, <2>1
  <2>2. CASE row.st \in Open /\ worker'[w].pc = "track" /\ worker'[w].seen = row
    BY <1>1, <2>2, LoadMeans DEF StatusInStep, Entering, Working, Closing, Result
  <2> QED
    BY <1>1, <2>1, <2>2, LoadMeans
<1>2. ASSUME Track(w)
      PROVE  Result
  <2>1. x.pc = "track" /\ UNCHANGED row
    BY <1>2, TrackMeans, HandlerFrames
  <2>2. CASE Throws(w)
    BY <1>a, <1>d, <2>2
  <2>3. CASE Stays(w, "interrupt") \/ Stays(w, "orch")
    <3>1. worker'[w].pc \in {"interrupt", "orch"} /\ worker'[w].seen = x.seen
      BY <2>3 DEF Stays
    <3>2. registry = "none"
      BY <2>1, <3>1 DEF Registers, Executing
    <3> QED
      BY <2>1, <3>1, <3>2 DEF StatusInStep, Entering, Working, Closing, Result
  <2> QED
    BY <1>2, <2>2, <2>3, TrackMeans
<1>3. ASSUME Interrupt(w) \/ Bury(w) \/ Pause(w) \/ Drop(w) \/ FailRow(w) \/ Deny(w) \/ TimeOut(w) \/ Complete(w)
      PROVE  Result
  <2>1. Throws(w) \/ Frees(w)
    BY <1>3, InterruptMeans, BuryMeans, PauseMeans, DropMeans, FailRowMeans, DenyMeans, TimeOutMeans,
       CompleteMeans
  <2> QED
    BY <1>a, <1>c, <1>d, <2>1
<1>4. ASSUME Orchestrate(w)
      PROVE  Result
  <2>1. x.pc = "orch" /\ UNCHANGED row /\ worker'[w].pc = "enter" /\ worker'[w].seen = x.seen
    BY <1>4, OrchestrateMeans, HandlerFrames DEF Stays
  <2> QED
    BY <2>1 DEF StatusInStep, Entering, Working, Closing, Result
<1>5. ASSUME Enter(w)
      PROVE  Result
  <2>1. CASE Throws(w)
    BY <1>a, <1>d, <2>1
  <2>2. CASE worker'[w].pc = "look" /\ row'.st = "running"
    BY <2>2 DEF StatusInStep, Entering, Working, Closing, Result
  <2> QED
    BY <1>5, <2>1, <2>2, EnterMeans DEF Stays
<1>6. ASSUME Look(w)
      PROVE  Result
  <2>1. UNCHANGED row /\ row.st \in {"running", "failed", "cancelled"}
    BY <1>6, LookMeans, HandlerFrames DEF StatusInStep
  <2>2. CASE Throws(w) \/ Frees(w) \/ Stays(w, "drop")
    BY <1>a, <1>c, <1>d, <2>2 DEF Stays, AtRest
  <2>3. CASE /\ row.st # "cancelled" /\ worker'[w].seen = row /\ worker'[w].pc = "close"
    BY <2>1, <2>3 DEF StatusInStep, Entering, Working, Closing, Result
  <2>4. CASE /\ row.st # "cancelled" /\ worker'[w].seen = row /\ worker'[w].pc = "claim"
             /\ worker'[w].n \in Nodes /\ row.node[worker'[w].n] = "pending"
    BY <2>1, <2>4 DEF StatusInStep, Entering, Working, Closing, Result
  <2>5. ASSUME row.st # "cancelled", worker'[w].seen = row, worker'[w].pc = "save",
               NEW n \in Nodes, n = worker'[w].n, worker'[w].out = [row EXCEPT !.node[n] = "skipped"]
        PROVE  Result
    <3>1. worker'[w].out.node[n] = "skipped"
      BY <1>0, <2>5 DEF Row
    <3> QED
      BY <2>1, <2>5, <3>1 DEF StatusInStep, Entering, Working, Closing, Result
  <2> QED
    BY <1>6, <2>2, <2>3, <2>4, <2>5, LookMeans
<1>7. ASSUME Claim(w)
      PROVE  Result
  <2>1. x.pc = "claim" /\ x.n \in Nodes /\ x.seen.st \in {"running", "failed"}
    BY <1>7, HandlerFrames DEF StatusInStep, Working
  <2> DEFINE q == [x.seen EXCEPT !.node[x.n] = "running"]
  <2>2. q.node[x.n] = "running"
    BY <1>0, <2>1 DEF Row
  <2> HIDE DEF q
  <2>3. CASE Throws(w)
    BY <1>a, <1>d, <2>3
  <2>4. CASE /\ worker'[w].pc = "act" /\ worker'[w].out = q /\ worker'[w].seen = x.seen
             /\ worker'[w].n = x.n /\ row'.st = "running"
    BY <2>1, <2>2, <2>4 DEF StatusInStep, Entering, Working, Closing, Result
  <2> QED
    BY <1>7, <2>3, <2>4, ClaimMeans DEF q
<1>8. ASSUME Act(w)
      PROVE  Result
  <2>1. /\ x.pc = "act" /\ UNCHANGED row /\ x.n \in Nodes /\ x.seen.st \in {"running", "failed"}
        /\ row.st \in {"running", "failed", "cancelled"} /\ x.out.node[x.n] = "running"
    BY <1>8, ActMeans, HandlerFrames DEF StatusInStep, Working
  <2>2. CASE EndsNode(w)
    BY <1>b, <2>1, <2>2
  <2>3. CASE /\ worker'[w].pc = "save" /\ worker'[w].seen = x.seen /\ worker'[w].n = x.n
             /\ worker'[w].out = NodeAsks(x.out, x.n)
    <3>0. NodeAsks(x.out, x.n).ask = x.n /\ NodeAsks(x.out, x.n).answer = "pending"
      BY <1>0, <2>1, AsksFields
    <3>1. worker'[w].out.ask = x.n /\ worker'[w].out.answer = "pending"
      BY <2>3, <3>0
    <3> QED
      BY <2>1, <2>3, <3>1 DEF StatusInStep, Entering, Working, Closing, Result
  <2>4. CASE Stays(w, "effect")
    BY <2>1, <2>4 DEF Stays, StatusInStep, Entering, Working, Closing, Result
  <2> QED
    BY <1>8, <2>2, <2>3, <2>4, ActMeans
<1>9. ASSUME Effect(w)
      PROVE  Result
  BY <1>9, <1>b, EffectMeans, HandlerFrames
<1>10. ASSUME Save(w)
       PROVE  Result
  <2>1. CASE Throws(w)
    BY <1>a, <1>d, <2>1
  <2>2. CASE Stays(w, "pause")
    BY <1>a, <2>2 DEF Stays, AtRest
  <2>3. CASE Stays(w, "look") /\ row'.st \in {"running", "waiting_approval"} /\ (row'.st = "running")
    BY <2>3 DEF Stays, StatusInStep, Entering, Working, Closing, Result
  <2> QED
    BY <1>10, <2>1, <2>2, <2>3, SaveMeans
<1>11. ASSUME Close(w)
       PROVE  Result
  <2>1. x.pc = "close" /\ UNCHANGED row /\ worker'[w].pc = "complete" /\ worker'[w].seen = x.seen
    BY <1>11, CloseMeans, HandlerFrames DEF Stays
  <2> QED
    BY <2>1 DEF StatusInStep, Entering, Working, Closing, Result
<1>12. ASSUME Fail(w)
       PROVE  Result
  <2>1. CASE Frees(w)
    BY <1>a, <1>c, <2>1
  <2>2. CASE row.st \notin {"completed", "cancelled"} /\ worker'[w].pc = "failorch" /\ worker'[w].seen = row
    BY <2>2 DEF StatusInStep, Entering, Working, Closing, Result
  <2> QED
    BY <1>12, <2>1, <2>2, FailMeans
<1>13. ASSUME FailOrchestration(w)
       PROVE  Result
  <2>1. x.pc = "failorch" /\ worker'[w].pc = "failrow" /\ worker'[w].seen = x.seen
    BY <1>13, FailOrchestrationMeans, HandlerFrames DEF Stays
  <2> QED
    BY <2>1 DEF StatusInStep, Entering, Working, Closing, Result
<1>14. Result
  BY <1>1, <1>2, <1>3, <1>4, <1>5, <1>6, <1>7, <1>8, <1>9, <1>10, <1>11, <1>12, <1>13 DEF Works
<1> QED
  BY <1>14 DEF Result

\* Nothing of a node has changed that the books are about.
Same(n) ==
    /\ effects'[n] = effects[n] /\ decisions'[n] = decisions[n]
    /\ row'.st # "cancelled" =>
          /\ row.st # "cancelled" /\ row'.node[n] = row.node[n]
          /\ n \in row'.granted <=> n \in row.granted
SameMind(w) ==
    /\ worker'[w].pc = worker[w].pc /\ worker'[w].seen = worker[w].seen
    /\ worker'[w].n = worker[w].n /\ worker'[w].out = worker[w].out
    /\ registry' = "none" => registry = "none"

\* Then the books stay right.
LEMMA SameBooks ==
    ASSUME NEW n \in Nodes, Same(n)
    PROVE  /\ EffectBooked(n) => EffectBooked(n)'
           /\ RecordBooked(n) => RecordBooked(n)'
           /\ \A w \in Workers : SameMind(w) /\ MemoryBooked(w, n) => MemoryBooked(w, n)'
<1>1. EffectBooked(n) => EffectBooked(n)'
  BY DEF Same, EffectBooked
<1>2. RecordBooked(n) => RecordBooked(n)'
  BY DEF Same, RecordBooked
<1>3. ASSUME NEW w \in Workers, SameMind(w), MemoryBooked(w, n)
      PROVE  MemoryBooked(w, n)'
  <2> DEFINE x == worker[w]
             y == worker'[w]
  <2>1. x.pc = y.pc /\ x.seen = y.seen /\ x.n = y.n /\ x.out = y.out
    BY <1>3 DEF SameMind
  <2>2. /\ Memory(y) = Memory(x)
        /\ row'.st # "cancelled" /\ Carries(x)' => row.st # "cancelled" /\ Carries(x)
    BY <1>3, <2>1 DEF Memory, Carries, Same, SameMind
  <2>3. row'.st # "cancelled" /\ NodeInStep(x, n) => NodeInStep(x, n)'
    BY <2>1, <2>2 DEF NodeInStep, Same, Memory
  <2>4. row'.st # "cancelled" /\ Carries(x)' => NodeInStep(x, n)'
    BY <1>3, <2>2, <2>3 DEF MemoryBooked
  <2> QED
    BY <1>3, <2>1, <2>4 DEF MemoryBooked, Same
<1> QED
  BY <1>1, <1>2, <1>3

\* A handler that has nothing to write is right about every node.
LEMMA RestBooks ==
    ASSUME NEW w \in Workers, NEW n \in Nodes,
           \/ worker'[w].pc \in AtRest \cup {"look", "failorch", "failrow"}
           \/ worker'[w].pc = "track" /\ registry' # "none"
    PROVE  MemoryBooked(w, n)'
BY DEF MemoryBooked, AtRest, Carries, Entering, Working, Closing

\* The nodes of a record that is written from the memory of a handler.
LEMMA WritesBooks ==
    ASSUME NEW w \in Workers, NEW n \in Nodes, NodeInStep(worker[w], n), row.st # "cancelled",
           RecordBooked(n), UNCHANGED <<effects, decisions>>,
           row'.node[n] = Memory(worker[w]).node[n],
           n \in row'.granted <=> n \in Memory(worker[w]).granted,
           worker[w].pc \in {"save", "bury"} => worker[w].n # n
    PROVE  Same(n)
BY DEF Same, NodeInStep

\* What the record and a handler's memory say of a node stays right in the handler's step.
LEMMA HandlerBooked ==
    ASSUME TypeOK, NEW w \in Workers, StatusInStep(worker[w]), Registers(w),
           Works(w) \/ Deny(w) \/ TimeOut(w), NEW n \in Nodes, n \notin undone',
           EffectBooked(n), RecordBooked(n), MemoryBooked(w, n)
    PROVE  EffectBooked(n)' /\ RecordBooked(n)' /\ MemoryBooked(w, n)'
<1> DEFINE x == worker[w]
           y == worker'[w]
           Result == EffectBooked(n)' /\ RecordBooked(n)' /\ MemoryBooked(w, n)'
<1>0. x.seen \in Row /\ x.out \in Row /\ x.n \in Nodes \cup {0} /\ row \in Row /\ x.pc \in WorkerPcs
  BY DEF TypeOK, Handler
<1>a. ASSUME Same(n), y.pc \in AtRest \cup {"look", "failorch", "failrow"}
      PROVE  Result
  BY <1>a, SameBooks, RestBooks
<1>b. ASSUME Throws(w) \/ Frees(w), Same(n)
      PROVE  Result
  BY <1>a, <1>b DEF Throws, Frees, IdleWorker, AtRest
<1>c. ASSUME UNCHANGED <<row, effects, decisions>>
      PROVE  Same(n)
  BY <1>c DEF Same
<1>d. Carries(x) /\ row.st # "cancelled" => NodeInStep(x, n)
  BY DEF MemoryBooked
<1>e. ASSUME Stays(w, y.pc), UNCHANGED <<row, effects, decisions>>, x.pc \in Entering \cup Closing,
             y.pc \in Entering \cup Closing
      PROVE  Result
  <2>1. EffectBooked(n)' /\ RecordBooked(n)'
    BY <1>c, <1>e, SameBooks
  <2>2. MemoryBooked(w, n)'
    BY <1>d, <1>e DEF MemoryBooked, Stays, Carries, NodeInStep, Memory, Entering, Closing
  <2> QED
    BY <2>1, <2>2
<1>f. ASSUME y.seen = row, y.pc \in {"track", "claim", "close"}, UNCHANGED <<row, effects, decisions>>,
             y.pc = "claim" /\ y.n = n => row.st # "cancelled" /\ row.node[n] = "pending"
      PROVE  Result
  <2>1. EffectBooked(n)' /\ RecordBooked(n)'
    BY <1>c, <1>f, SameBooks
  <2>2. NodeInStep(x, n)'
    BY <1>f DEF NodeInStep, Memory
  <2>3. y.pc = "claim" /\ y.n = n => effects'[n] = 0
    BY <1>f DEF RecordBooked, NotBegun
  <2>4. MemoryBooked(w, n)'
    BY <1>f, <2>2, <2>3 DEF MemoryBooked
  <2> QED
    BY <2>1, <2>4
<1>g. ASSUME UNCHANGED <<row, effects, decisions>>, x.pc \in {"act", "effect"}, x.n \in Nodes,
             x.out.node[x.n] = "running", y.n = x.n, y.pc \in {"save", "bury"},
             y.out.granted = x.out.granted, \A m \in Nodes \ {x.n} : y.out.node[m] = x.out.node[m],
             x.n = n /\ y.out.node[n] \in NotBegun =>
                x.pc = "act" /\ (n \in Guarded => n \notin x.out.granted)
      PROVE  Result
  <2>1. EffectBooked(n)' /\ RecordBooked(n)'
    BY <1>c, <1>g, SameBooks
  <2>2. row.st # "cancelled" => NodeInStep(x, n)
    BY <1>d, <1>g DEF Carries, Working
  <2>3. row.st # "cancelled" => NodeInStep(x, n)'
    BY <1>g, <2>2 DEF NodeInStep, Memory
  <2>4. x.n = n /\ y.out.node[n] \in NotBegun => effects[n] = 0
    BY <1>g DEF MemoryBooked
  <2>5. "waiting" \in NotBegun
    BY DEF NotBegun
  <2>6. MemoryBooked(w, n)'
    BY <1>g, <2>3, <2>4, <2>5 DEF MemoryBooked
  <2> QED
    BY <2>1, <2>6
<1>h. ASSUME x.pc \in Entering \cup Working \cup Closing, row.st # "cancelled",
             UNCHANGED <<effects, decisions>>,
             row'.node[n] = Memory(x).node[n], row'.granted = Memory(x).granted,
             x.pc \in {"save", "bury"} => x.n # n
      PROVE  Same(n)
  BY <1>d, <1>h, WritesBooks DEF Carries
<1> HIDE DEF Result
<1>1. ASSUME Load(w)
      PROVE  Result
  <2>1. UNCHANGED <<row, effects, decisions>>
    BY <1>1, LoadMeans, HandlerFrames DEF HandlerFrame
  <2> QED
    BY <1>1, <1>b, <1>c, <1>f, <2>1, LoadMeans
<1>2. ASSUME Track(w)
      PROVE  Result
  <2>1. x.pc = "track" /\ UNCHANGED <<row, effects, decisions>>
    BY <1>2, TrackMeans, HandlerFrames DEF HandlerFrame
  <2>2. CASE Throws(w)
    BY <1>b, <1>c, <2>1, <2>2
  <2>3. CASE Stays(w, "interrupt") \/ Stays(w, "orch")
    <3>1. /\ y.pc \in {"interrupt", "orch"} /\ y.seen = x.seen /\ y.n = x.n /\ y.out = x.out
      BY <2>3 DEF Stays
    <3>2. registry = "none"
      BY <2>1, <3>1 DEF Registers, Executing
    <3>3. row.st # "cancelled" => NodeInStep(x, n)
      BY <1>d, <2>1, <3>2 DEF Carries
    <3>4. MemoryBooked(w, n)'
      BY <2>1, <3>1, <3>3 DEF MemoryBooked, NodeInStep, Memory
    <3> QED
      BY <1>c, <2>1, <3>4, SameBooks DEF Result
  <2> QED
    BY <1>2, <2>2, <2>3, TrackMeans
<1>3. ASSUME Interrupt(w)
      PROVE  Result
  <2>1. x.pc = "interrupt" /\ UNCHANGED <<effects, decisions>> /\ Throws(w)
    BY <1>3, InterruptMeans, HandlerFrames DEF HandlerFrame
  <2>2. CASE UNCHANGED row
    BY <1>b, <1>c, <2>1, <2>2
  <2>3. CASE /\ row.st = "running" /\ row'.granted = x.seen.granted
             /\ \A m \in Nodes : row'.node[m] = IF x.seen.node[m] = "running" THEN "failed"
                                                ELSE x.seen.node[m]
    <3>1. /\ row.node[n] = x.seen.node[n] /\ (n \in x.seen.granted <=> n \in row.granted)
      BY <1>d, <2>1, <2>3 DEF Carries, Entering, NodeInStep, Memory
    <3>2. row'.node[n] = row.node[n] \/ row'.node[n] = "failed"
      BY <2>3, <3>1
    <3>3. RecordBooked(n)'
      BY <2>1, <2>3, <3>1, <3>2 DEF RecordBooked, NotBegun
    <3>4. EffectBooked(n)'
      BY <2>1 DEF EffectBooked
    <3>5. MemoryBooked(w, n)'
      BY <2>1, RestBooks DEF Throws, AtRest
    <3> QED
      BY <3>3, <3>4, <3>5 DEF Result
  <2> QED
    BY <1>3, <2>2, <2>3, InterruptMeans
<1>4. ASSUME Orchestrate(w) \/ Close(w)
      PROVE  Result
  <2>1. /\ x.pc \in Entering \cup Closing /\ UNCHANGED <<row, effects, decisions>>
        /\ Stays(w, "enter") \/ Stays(w, "complete")
    BY <1>4, OrchestrateMeans, CloseMeans, HandlerFrames DEF HandlerFrame, Entering, Closing
  <2>2. Stays(w, y.pc) /\ y.pc \in Entering \cup Closing
    BY <2>1 DEF Stays, Entering, Closing
  <2> QED
    BY <1>e, <2>1, <2>2
<1>5. ASSUME Enter(w)
      PROVE  Result
  <2>1. x.pc = "enter" /\ UNCHANGED <<effects, decisions>> /\ x.seen.st \in Open
    BY <1>5, HandlerFrames DEF HandlerFrame, StatusInStep, Entering
  <2>2. CASE UNCHANGED row /\ Throws(w)
    BY <1>b, <1>c, <2>1, <2>2
  <2>3. CASE /\ row.st = x.seen.st /\ Stays(w, "look")
             /\ row'.node = x.seen.node /\ row'.granted = x.seen.granted
    <3>1. Memory(x) = x.seen /\ x.pc \in Entering /\ row.st # "cancelled"
      BY <2>1, <2>3 DEF Memory, Entering, Open
    <3>2. Same(n)
      BY <1>h, <2>1, <2>3, <3>1
    <3> QED
      BY <1>a, <2>3, <3>2 DEF Stays
  <2> QED
    BY <1>5, <2>2, <2>3, EnterMeans
<1>6. ASSUME Look(w)
      PROVE  Result
  <2>1. x.pc = "look" /\ UNCHANGED <<row, effects, decisions>>
    BY <1>6, LookMeans, HandlerFrames DEF HandlerFrame
  <2>2. CASE Throws(w) \/ Frees(w) \/ Stays(w, "drop")
    BY <1>a, <1>b, <1>c, <2>1, <2>2 DEF Stays, AtRest
  <2>3. CASE /\ row.st # "cancelled" /\ y.seen = row
             /\ \/ y.pc = "close"
                \/ y.pc = "claim" /\ row.node[y.n] = "pending"
    BY <1>f, <2>1, <2>3
  <2>4. ASSUME row.st # "cancelled", y.pc = "save", NEW m \in Nodes, m = y.n,
               y.out = [row EXCEPT !.node[m] = "skipped"], row.node[m] = "pending"
        PROVE  Result
    <3> DEFINE q == [row EXCEPT !.node[m] = "skipped"]
    <3>1. q.granted = row.granted /\ q.node[m] = "skipped"
          /\ \A k \in Nodes \ {m} : q.node[k] = row.node[k]
      BY <1>0 DEF Row
    <3>2. m = n => effects[n] = 0
      BY <2>4 DEF RecordBooked, NotBegun
    <3> HIDE DEF q
    <3>3. y.out = q
      BY <2>4 DEF q
    <3>4. MemoryBooked(w, n)'
      BY <2>1, <2>4, <3>1, <3>2, <3>3 DEF MemoryBooked, NodeInStep, Memory
    <3> QED
      BY <1>c, <2>1, <3>4, SameBooks DEF Result
  <2> QED
    BY <1>6, <2>2, <2>3, <2>4, LookMeans
<1>7. ASSUME Claim(w)
      PROVE  Result
  <2>1. /\ x.pc = "claim" /\ UNCHANGED <<effects, decisions>> /\ x.n \in Nodes
        /\ x.seen.st \in {"running", "failed"} /\ x.seen.node[x.n] = "pending"
    BY <1>7, HandlerFrames DEF HandlerFrame, StatusInStep, Working
  <2>2. CASE UNCHANGED row /\ Throws(w)
    BY <1>b, <1>c, <2>1, <2>2
  <2> DEFINE q == [x.seen EXCEPT !.node[x.n] = "running"]
  <2>3. q.granted = x.seen.granted /\ q.node[x.n] = "running"
        /\ \A k \in Nodes \ {x.n} : q.node[k] = x.seen.node[k]
    BY <1>0, <2>1 DEF Row
  <2> HIDE DEF q
  <2>4. CASE /\ row.st = x.seen.st /\ y.pc = "act" /\ y.out = q /\ y.n = x.n
             /\ row'.st = "running" /\ Agrees(row', q)
    <3>1. row.st # "cancelled"
      BY <2>1, <2>4
    <3>2. x.seen.node[n] = row.node[n] /\ (n \in x.seen.granted <=> n \in row.granted)
      BY <1>d, <2>1, <3>1 DEF Carries, Working, NodeInStep, Memory
    <3>3. row'.node = q.node /\ row'.granted = q.granted
      BY <2>4 DEF Agrees
    <3>4. EffectBooked(n)'
      BY <2>1 DEF EffectBooked
    <3>5. NodeInStep(x, n)'
      BY <2>4, <3>3 DEF NodeInStep, Memory
    <3>6. CASE n # x.n
      <4>1. row'.node[n] = row.node[n] /\ (n \in row'.granted <=> n \in row.granted)
        BY <2>3, <3>2, <3>3, <3>6
      <4>2. RecordBooked(n)'
        BY <2>1, <3>1, <4>1 DEF RecordBooked
      <4>3. MemoryBooked(w, n)'
        BY <2>4, <3>5, <3>6 DEF MemoryBooked
      <4> QED
        BY <3>4, <4>2, <4>3 DEF Result
    <3>7. CASE n = x.n
      <4>1. row.node[n] = "pending" /\ effects[n] = 0
        BY <2>1, <3>2, <3>7 DEF MemoryBooked
      <4>2. row'.node[n] = "running" /\ (n \in row'.granted <=> n \in row.granted)
        BY <2>3, <3>2, <3>3, <3>7
      <4>3. n \in Guarded => (n \in row.granted => decisions[n] = {"approved"})
        BY <3>1 DEF RecordBooked
      <4>4. RecordBooked(n)'
        BY <2>1, <3>1, <4>1, <4>2 DEF RecordBooked, NotBegun
      <4>5. n \in Guarded /\ n \in y.out.granted => decisions'[n] = {"approved"}
        BY <2>1, <2>4, <3>3, <4>2, <4>3
      <4>6. MemoryBooked(w, n)'
        BY <2>1, <2>4, <3>5, <4>1, <4>5 DEF MemoryBooked
      <4> QED
        BY <3>4, <4>4, <4>6 DEF Result
    <3> QED
      BY <3>6, <3>7
  <2> QED
    BY <1>7, <2>2, <2>4, ClaimMeans DEF q
<1>8. ASSUME EndsNode(w), UNCHANGED <<row, effects, decisions>>, x.pc \in {"act", "effect"}
      PROVE  Result
  <2>1. x.n \in Nodes /\ x.out.node[x.n] = "running"
    BY <1>8 DEF StatusInStep, Working
  <2>2. /\ y.pc \in {"save", "bury"} /\ y.n = x.n
        /\ y.out.node[x.n] \in {"completed", "failed"}
        /\ \A m \in Nodes \ {x.n} : y.out.node[m] = x.out.node[m]
        /\ y.out.granted = x.out.granted
    BY <1>0, <1>8, <2>1, EndsFields
  <2>3. x.n = n => y.out.node[n] \notin NotBegun
    BY <2>2 DEF NotBegun
  <2> QED
    BY <1>8, <1>g, <2>1, <2>2, <2>3
<1>9. ASSUME Act(w)
      PROVE  Result
  <2>1. /\ x.pc = "act" /\ UNCHANGED <<row, decisions>> /\ x.n \in Nodes
        /\ x.out.node[x.n] = "running"
    BY <1>9, ActMeans, HandlerFrames DEF HandlerFrame, StatusInStep, Working
  <2>2. CASE UNCHANGED effects /\ EndsNode(w)
    BY <1>8, <2>1, <2>2
  <2>3. CASE /\ UNCHANGED effects /\ y.pc = "save" /\ y.n = x.n
             /\ y.out = NodeAsks(x.out, x.n)
             /\ Kind[x.n] = "tool" => x.n \notin x.out.granted
    <3> DEFINE q == NodeAsks(x.out, x.n)
    <3>1. q.node = [x.out.node EXCEPT ![x.n] = "waiting"] /\ q.granted = x.out.granted
      BY <1>0, <2>1, AsksFields
    <3> HIDE DEF q
    <3>2. y.out = q
      BY <2>3 DEF q
    <3>3. \A m \in Nodes \ {x.n} : y.out.node[m] = x.out.node[m]
      BY <1>0, <3>1, <3>2 DEF Row
    <3>4. x.n \in Guarded => x.n \notin x.out.granted
      BY <2>3, GraphAssumption
    <3> QED
      BY <1>g, <2>1, <2>3, <3>1, <3>2, <3>3, <3>4
  <2>4. CASE /\ Stays(w, "effect") /\ effects' = [effects EXCEPT ![x.n] = IF @ = 2 THEN 2 ELSE @ + 1]
             /\ x.n \in Guarded => x.n \in x.out.granted
    <3>1. y.pc = "effect" /\ y.n = x.n /\ y.out = x.out
      BY <2>4 DEF Stays
    <3>2. row.st # "cancelled" => NodeInStep(x, n)
      BY <1>d, <2>1 DEF Carries, Working
    <3>3. MemoryBooked(w, n)'
      BY <2>1, <3>1, <3>2 DEF MemoryBooked, NodeInStep, Memory
    <3>4. CASE n # x.n
      <4>1. effects'[n] = effects[n]
        BY <2>4, <3>4 DEF TypeOK
      <4> QED
        BY <2>1, <3>3, <4>1 DEF EffectBooked, RecordBooked, Result
    <3>5. CASE n = x.n
      <4>1. effects[n] = 0
        BY <2>1, <3>5 DEF MemoryBooked
      <4>2. effects'[n] = 1
        BY <2>4, <3>5, <4>1 DEF TypeOK
      <4>3. n \in Guarded => decisions[n] = {"approved"}
        BY <2>1, <2>4, <3>5 DEF MemoryBooked
      <4>4. row.st # "cancelled" => row.node[n] = "running"
        BY <2>1, <3>2, <3>5 DEF NodeInStep, Memory
      <4>5. EffectBooked(n)'
        BY <2>1, <4>2, <4>3 DEF EffectBooked
      <4>6. RecordBooked(n)'
        BY <2>1, <4>4 DEF RecordBooked, NotBegun
      <4> QED
        BY <3>3, <4>5, <4>6 DEF Result
    <3> QED
      BY <3>4, <3>5
  <2> QED
    BY <1>9, <2>2, <2>3, <2>4, ActMeans
<1>10. ASSUME Effect(w)
       PROVE  Result
  BY <1>8, <1>10, EffectMeans, HandlerFrames DEF HandlerFrame
<1>11. ASSUME Save(w) \/ Bury(w)
       PROVE  Result
  <2>1. /\ x.pc \in {"save", "bury"} /\ UNCHANGED <<effects, decisions>> /\ x.n \in Nodes
        /\ x.seen.st \in {"running", "failed"}
    BY <1>11, HandlerFrames DEF HandlerFrame, StatusInStep, Working
  <2>2. CASE UNCHANGED row /\ Throws(w)
    BY <1>b, <1>c, <2>1, <2>2
  <2>3. CASE /\ row.st = x.seen.st /\ y.pc \in AtRest \cup {"look"}
             /\ row'.node = x.out.node /\ row'.granted = x.out.granted
    <3>1. row.st # "cancelled" /\ Memory(x) = x.out /\ x.pc \in Working
      BY <2>1, <2>3 DEF Memory, Working
    <3>2. CASE n # x.n
      <4>1. Same(n)
        BY <1>h, <2>1, <2>3, <3>1, <3>2
      <4> QED
        BY <1>a, <2>3, <4>1
    <3>3. CASE n = x.n
      <4>1. row.node[n] \in {"pending", "running"} /\ (n \in x.out.granted <=> n \in row.granted)
        BY <1>d, <2>1, <3>1, <3>3 DEF Carries, NodeInStep
      <4>2. /\ x.out.node[n] \in NotBegun => effects[n] = 0
            /\ n \in Guarded /\ x.out.node[n] = "waiting" => n \notin x.out.granted
        BY <2>1, <3>3 DEF MemoryBooked
      <4>3. n \in Guarded => /\ n \in row.granted => decisions[n] = {"approved"}
                             /\ decisions[n] # {} => n \in row.granted
        BY <3>1, <4>1 DEF RecordBooked
      <4>4. RecordBooked(n)'
        BY <2>1, <2>3, <4>1, <4>2, <4>3 DEF RecordBooked
      <4>5. EffectBooked(n)'
        BY <2>1 DEF EffectBooked
      <4>6. MemoryBooked(w, n)'
        BY <2>3, RestBooks
      <4> QED
        BY <4>4, <4>5, <4>6 DEF Result
    <3> QED
      BY <3>2, <3>3
  <2>4. CASE Save(w)
    BY <2>2, <2>3, <2>4, SaveMeans DEF Stays, AtRest
  <2>5. CASE Bury(w)
    BY <2>2, <2>3, <2>5, BuryMeans DEF Throws, AtRest
  <2> QED
    BY <1>11, <2>4, <2>5
<1>12. ASSUME Pause(w) \/ Drop(w) \/ Deny(w) \/ TimeOut(w)
       PROVE  Result
  <2>1. UNCHANGED <<row, effects, decisions>> /\ (Frees(w) \/ Throws(w))
    BY <1>12, PauseMeans, DropMeans, DenyMeans, TimeOutMeans, HandlerFrames DEF HandlerFrame
  <2> QED
    BY <1>b, <1>c, <2>1
<1>13. ASSUME Complete(w)
       PROVE  Result
  <2>1. /\ x.pc = "complete" /\ UNCHANGED <<effects, decisions>> /\ x.seen.st \in {"running", "failed"}
    BY <1>13, HandlerFrames DEF HandlerFrame, StatusInStep, Closing
  <2>2. CASE UNCHANGED row /\ Throws(w)
    BY <1>b, <1>c, <2>1, <2>2
  <2>3. CASE /\ row.st = x.seen.st /\ Frees(w)
             /\ row'.node = x.seen.node /\ row'.granted = x.seen.granted
    <3>1. Memory(x) = x.seen /\ x.pc \in Closing /\ row.st # "cancelled"
      BY <2>1, <2>3 DEF Memory, Closing
    <3>2. Same(n)
      BY <1>h, <2>1, <2>3, <3>1
    <3> QED
      BY <1>b, <2>3, <3>2
  <2> QED
    BY <1>13, <2>2, <2>3, CompleteMeans
<1>14. ASSUME Fail(w) \/ FailOrchestration(w)
       PROVE  Result
  <2>1. UNCHANGED <<row, effects, decisions>>
    BY <1>14, FailMeans, FailOrchestrationMeans, HandlerFrames DEF HandlerFrame
  <2>2. Frees(w) \/ y.pc = "failorch" \/ Stays(w, "failrow")
    BY <1>14, FailMeans, FailOrchestrationMeans
  <2>3. CASE Frees(w)
    BY <1>b, <1>c, <2>1, <2>3
  <2>4. CASE y.pc \in {"failorch", "failrow"}
    BY <1>a, <1>c, <2>1, <2>4
  <2> QED
    BY <2>2, <2>3, <2>4 DEF Stays
<1>15. ASSUME FailRow(w)
       PROVE  Result
  <2>1. /\ UNCHANGED <<effects, decisions>> /\ Frees(w) /\ x.seen.st # "cancelled"
    BY <1>15, FailRowMeans, HandlerFrames DEF HandlerFrame, StatusInStep
  <2>2. CASE UNCHANGED row
    BY <1>b, <1>c, <2>1, <2>2
  <2>3. CASE /\ row.st = x.seen.st /\ row'.node = x.seen.node /\ row'.granted = x.seen.granted
             /\ undone' = undone \cup Stale(x.seen)
    <3>1. n \notin Stale(x.seen)
      BY <2>3
    <3>2. Same(n)
      BY <2>1, <2>3, <3>1 DEF Same, Stale
    <3> QED
      BY <1>b, <2>1, <3>2
  <2> QED
    BY <1>15, <2>2, <2>3, FailRowMeans
<1>16. Result
  BY <1>1, <1>2, <1>3, <1>4, <1>5, <1>6, <1>7, <1>9, <1>10, <1>11, <1>12, <1>13, <1>14, <1>15 DEF Works
<1> QED
  BY <1>16 DEF Result

\* What the other handlers know stays right in the step of one.
LEMMA OthersBooked ==
    ASSUME TypeOK, OneExecutor, NEW w \in Workers, StatusInStep(worker[w]),
           Works(w) \/ Deny(w) \/ TimeOut(w), NEW v \in Workers \ {w}, StatusInStep(worker[v])
    PROVE  /\ StatusInStep(worker[v])'
           /\ \A n \in Nodes \ undone' : MemoryBooked(v, n) => MemoryBooked(v, n)'
<1> DEFINE x == worker[w]
           z == worker[v]
<1>1. Registers(w) /\ Others(w) /\ worker'[v] = z
  BY RegistryMeans DEF Others
<1>2. /\ registry' = "none" => registry = "none"
      /\ x.pc \in Executing => /\ registry # "none" /\ registry' # "none"
                               /\ z.pc \notin Executing
  BY <1>1, OneExecutes
<1>3. z.pc \in WorkerPcs /\ x.pc \in WorkerPcs
  BY DEF TypeOK, Handler
<1>4. CASE x.pc \in Executing
  <2>1. z.pc \in {"idle", "load", "track", "fail", "failorch", "failrow"} /\ registry' # "none"
    BY <1>2, <1>3, <1>4 DEF WorkerPcs, Executing
  <2>2. StatusInStep(worker[v])'
    BY <1>1, <2>1 DEF StatusInStep, Entering, Working, Closing
  <2>3. \A n \in Nodes : MemoryBooked(v, n)'
    BY <1>1, <2>1, RestBooks DEF AtRest
  <2> QED
    BY <2>2, <2>3
<1>5. CASE x.pc \notin Executing
  <2>1. x.pc \in {"load", "track", "fail", "failorch", "failrow"}
    BY <1>5, HandlerFrames DEF Works, Executing
  <2>2. SameMind(v)
    BY <1>1, <1>2 DEF SameMind
  <2>3. CASE UNCHANGED <<row, effects, decisions>>
    <3>1. StatusInStep(worker[v])'
      BY <1>1, <1>2, <2>3 DEF StatusInStep
    <3>2. \A n \in Nodes : Same(n)
      BY <2>3 DEF Same
    <3> QED
      BY <2>2, <3>1, <3>2, SameBooks
  <2>4. CASE FailRow(w)
    <3>1. UNCHANGED <<effects, decisions>> /\ x.seen.st # "cancelled"
      BY <2>4, HandlerFrames DEF HandlerFrame, StatusInStep
    <3>2. CASE /\ row.st = x.seen.st /\ row'.st = "failed" /\ row'.node = x.seen.node
               /\ row'.granted = x.seen.granted /\ undone' = undone \cup Stale(x.seen)
      <4>1. StatusInStep(worker[v])'
        BY <1>1, <1>2, <3>2 DEF StatusInStep
      <4>2. ASSUME NEW n \in Nodes \ undone'
            PROVE  Same(n)
        <5>1. n \notin Stale(x.seen)
          BY <3>2
        <5> QED
          BY <3>1, <3>2, <5>1 DEF Same, Stale
      <4> QED
        BY <2>2, <4>1, <4>2, SameBooks
    <3> QED
      BY <2>3, <2>4, <3>1, <3>2, FailRowMeans
  <2>5. CASE ~FailRow(w)
    <3>1. UNCHANGED <<row, effects, decisions>>
      <4>1. CASE Load(w)
        BY <4>1, LoadMeans, HandlerFrames DEF HandlerFrame
      <4>2. CASE Track(w)
        BY <4>2, TrackMeans, HandlerFrames DEF HandlerFrame
      <4>3. CASE Deny(w)
        BY <4>3, DenyMeans, HandlerFrames DEF HandlerFrame
      <4>4. CASE Fail(w)
        BY <4>4, FailMeans, HandlerFrames DEF HandlerFrame
      <4>5. CASE FailOrchestration(w)
        BY <4>5, FailOrchestrationMeans, HandlerFrames DEF HandlerFrame
      <4>6. Load(w) \/ Track(w) \/ Deny(w) \/ Fail(w) \/ FailOrchestration(w)
        BY <2>1, <2>5, HandlerFrames DEF Works
      <4> QED
        BY <4>1, <4>2, <4>3, <4>4, <4>5, <4>6
    <3> QED
      BY <2>3, <3>1
  <2> QED
    BY <2>4, <2>5
<1> QED
  BY <1>4, <1>5

\* Nobody has anything to write while the record waits for an answer.
LEMMA WaitingRests ==
    ASSUME NEW w \in Workers, StatusInStep(worker[w]), row.st = "waiting_approval"
    PROVE  /\ ~Carries(worker[w]) /\ worker[w].pc # "look"
BY DEF StatusInStep, Carries, Entering, Working, Closing, Open

\* Before the run is recorded, nobody does anything.
LEMMA NothingYet ==
    ASSUME JobsDrawn, row.st = "none"
    PROVE  /\ \A w \in Workers : worker[w].pc = "idle"
           /\ row.granted = {} /\ \A n \in Nodes : row.node[n] = "pending"
<1>1. row = NoRow /\ sent = 0
  BY DEF JobsDrawn
<1>2. 1..sent = {}
  BY <1>1
<1> QED
  BY <1>1, <1>2 DEF JobsDrawn, NoRow

\* What a request makes of the record, seen from one node.
Answered(n) ==
    /\ row.st = "waiting_approval" /\ row'.st \in {"queued", "failed"}
    /\ row.node[n] = "waiting" /\ UNCHANGED effects
    /\ \/ /\ row'.node[n] = "pending" /\ decisions'[n] = decisions[n] \cup {"approved"}
          /\ n \in Guarded => n \in row'.granted
       \/ /\ n \in Guarded /\ row'.node[n] = "failed"
          /\ n \in row'.granted <=> n \in row.granted
          /\ decisions'[n] = decisions[n] \cup {"rejected"}
       \/ /\ n \notin Guarded /\ row'.node[n] \in {"pending", "failed"}
LEMMA RequestBooks ==
    ASSUME TypeOK, JobsDrawn, \A d \in Clients : RequestInStep(d), NEW c \in Clients,
           \/ Serves(c)
           \/ c \in Devices /\ (Start(c) \/ AskCancel(c))
           \/ c \in Devices /\ (\E a \in {"approved", "rejected"} : AskAnswer(c, a))
           \/ c = Boot /\ (Restart \/ Reconcile)
    PROVE  /\ registry' = "none" => registry = "none"
           /\ registry' \in {registry, "aborted"} /\ (registry' # registry => registry = "running")
           /\ \/ UNCHANGED row
              \/ row.st = "none" /\ row'.st = "queued"
              \/ row.st = "queued" /\ row'.st = "failed"
              \/ row'.st = "cancelled"
              \/ row.st = "waiting_approval" /\ row'.st \in {"queued", "failed"}
           /\ \A n \in Nodes \ undone' : Same(n) \/ Answered(n)
<1> DEFINE Result ==
           /\ registry' = "none" => registry = "none"
           /\ registry' \in {registry, "aborted"} /\ (registry' # registry => registry = "running")
           /\ \/ UNCHANGED row
              \/ row.st = "none" /\ row'.st = "queued"
              \/ row.st = "queued" /\ row'.st = "failed"
              \/ row'.st = "cancelled"
              \/ row.st = "waiting_approval" /\ row'.st \in {"queued", "failed"}
           /\ \A n \in Nodes \ undone' : Same(n) \/ Answered(n)
<1>a. ASSUME UNCHANGED <<row, registry, effects, decisions>>
      PROVE  Result
  BY <1>a DEF Same
<1> HIDE DEF Result
<1>1. ASSUME Send(c) \/ SendError(c) \/ Unsent(c) \/ CancelJob(c) \/ CancelOrchestration(c)
      PROVE  Result
  <2>1. UNCHANGED <<row, registry, effects, decisions>>
    BY <1>1 DEF Send, SendError, Unsent, CancelJob, CancelOrchestration
  <2> QED
    BY <1>a, <2>1
<1>2. ASSUME c \in Devices, AskCancel(c) \/ (\E a \in {"approved", "rejected"} : AskAnswer(c, a))
      PROVE  Result
  <2>1. UNCHANGED <<row, registry, effects, decisions>>
    BY <1>2 DEF AskCancel, AskAnswer
  <2> QED
    BY <1>a, <2>1
<1>3. ASSUME Restart \/ Reconcile
      PROVE  Result
  <2>1. UNCHANGED <<row, registry, effects, decisions>>
    BY <1>3 DEF Restart, Reconcile
  <2> QED
    BY <1>a, <2>1
<1>4. ASSUME AbortTask(c)
      PROVE  Result
  <2>1. UNCHANGED <<row, effects, decisions>>
        /\ registry' = IF registry = "running" THEN "aborted" ELSE registry
    BY <1>4 DEF AbortTask
  <2> QED
    BY <2>1 DEF Same, Result
<1>5. ASSUME GiveUp(c)
      PROVE  Result
  <2>1. UNCHANGED <<registry, effects, decisions>>
    BY <1>5 DEF GiveUp
  <2>2. CASE UNCHANGED row
    BY <1>a, <2>1, <2>2
  <2>3. CASE /\ row.st = "queued" /\ row'.st = "failed"
             /\ row'.granted = row.granted /\ row'.node = row.node
    BY <2>1, <2>3 DEF Same, Result
  <2> QED
    BY <1>5, <2>2, <2>3, GiveUpMeans
<1>6. ASSUME CancelRow(c)
      PROVE  Result
  <2>1. UNCHANGED <<registry, effects, decisions>>
    BY <1>6 DEF CancelRow
  <2>2. CASE UNCHANGED row
    BY <1>a, <2>1, <2>2
  <2>3. CASE row'.st = "cancelled"
    BY <2>1, <2>3 DEF Same, Result
  <2> QED
    BY <1>6, <2>2, <2>3, CancelRowMeans
<1>7. ASSUME c \in Devices, Start(c)
      PROVE  Result
  <2>1. UNCHANGED <<registry, effects, decisions>>
    BY <1>7 DEF Start
  <2>2. row.st = "none" /\ row'.st = "queued" /\ row'.granted = {}
        /\ row'.node = [n \in Nodes |-> "pending"]
    BY <1>7, StartMeans
  <2>3. row.granted = {} /\ \A n \in Nodes : row.node[n] = "pending"
    BY <2>2, NothingYet
  <2> QED
    BY <2>1, <2>2, <2>3 DEF Same, Result
<1>8. ASSUME Decide(c)
      PROVE  Result
  <2> DEFINE r == client[c].seen
             a == client[c].answer
             rejects == Kind[r.ask] = "tool" /\ a = "rejected"
  <2>1. UNCHANGED <<registry, effects>>
    BY <1>8 DEF Decide
  <2>2. CASE UNCHANGED <<row, decisions>>
    BY <1>a, <2>1, <2>2
  <2>3. CASE /\ row.st = "waiting_approval"
             /\ decisions' = [decisions EXCEPT ![r.ask] = @ \cup {a}]
             /\ undone' = undone \cup Stale(r)
             /\ row'.node = [r.node EXCEPT ![r.ask] = IF rejects THEN "failed" ELSE "pending"]
             /\ row'.granted = IF Kind[r.ask] = "tool" /\ a = "approved"
                               THEN r.granted \cup {r.ask} ELSE r.granted
             /\ row'.st \in {"queued", "failed"}
    <3>1. /\ r \in Row /\ a \in {"approved", "rejected"} /\ r.ask \in Nodes
          /\ r.node[r.ask] = "waiting"
      BY <1>8 DEF TypeOK, Request, RequestInStep, Decide
    <3>2. ASSUME NEW n \in Nodes \ undone'
          PROVE  Same(n) \/ Answered(n)
      <4>0. n \notin Stale(r)
        BY <2>3
      <4>1. r.node[n] = row.node[n] /\ (n \in r.granted <=> n \in row.granted)
        BY <4>0 DEF Stale
      <4>2. CASE n # r.ask
        <5>1. decisions'[n] = decisions[n] /\ row'.node[n] = r.node[n]
          BY <2>3, <3>1, <4>2 DEF TypeOK, Row
        <5>2. n \in row'.granted <=> n \in r.granted
          BY <2>3, <4>2
        <5> QED
          BY <2>1, <2>3, <4>1, <5>1, <5>2 DEF Same
      <4>3. CASE n = r.ask
        <5>1. decisions'[n] = decisions[n] \cup {a}
              /\ row'.node[n] = (IF rejects THEN "failed" ELSE "pending")
          BY <2>3, <3>1, <4>3 DEF TypeOK, Row
        <5>2. n \in Guarded => Kind[n] = "tool"
          BY GraphAssumption
        <5>3. CASE a = "approved"
          BY <2>1, <2>3, <3>1, <4>1, <4>3, <5>1, <5>2, <5>3 DEF Answered
        <5>4. CASE a = "rejected" /\ n \in Guarded
          <6>1. row'.granted = r.granted
            BY <2>3, <5>4
          <6> QED
            BY <2>1, <2>3, <3>1, <4>1, <4>3, <5>1, <5>2, <5>4, <6>1 DEF Answered
        <5>5. CASE n \notin Guarded
          BY <2>1, <2>3, <3>1, <4>1, <4>3, <5>1, <5>5 DEF Answered
        <5> QED
          BY <3>1, <5>3, <5>4, <5>5
      <4> QED
        BY <4>2, <4>3
    <3> QED
      BY <2>1, <2>3, <3>2 DEF Result
  <2> QED
    BY <1>8, <2>2, <2>3, DecideMeans
<1>9. Result
  BY <1>1, <1>2, <1>3, <1>4, <1>5, <1>6, <1>7, <1>8 DEF Serves, Dispatches
<1> QED
  BY <1>9 DEF Result

\* Right after an answer nobody works on, and the books say what was decided.
LEMMA AnsweredBooks ==
    ASSUME NEW n \in Nodes, Answered(n), effects \in [Nodes -> 0..2], EffectBooked(n), RecordBooked(n)
    PROVE  EffectBooked(n)' /\ RecordBooked(n)'
<1>1. effects[n] = 0 /\ (n \in Guarded => decisions[n] = {} /\ n \notin row.granted)
  BY DEF Answered, RecordBooked, NotBegun
<1>2. EffectBooked(n)'
  BY <1>1 DEF Answered, EffectBooked
<1>3. RecordBooked(n)'
  BY <1>1 DEF Answered, RecordBooked
<1> QED
  BY <1>2, <1>3

\* What the handlers know stays right in the step of a request.
LEMMA RequestOverlap ==
    ASSUME OverlapInv, NEW c \in Clients, UNCHANGED worker,
           \/ Serves(c)
           \/ c \in Devices /\ (Start(c) \/ AskCancel(c))
           \/ c \in Devices /\ (\E a \in {"approved", "rejected"} : AskAnswer(c, a))
           \/ c = Boot /\ (Restart \/ Reconcile)
    PROVE  /\ OneExecutor' /\ \A w \in Workers : StatusInStep(worker[w])'
           /\ \A n \in Nodes \ undone' : Booked(n) => Booked(n)'
<1>1. /\ registry' = "none" => registry = "none"
      /\ registry' \in {registry, "aborted"} /\ (registry' # registry => registry = "running")
      /\ \/ UNCHANGED row
         \/ row.st = "none" /\ row'.st = "queued"
         \/ row.st = "queued" /\ row'.st = "failed"
         \/ row'.st = "cancelled"
         \/ row.st = "waiting_approval" /\ row'.st \in {"queued", "failed"}
      /\ \A n \in Nodes \ undone' : Same(n) \/ Answered(n)
  BY RequestBooks DEF OverlapInv
<1>2. OneExecutor'
  BY <1>1 DEF OverlapInv, OneExecutor
<1>3. ASSUME NEW w \in Workers
      PROVE  StatusInStep(worker[w])' /\ SameMind(w)
  <2>1. SameMind(w)
    BY <1>1 DEF SameMind
  <2>2. StatusInStep(worker[w])
    BY DEF OverlapInv
  <2>0. worker'[w] = worker[w] /\ (registry' = "none" => registry = "none")
    BY <1>1
  <2>3. CASE UNCHANGED row
    BY <2>0, <2>1, <2>2, <2>3 DEF StatusInStep
  <2>6. CASE row'.st \in {"failed", "cancelled"} /\ row.st # "waiting_approval"
    BY <2>0, <2>1, <2>2, <2>6 DEF StatusInStep
  <2>4. CASE row.st = "none"
    <3>1. worker[w].pc = "idle"
      BY <2>4, NothingYet DEF OverlapInv
    <3> QED
      BY <2>1, <3>1 DEF StatusInStep, Entering, Working, Closing
  <2>5. CASE row.st = "waiting_approval"
    <3>1. ~Carries(worker[w]) /\ worker[w].pc # "look"
      BY <2>2, <2>5, WaitingRests
    <3>2. worker[w].pc \notin {"look"} \cup Entering \cup Working \cup Closing
          /\ (worker[w].pc = "track" => registry' # "none")
      BY <2>0, <3>1 DEF Carries
    <3>3. StatusInStep(worker[w])'
      BY <2>0, <2>2, <3>2 DEF StatusInStep, Working
    <3> QED
      BY <2>1, <3>3
  <2> QED
    BY <1>1, <2>1, <2>3, <2>4, <2>5, <2>6
<1>4. ASSUME NEW n \in Nodes \ undone', Booked(n)
      PROVE  Booked(n)'
  <2>1. EffectBooked(n) /\ RecordBooked(n) /\ \A w \in Workers : MemoryBooked(w, n)
    BY <1>4 DEF Booked
  <2>2. CASE Same(n)
    <3>1. EffectBooked(n)' /\ RecordBooked(n)' /\ \A w \in Workers : MemoryBooked(w, n)'
      BY <1>3, <2>1, <2>2, SameBooks
    <3> QED
      BY <3>1 DEF Booked
  <2>3. CASE Answered(n)
    <3>1. EffectBooked(n)' /\ RecordBooked(n)'
      BY <2>1, <2>3, AnsweredBooks DEF OverlapInv, TypeOK
    <3>2. ASSUME NEW w \in Workers
          PROVE  MemoryBooked(w, n)'
      <4>1. StatusInStep(worker[w]) /\ row.st = "waiting_approval" /\ SameMind(w)
        BY <1>3, <2>3 DEF OverlapInv, Answered
      <4>2. ~Carries(worker[w])
        BY <4>1, WaitingRests
      <4>3. worker[w].pc \notin Entering \cup Working \cup Closing
            /\ (worker[w].pc = "track" => registry' # "none")
        BY <1>1, <4>2 DEF Carries
      <4> QED
        BY <4>3 DEF MemoryBooked, Carries, Working
    <3> QED
      BY <3>1, <3>2 DEF Booked
  <2> QED
    BY <1>1, <2>2, <2>3
<1> QED
  BY <1>2, <1>3, <1>4

\* What a step of the queue, of the timers or of the process leaves of the books.
LEMMA IdleOverlap ==
    ASSUME OverlapInv, UNCHANGED <<row, effects, decisions>>,
           \A w \in Workers : worker'[w].pc \in {"idle", "load"} \/ SameMind(w)
    PROVE  /\ \A w \in Workers : StatusInStep(worker[w])'
           /\ \A n \in Nodes \ undone' : Booked(n) => Booked(n)'
<1>1. ASSUME NEW w \in Workers
      PROVE  StatusInStep(worker[w])'
  <2>1. CASE worker'[w].pc \in {"idle", "load"}
    BY <2>1 DEF StatusInStep, Entering, Working, Closing
  <2>2. CASE SameMind(w)
    <3>1. StatusInStep(worker[w])
      BY DEF OverlapInv
    <3> QED
      BY <2>2, <3>1 DEF SameMind, StatusInStep
  <2> QED
    BY <2>1, <2>2
<1>2. ASSUME NEW n \in Nodes, Booked(n)
      PROVE  Booked(n)'
  <2>1. Same(n)
    BY DEF Same
  <2>2. ASSUME NEW w \in Workers
        PROVE  MemoryBooked(w, n)'
    BY <1>2, <2>1, SameBooks, RestBooks DEF Booked, AtRest
  <2> QED
    BY <1>2, <2>1, <2>2, SameBooks DEF Booked
<1> QED
  BY <1>1, <1>2

\* An approval stays accepted.
DecisionsGrow == \A n \in Nodes : "approved" \in decisions[n] => "approved" \in decisions'[n]
\* What a request has read is an old reading, the record before or after, or nothing.
ReadsRecord(c) ==
    client'[c].seen.granted \in {client[c].seen.granted, row.granted, row'.granted, {}}

\* No step of a request forgets an approval, or grants without one.
LEMMA RequestGrants ==
    ASSUME TypeOK, GrantsApproved, JobsDrawn, \A d \in Clients : RequestInStep(d), NEW c \in Clients,
           \/ Serves(c)
           \/ c \in Devices /\ (Start(c) \/ AskCancel(c))
           \/ c \in Devices /\ (\E a \in {"approved", "rejected"} : AskAnswer(c, a))
           \/ c = Boot /\ (Restart \/ Reconcile)
    PROVE  UNCHANGED effects /\ DecisionsGrow /\ Granted(row)' /\ ReadsRecord(c)
<1> DEFINE r == client[c].seen
           a == client[c].answer
           Result == UNCHANGED effects /\ DecisionsGrow /\ Granted(row)' /\ ReadsRecord(c)
<1>0. /\ client \in [Clients -> Request] /\ Granted(row) /\ Granted(r) /\ r \in Row
      /\ IdleClient.seen.granted = {}
  BY DEF TypeOK, Request, GrantsApproved, IdleClient, NoRow
<1>a. ASSUME UNCHANGED <<effects, decisions>>, ReadsRecord(c), row'.granted \in {row.granted, r.granted, {}}
      PROVE  Result
  BY <1>0, <1>a DEF Granted, DecisionsGrow
<1>b. ASSUME Leave(c) \/ \E pc \in ClientPcs : Moves(c, pc)
      PROVE  ReadsRecord(c)
  BY <1>0, <1>b DEF Leave, Moves, ReadsRecord, Request
<1>c. ASSUME NEW q \in Row, Sends(c, q), q.granted = row'.granted
      PROVE  ReadsRecord(c)
  BY <1>0, <1>c, RequestMoves DEF ReadsRecord
<1> HIDE DEF Result
<1>1. ASSUME Send(c) \/ SendError(c) \/ Unsent(c) \/ CancelJob(c) \/ CancelOrchestration(c) \/ AbortTask(c)
      PROVE  Result
  <2>1. UNCHANGED <<row, effects, decisions>>
    BY <1>1 DEF Send, SendError, Unsent, CancelJob, CancelOrchestration, AbortTask
  <2>2. {"unsent", "giveup", "quit", "cancelrow"} \subseteq ClientPcs
    BY DEF ClientPcs
  <2>3. Leave(c) \/ Moves(c, "unsent") \/ Moves(c, "giveup") \/ Moves(c, "quit") \/ Moves(c, "cancelrow")
    BY <1>1 DEF Send, SendError, Unsent, CancelJob, CancelOrchestration, AbortTask, Moves
  <2> QED
    BY <1>a, <1>b, <2>1, <2>2, <2>3
<1>2. ASSUME GiveUp(c)
      PROVE  Result
  <2>1. UNCHANGED <<effects, decisions>> /\ Leave(c)
    BY <1>2 DEF GiveUp
  <2>2. row'.granted = row.granted
    BY <1>2, GiveUpMeans
  <2> QED
    BY <1>a, <1>b, <2>1, <2>2
<1>3. ASSUME CancelRow(c)
      PROVE  Result
  <2>1. UNCHANGED <<effects, decisions>> /\ (Leave(c) \/ Moves(c, "abort")) /\ "abort" \in ClientPcs
    BY <1>3 DEF CancelRow, Moves, ClientPcs
  <2>2. row'.granted \in {row.granted, r.granted}
    BY <1>3, CancelRowMeans
  <2> QED
    BY <1>a, <1>b, <2>1, <2>2
<1>4. ASSUME c \in Devices, Start(c)
      PROVE  Result
  <2>1. UNCHANGED <<effects, decisions>>
    BY <1>4 DEF Start
  <2>2. row'.granted = {} /\ client'[c].seen = row'
    BY <1>4, StartMeans
  <2> QED
    BY <1>a, <2>1, <2>2 DEF ReadsRecord
<1>5. ASSUME c \in Devices, AskCancel(c)
      PROVE  Result
  <2>1. UNCHANGED <<row, effects, decisions>>
    BY <1>5 DEF AskCancel
  <2>2. client'[c].seen = row
    BY <1>5, AskCancelMeans
  <2> QED
    BY <1>a, <2>1, <2>2 DEF ReadsRecord
<1>6. ASSUME c \in Devices, NEW b \in {"approved", "rejected"}, AskAnswer(c, b)
      PROVE  Result
  <2>1. UNCHANGED <<row, effects, decisions>>
    BY <1>6 DEF AskAnswer
  <2>2. client'[c].seen = row
    BY <1>6, AskAnswerMeans
  <2> QED
    BY <1>a, <2>1, <2>2 DEF ReadsRecord
<1>7. ASSUME c = Boot, Restart \/ Reconcile
      PROVE  Result
  <2>1. UNCHANGED <<row, effects, decisions>> /\ row \in Row /\ "list" \in ClientPcs
    BY <1>7 DEF Restart, Reconcile, TypeOK, ClientPcs
  <2>2. Leave(c) \/ Moves(c, "list") \/ Sends(c, row)
    BY <1>7 DEF Restart, Reconcile, Moves, Sends
  <2> QED
    BY <1>a, <1>b, <1>c, <2>1, <2>2
<1>8. ASSUME Decide(c)
      PROVE  Result
  <2>1. UNCHANGED effects
    BY <1>8 DEF Decide
  <2>2. CASE UNCHANGED <<row, decisions>> /\ Leave(c)
    BY <1>a, <1>b, <2>1, <2>2
  <2>3. CASE /\ decisions' = [decisions EXCEPT ![r.ask] = @ \cup {a}]
             /\ row'.granted = IF Kind[r.ask] = "tool" /\ a = "approved"
                               THEN r.granted \cup {r.ask} ELSE r.granted
             /\ row' \in Row /\ (Leave(c) \/ Sends(c, row'))
    <3>1. r.ask \in Nodes
      BY <1>8 DEF RequestInStep, Decide
    <3>2. DecisionsGrow
      BY <2>3 DEF DecisionsGrow, TypeOK
    <3>3. ASSUME NEW n \in row'.granted
          PROVE  "approved" \in decisions'[n]
      <4>1. CASE n \in r.granted
        <5>1. n \in Nodes /\ "approved" \in decisions[n]
          BY <1>0, <4>1 DEF Granted, Row
        <5> QED
          BY <3>2, <5>1 DEF DecisionsGrow
      <4>2. CASE n = r.ask /\ a = "approved"
        BY <2>3, <3>1, <4>2 DEF TypeOK
      <4> QED
        BY <2>3, <4>1, <4>2
    <3>4. Granted(row)'
      BY <3>3 DEF Granted
    <3>5. ReadsRecord(c)
      BY <1>b, <1>c, <2>3
    <3> QED
      BY <2>1, <3>2, <3>4, <3>5 DEF Result
  <2>5. (Leave(c) /\ UNCHANGED <<row, decisions>>) \/
        ((Leave(c) \/ Sends(c, row')) /\ row.st = "waiting_approval")
    BY <1>8 DEF Decide, Sends, Expecting
  <2>6. row.st = "waiting_approval" => decisions' = [decisions EXCEPT ![r.ask] = @ \cup {a}]
    BY <1>8 DEF Decide, Expecting
  <2>7. CASE row.st # "waiting_approval"
    BY <2>2, <2>5, <2>7
  <2>8. CASE row.st = "waiting_approval"
    BY <1>8, <2>3, <2>5, <2>6, <2>8, DecideMeans
  <2> QED
    BY <2>7, <2>8
<1>9. Result
  BY <1>1, <1>2, <1>3, <1>4, <1>5, <1>6, <1>7, <1>8 DEF Serves, Dispatches
<1> QED
  BY <1>9 DEF Result

\* No step of a handler forgets an approval, or keeps a grant without one.
LEMMA HandlerGrants ==
    ASSUME TypeOK, GrantsApproved, NEW w \in Workers, StatusInStep(worker[w]), Recalls(w), Writes(w),
           Works(w) \/ Deny(w) \/ TimeOut(w)
    PROVE  /\ UNCHANGED decisions /\ Granted(row)'
           /\ Granted(worker[w].seen)' /\ Granted(worker[w].out)'
           /\ \A n \in Guarded : effects'[n] > 0 => "approved" \in decisions[n]
<1>1. UNCHANGED <<decisions, client>>
  BY HandlerFrames DEF Works, HandlerFrame
<1>2. Granted(row) /\ Granted(worker[w].seen) /\ Granted(worker[w].out)
  BY DEF GrantsApproved
<1>3. /\ Granted(row)'
      /\ Granted(worker[w].seen)' /\ Granted(worker[w].out)'
  BY <1>1, <1>2 DEF Granted, Writes, Recalls
<1>4. CASE UNCHANGED effects
  BY <1>1, <1>3, <1>4 DEF GrantsApproved
<1>5. ASSUME Act(w), Stays(w, "effect"), worker[w].n \in Guarded => worker[w].n \in worker[w].out.granted,
             effects' = [effects EXCEPT ![worker[w].n] = IF @ = 2 THEN 2 ELSE @ + 1],
             NEW n \in Guarded, effects'[n] > 0
      PROVE  "approved" \in decisions[n]
  <2>1. CASE n = worker[w].n
    BY <1>2, <1>5, <2>1 DEF Granted
  <2>2. CASE n # worker[w].n
    BY <1>5, <2>2, GraphAssumption DEF GrantsApproved, TypeOK
  <2> QED
    BY <2>1, <2>2
<1>6. CASE Act(w)
  BY <1>1, <1>3, <1>4, <1>5, <1>6, ActMeans
<1>7. CASE ~Act(w)
  BY <1>4, <1>7, HandlerFrames DEF Works
<1> QED
  BY <1>6, <1>7

\* A job is drawn before it is delivered, whatever a handler reports.
LEMMA HandlerJobsDrawn ==
    ASSUME TypeOK, JobsDrawn, NEW w \in Workers, Others(w), Writes(w), Spends(w), Recalls(w), UNCHANGED sent,
           worker[w].pc # "idle"
    PROVE  JobsDrawn'
<1>1. /\ row'.st = "none" => row' = NoRow /\ sent' = 0
      /\ row'.st # "none" => row'.job \in 1..sent'
  BY DEF JobsDrawn, Writes
<1>2. ASSUME NEW j \in JobIds, job'[j].st # "none"
      PROVE  j <= sent'
  <2>1. CASE job[j].st # "none"
    BY <2>1 DEF JobsDrawn
  <2>2. CASE job[j].st = "none"
    <3>1. UNCHANGED job \/ job'[j].st = "none"
      BY <2>2 DEF Spends, Finishes, TypeOK, Handler
    <3> QED
      BY <1>2, <2>2, <3>1
  <2> QED
    BY <2>1, <2>2
<1>3. ASSUME NEW v \in Workers
      PROVE  /\ worker'[v].pc # "idle" => worker'[v].job \in 1..sent'
             /\ worker'[v].pc \notin {"idle", "load"} => worker'[v].seen.job \in 1..sent'
             /\ worker'[v].pc \in {"act", "effect", "save", "bury"} => worker'[v].out.job \in 1..sent'
  <2>1. CASE v # w
    BY <2>1 DEF Others, JobsDrawn
  <2>2. CASE v = w
    BY <2>2 DEF Recalls, JobsDrawn
  <2> QED
    BY <2>1, <2>2
<1> QED
  BY <1>1, <1>2, <1>3 DEF JobsDrawn

\* A step of one handler keeps all of it.
LEMMA HandlerOverlap ==
    ASSUME OverlapInv, NEW w \in Workers, Works(w) \/ Deny(w) \/ TimeOut(w)
    PROVE  /\ OneExecutor' /\ PausedAsks' /\ JobsDrawn'
           /\ \A v \in Workers : StatusInStep(worker[v])'
           /\ \A c \in Clients : RequestInStep(c)'
           /\ \A n \in Nodes \ undone' : Booked(n) => Booked(n)'
           /\ GrantsApproved'
<1>1. /\ TypeOK /\ OneExecutor /\ PausedAsks /\ JobsDrawn /\ GrantsApproved
      /\ \A v \in Workers : StatusInStep(worker[v])
      /\ \A c \in Clients : RequestInStep(c)
  BY DEF OverlapInv
<1>2. Registers(w) /\ Others(w) /\ OneExecutor'
  BY <1>1, RegistryMeans, OneExecutes
<1>3. Writes(w) /\ Spends(w) /\ Recalls(w)
  BY <1>1, HandlerDraws
<1>4. UNCHANGED <<sent, client, decisions>> /\ worker[w].pc # "idle"
  BY HandlerFrames DEF Works, HandlerFrame
<1>5. PausedAsks'
  BY <1>1, <1>3 DEF Writes, PausedAsks
<1>6. JobsDrawn'
  BY <1>1, <1>2, <1>3, <1>4, HandlerJobsDrawn
<1>7. \A v \in Workers : StatusInStep(worker[v])'
  BY <1>1, <1>2, HandlerStatus, OthersBooked
<1>8. \A c \in Clients : RequestInStep(c)'
  BY <1>1, <1>4 DEF RequestInStep
<1>9. ASSUME NEW n \in Nodes \ undone', Booked(n)
      PROVE  Booked(n)'
  <2>1. EffectBooked(n) /\ RecordBooked(n) /\ \A v \in Workers : MemoryBooked(v, n)
    BY <1>9 DEF Booked
  <2>2. EffectBooked(n)' /\ RecordBooked(n)' /\ MemoryBooked(w, n)'
    BY <1>1, <1>2, <1>9, <2>1, HandlerBooked
  <2>3. \A v \in Workers \ {w} : MemoryBooked(v, n)'
    BY <1>1, <1>9, <2>1, OthersBooked
  <2> QED
    BY <2>2, <2>3 DEF Booked
<1>10. GrantsApproved'
  <2>1. /\ UNCHANGED decisions /\ Granted(row)'
        /\ Granted(worker[w].seen)' /\ Granted(worker[w].out)'
        /\ \A n \in Guarded : effects'[n] > 0 => "approved" \in decisions[n]
    BY <1>1, <1>3, HandlerGrants
  <2>2. ASSUME NEW v \in Workers
        PROVE  Granted(worker[v].seen)' /\ Granted(worker[v].out)'
    <3>1. CASE v # w
      <4>1. Granted(worker[v].seen) /\ Granted(worker[v].out) /\ worker'[v] = worker[v]
        BY <1>1, <1>2, <3>1 DEF GrantsApproved, Others
      <4> QED
        BY <1>4, <4>1 DEF Granted
    <3> QED
      BY <2>1, <3>1
  <2>3. \A c \in Clients : Granted(client[c].seen)'
    BY <1>1, <1>4 DEF GrantsApproved, Granted
  <2> QED
    BY <2>1, <2>2, <2>3 DEF GrantsApproved
<1> QED
  BY <1>2, <1>5, <1>6, <1>7, <1>8, <1>9, <1>10

\* A step of a request keeps all of it.
LEMMA RequestKeeps ==
    ASSUME OverlapInv, NEW c \in Clients,
           \/ Serves(c)
           \/ c \in Devices /\ (Start(c) \/ AskCancel(c))
           \/ c \in Devices /\ (\E a \in {"approved", "rejected"} : AskAnswer(c, a))
           \/ c = Boot /\ (Restart \/ Reconcile)
    PROVE  /\ OneExecutor' /\ PausedAsks' /\ JobsDrawn'
           /\ \A v \in Workers : StatusInStep(worker[v])'
           /\ \A d \in Clients : RequestInStep(d)'
           /\ \A n \in Nodes \ undone' : Booked(n) => Booked(n)'
           /\ GrantsApproved'
<1>1. TypeOK /\ JobsDrawn /\ PausedAsks /\ GrantsApproved /\ \A d \in Clients : RequestInStep(d)
  BY DEF OverlapInv
<1>2. /\ Asked /\ Queued /\ UNCHANGED <<worker, crashes>>
      /\ OtherRequests(c) /\ RequestInStep(c)'
  BY <1>1, RequestSteps DEF Standing
<1>3. /\ OneExecutor' /\ \A w \in Workers : StatusInStep(worker[w])'
      /\ \A n \in Nodes \ undone' : Booked(n) => Booked(n)'
  BY <1>2, RequestOverlap
<1>4. PausedAsks'
  BY <1>1, <1>2 DEF Asked, PausedAsks, Open
<1>5. sent \in Nat /\ sent' \in {sent, sent + 1}
  BY <1>1, <1>2, GraphAssumption DEF Asked, TypeOK
<1>6. \A d \in Clients : RequestInStep(d)'
  BY <1>1, <1>2, <1>5, OtherInStep DEF Standing
<1>7. JobsDrawn'
  <2>1. 1..sent \subseteq 1..sent' /\ sent <= sent'
    BY <1>5
  <2>2. row'.st = "none" => row' = NoRow /\ sent' = 0
    BY <1>1, <1>2 DEF Asked, JobsDrawn
  <2>3. row'.st # "none" => row'.job \in 1..sent'
    <3>1. CASE UNCHANGED <<row, sent>>
      BY <1>1, <3>1 DEF JobsDrawn
    <3>2. CASE UNCHANGED sent /\ row'.job \in 1..sent
      BY <3>2
    <3>3. CASE row'.job = sent + 1 /\ sent' = sent + 1
      BY <1>5, <3>3
    <3> QED
      BY <1>2, <3>1, <3>2, <3>3 DEF Asked
  <2>4. ASSUME NEW j \in JobIds, job'[j].st # "none"
        PROVE  j <= sent'
    <3>1. j <= sent
      BY <1>1, <1>2, <2>4 DEF Queued, JobsDrawn
    <3> QED
      BY <1>5, <2>1, <3>1 DEF JobIds
  <2>5. \A w \in Workers :
            /\ worker'[w].pc # "idle" => worker'[w].job \in 1..sent'
            /\ worker'[w].pc \notin {"idle", "load"} => worker'[w].seen.job \in 1..sent'
            /\ worker'[w].pc \in {"act", "effect", "save", "bury"} => worker'[w].out.job \in 1..sent'
    BY <1>1, <1>2, <2>1 DEF JobsDrawn
  <2> QED
    BY <2>2, <2>3, <2>4, <2>5 DEF JobsDrawn
<1>8. GrantsApproved'
  <2>1. UNCHANGED effects /\ DecisionsGrow /\ Granted(row)' /\ ReadsRecord(c)
    BY <1>1, RequestGrants
  <2>2. ASSUME NEW r \in Row, Granted(r), NEW n \in r.granted
        PROVE  "approved" \in decisions'[n]
    BY <2>1, <2>2 DEF DecisionsGrow, Granted, Row
  <2>3. \A w \in Workers : worker[w].seen \in Row /\ worker[w].out \in Row
    BY <1>1 DEF TypeOK, Handler
  <2>4. \A w \in Workers : Granted(worker[w].seen)' /\ Granted(worker[w].out)'
    BY <1>1, <1>2, <2>2, <2>3 DEF GrantsApproved, Granted
  <2>5. ASSUME NEW d \in Clients
        PROVE  Granted(client[d].seen)'
    <3>1. client[d].seen \in Row /\ Granted(client[d].seen) /\ row \in Row /\ Granted(row)
      BY <1>1 DEF TypeOK, Request, GrantsApproved
    <3>2. CASE d # c
      <4>1. client'[d] = client[d]
        BY <1>2, <3>2 DEF OtherRequests
      <4> QED
        BY <2>2, <3>1, <4>1 DEF Granted
    <3>3. CASE d = c
      <4>1. ASSUME NEW n \in client'[c].seen.granted
            PROVE  "approved" \in decisions'[n]
        <5>1. n \in client[c].seen.granted \/ n \in row.granted \/ n \in row'.granted
          BY <2>1, <4>1 DEF ReadsRecord
        <5>2. n \in row'.granted => "approved" \in decisions'[n]
          BY <2>1 DEF Granted
        <5> QED
          BY <2>2, <3>1, <3>3, <5>1, <5>2
      <4> QED
        BY <3>3, <4>1 DEF Granted
    <3> QED
      BY <3>2, <3>3
  <2>6. \A n \in Guarded : effects'[n] > 0 => "approved" \in decisions'[n]
    BY <1>1, <2>1, GraphAssumption DEF GrantsApproved, DecisionsGrow
  <2> QED
    BY <2>1, <2>4, <2>5, <2>6 DEF GrantsApproved
<1> QED
  BY <1>2, <1>3, <1>4, <1>6, <1>7, <1>8

\* A delivery, an expiry, a timer, a crash or no step at all keeps all of it.
LEMMA RestKeeps ==
    ASSUME OverlapInv,
           \/ \E w \in Workers, j \in JobIds : Deliver(w, j)
           \/ \E j \in JobIds : Expire(j)
           \/ Evict \/ Crash \/ UNCHANGED vars
    PROVE  /\ OneExecutor' /\ PausedAsks' /\ JobsDrawn'
           /\ \A v \in Workers : StatusInStep(worker[v])'
           /\ \A c \in Clients : RequestInStep(c)'
           /\ \A n \in Nodes \ undone' : Booked(n) => Booked(n)'
           /\ GrantsApproved'
<1>1. /\ TypeOK /\ OneExecutor /\ JobsDrawn /\ PausedAsks /\ GrantsApproved
      /\ \A c \in Clients : RequestInStep(c)
      /\ IdleWorker.pc = "idle" /\ IdleWorker.seen.granted = {} /\ IdleWorker.out.granted = {}
      /\ IdleClient.seen.granted = {}
  BY DEF OverlapInv, IdleWorker, IdleClient, NoRow
<1> DEFINE Drawn == \A j \in JobIds : job'[j].st # "none" => job[j].st # "none"
           Mind(w) == /\ worker'[w].pc = worker[w].pc /\ worker'[w].job = worker[w].job
                      /\ worker'[w].seen = worker[w].seen /\ worker'[w].n = worker[w].n
                      /\ worker'[w].out = worker[w].out
                      /\ registry' = "none" => registry = "none" \/ worker[w].pc = "idle"
           Begun(w) == /\ worker'[w].pc \in {"idle", "load"}
                       /\ worker'[w].pc = "load" => worker'[w].job \in 1..sent
                       /\ worker'[w].seen.granted = {} /\ worker'[w].out.granted = {}
           Rests == /\ UNCHANGED <<row, sent, effects, decisions>> /\ Drawn
                    /\ \A w \in Workers : Mind(w) \/ Begun(w)
                    /\ \A c \in Clients : client'[c] = client[c] \/ client'[c] = IdleClient
<1>2. ASSUME NEW w \in Workers, NEW j \in JobIds, Deliver(w, j)
      PROVE  Rests /\ OneExecutor'
  <2>1. UNCHANGED <<row, sent, registry, client, effects, decisions>> /\ worker[w].pc = "idle"
    BY <1>2 DEF Deliver
  <2>2. Drawn
    BY <1>1, <1>2, DeliverMeans
  <2>3. j \in 1..sent
    <3>1. job[j].st # "none"
      BY <1>1, <1>2, DeliverMeans
    <3> QED
      BY <1>1, <3>1, GraphAssumption DEF JobsDrawn, JobIds, TypeOK
  <2>4. worker'[w] = [IdleWorker EXCEPT !.pc = "load", !.job = j, !.live = TRUE]
    BY <1>1, <1>2 DEF Deliver, TypeOK
  <2>5. Begun(w) /\ worker'[w].pc = "load"
    BY <1>1, <2>3, <2>4 DEF IdleWorker
  <2>6. \A v \in Workers \ {w} : worker'[v] = worker[v]
    BY <1>1, <1>2, DeliverMeans DEF Others
  <2>7. \A v \in Workers \ {w} : Mind(v)
    BY <2>1, <2>6
  <2>8. \A v \in Workers : worker'[v].pc \in Executing <=> worker[v].pc \in Executing
    BY <2>1, <2>5, <2>6 DEF Executing
  <2>9. OneExecutor'
    <3> HIDE DEF Executing
    <3> QED
      BY <1>1, <2>1, <2>8 DEF OneExecutor
  <2> HIDE DEF Begun, Mind, Drawn
  <2> QED
    BY <2>1, <2>2, <2>5, <2>7, <2>9
<1>3. ASSUME NEW j \in JobIds, Expire(j)
      PROVE  Rests /\ OneExecutor'
  <2>1. /\ UNCHANGED <<row, sent, registry, client, effects, decisions>>
        /\ \A w \in Workers : /\ worker'[w].pc = worker[w].pc /\ worker'[w].job = worker[w].job
                              /\ worker'[w].seen = worker[w].seen /\ worker'[w].n = worker[w].n
                              /\ worker'[w].out = worker[w].out
    BY <1>1, <1>3, ExpireMeans
  <2>2. Drawn
    BY <1>1, <1>3, ExpireMeans
  <2>3. \A w \in Workers : Mind(w)
    BY <2>1
  <2>4. OneExecutor'
    BY <1>1, <2>1 DEF OneExecutor
  <2> HIDE DEF Begun, Mind, Drawn
  <2> QED
    BY <2>1, <2>2, <2>3, <2>4
<1>4. ASSUME Evict
      PROVE  Rests /\ OneExecutor'
  <2>1. /\ UNCHANGED <<row, sent, job, worker, client, effects, decisions>> /\ registry' = "none"
        /\ \A w \in Workers : worker[w].pc = "idle"
    BY <1>4 DEF Evict
  <2>2. OneExecutor'
    BY <1>1, <2>1 DEF OneExecutor, Executing
  <2>3. \A w \in Workers : Mind(w)
    BY <2>1
  <2> QED
    BY <2>1, <2>2, <2>3
<1>5. ASSUME Crash
      PROVE  Rests /\ OneExecutor'
  <2>1. /\ UNCHANGED <<row, sent, job, effects, decisions>> /\ registry' = "none"
        /\ \A w \in Workers : worker'[w] = IdleWorker
        /\ \A c \in Clients : client'[c] = IdleClient
    BY <1>5 DEF Crash
  <2>2. OneExecutor'
    BY <1>1, <2>1 DEF OneExecutor, Executing
  <2>3. \A w \in Workers : Begun(w)
    BY <1>1, <2>1
  <2> QED
    BY <2>1, <2>2, <2>3
<1>6. ASSUME UNCHANGED vars
      PROVE  Rests /\ OneExecutor'
  <2>1. UNCHANGED <<row, sent, job, worker, registry, client, effects, decisions>>
    BY <1>6 DEF vars
  <2>2. OneExecutor'
    BY <1>1, <2>1 DEF OneExecutor
  <2> QED
    BY <2>1, <2>2
<1>7. Rests /\ OneExecutor'
  BY <1>2, <1>3, <1>4, <1>5, <1>6
<1> HIDE DEF Drawn
<1>8. /\ \A v \in Workers : StatusInStep(worker[v])'
      /\ \A n \in Nodes \ undone' : Booked(n) => Booked(n)'
  <2>1. \A w \in Workers : worker'[w].pc \in {"idle", "load"} \/ SameMind(w)
    BY <1>7 DEF SameMind
  <2> QED
    BY <1>7, <2>1, IdleOverlap
<1>9. PausedAsks'
  BY <1>1, <1>7 DEF PausedAsks
<1>10. JobsDrawn'
  <2>1. ASSUME NEW w \in Workers
        PROVE  /\ worker'[w].pc # "idle" => worker'[w].job \in 1..sent'
               /\ worker'[w].pc \notin {"idle", "load"} => worker'[w].seen.job \in 1..sent'
               /\ worker'[w].pc \in {"act", "effect", "save", "bury"} => worker'[w].out.job \in 1..sent'
    BY <1>1, <1>7 DEF JobsDrawn
  <2>2. \A j \in JobIds : job'[j].st # "none" => j <= sent'
    BY <1>1, <1>7 DEF JobsDrawn, Drawn
  <2>3. /\ row'.st = "none" => row' = NoRow /\ sent' = 0
        /\ row'.st # "none" => row'.job \in 1..sent'
    BY <1>1, <1>7 DEF JobsDrawn
  <2> QED
    BY <2>1, <2>2, <2>3 DEF JobsDrawn
<1>11. \A c \in Clients : RequestInStep(c)'
  BY <1>1, <1>7 DEF RequestInStep, IdleClient
<1>12. GrantsApproved'
  BY <1>1, <1>7 DEF GrantsApproved, Granted
<1> QED
  BY <1>7, <1>8, <1>9, <1>10, <1>11, <1>12

-----------------------------------------------------------------------------
(* The theorems. *)

\* A record that runs has a job that pg-boss has not reported as done.
LEMMA NotOrphaned == ExecutionInv => NoOrphanedRun
<1> SUFFICES ASSUME ExecutionInv, row.st = "running"
             PROVE  /\ job[row.job].st # "completed"
                    /\ job[row.job].st = "failed" => crashes > 2
  BY DEF NoOrphanedRun
<1>1. row.job \in JobIds
  BY GraphAssumption DEF ExecutionInv, TypeOK, JobsInOrder, JobIds
<1>2. job[row.job].st # "completed" /\ Accounted(row.job)
  BY <1>1 DEF ExecutionInv, JobsInOrder, Open, Ended, Over
<1> QED
  BY <1>2 DEF Accounted

\* Without an overrun all is in order.
LEMMA ExecutionOrders == ExecutionInv => InOrder
BY ExecutionIs, NotOrphaned DEF InOrder

\* At first there is nothing to disagree about.
LEMMA AutomationStart == Init => AutomationInv
<1> SUFFICES ASSUME Init
             PROVE  AutomationInv
  OBVIOUS
<1>1. TypeOK
  BY Resting, GraphAssumption DEF Init, TypeOK, Job, OrchEnded
<1>2. OneExecutor /\ PausedAsks /\ JobsDrawn
  BY Resting, GraphAssumption DEF Init, OneExecutor, PausedAsks, JobsDrawn, NoRow, Executing
<1>3. /\ \A w \in Workers : StatusInStep(worker[w])
      /\ \A c \in Clients : RequestInStep(c)
  BY Resting DEF Init, StatusInStep, Entering, Working, Closing, RequestInStep
<1>4. \A n \in Nodes : NodeBooked(n)
  BY Resting DEF Init, NodeBooked, Carries, Entering, Working, Closing
<1>5. GrantsApproved /\ \A n \in Guarded : ApprovalBooked(n)
  BY Resting, GraphAssumption DEF Init, GrantsApproved, Granted, ApprovalBooked, NoRow, IdleWorker, IdleClient
<1>6. OverlapInv
  BY <1>1, <1>2, <1>3, <1>4, <1>5 DEF OverlapInv
<1>7. OneHandler /\ JobsAccounted /\ NoOrphanedRun
  BY Resting, GraphAssumption
  DEF Init, OneHandler, JobsAccounted, Accounted, NoOrphanedRun, NoRow, Open
<1>8. \A w \in Workers : HandlerInStep(w)
  BY RestInStep DEF Init, HandlerInStep
<1> QED
  BY <1>6, <1>7, <1>8 DEF AutomationInv, InOrder

\* What holds beside overruns and late answers holds after each step.
LEMMA OverlapStep ==
    ASSUME OverlapInv, [Next]_vars
    PROVE  OverlapInv'
<1>1. TypeOK'
  BY TypeStep DEF OverlapInv
<1>2. undone \subseteq undone'
  BY SideTypes DEF OverlapInv, SideTyped
<1> DEFINE Kept == /\ OneExecutor' /\ PausedAsks' /\ JobsDrawn'
                   /\ \A v \in Workers : StatusInStep(worker[v])'
                   /\ \A c \in Clients : RequestInStep(c)'
                   /\ \A n \in Nodes \ undone' : Booked(n) => Booked(n)'
                   /\ GrantsApproved'
<1>3. ASSUME NEW w \in Workers, Works(w) \/ Deny(w) \/ TimeOut(w)
      PROVE  Kept
  BY <1>3, HandlerOverlap
<1>4. ASSUME NEW c \in Clients,
             \/ Serves(c)
             \/ c \in Devices /\ (Start(c) \/ AskCancel(c))
             \/ c \in Devices /\ (\E a \in {"approved", "rejected"} : AskAnswer(c, a))
             \/ c = Boot /\ (Restart \/ Reconcile)
      PROVE  Kept
  BY <1>4, RequestKeeps
<1>5. ASSUME \/ \E w \in Workers, j \in JobIds : Deliver(w, j)
             \/ \E j \in JobIds : Expire(j)
             \/ Evict \/ Crash \/ UNCHANGED vars
      PROVE  Kept
  BY <1>5, RestKeeps
<1>6. Kept
  <2> HIDE DEF Kept
  <2> QED
    BY <1>3, <1>4, <1>5 DEF Next, Clients
<1>7. \A n \in Nodes \ undone' : Booked(n)'
  <2>1. \A n \in Nodes \ undone : Booked(n)
    BY BookedIs DEF OverlapInv
  <2> QED
    BY <1>2, <1>6, <2>1
<1>8. (\A n \in Nodes \ undone : Booked(n))'
  BY <1>7
<1>9. (/\ \A n \in Nodes \ undone : NodeBooked(n)
       /\ \A n \in Guarded \ undone : ApprovalBooked(n))'
  <2>1. ((\A n \in Nodes \ undone : Booked(n))
            => /\ \A n \in Nodes \ undone : NodeBooked(n)
               /\ \A n \in Guarded \ undone : ApprovalBooked(n))'
    BY BookedIs, PTL
  <2> QED
    BY <1>8, <2>1
<1> QED
  BY <1>1, <1>6, <1>9 DEF OverlapInv

\* The record, the queue and the memory of handlers and requests agree at all times:
\* of every node that no stale write has touched, whatever handlers overlap; and, as
\* long as no job has expired under its handler, altogether.
THEOREM AutomationTheorem == Spec => []AutomationInv
<1>1. AutomationInv /\ [Next]_vars => AutomationInv'
  <2> SUFFICES ASSUME AutomationInv, [Next]_vars
               PROVE  AutomationInv'
    OBVIOUS
  <2>1. OverlapInv'
    BY OverlapStep DEF AutomationInv
  <2>2. ASSUME overruns' = 0
        PROVE  InOrder'
    <3>1. overruns = 0
      BY <2>2, SideTypes, GraphAssumption DEF SideTyped, AutomationInv, OverlapInv, TypeOK
    <3>2. ExecutionInv'
      BY <2>2, <3>1, ExecutionIs, ExecutionStep DEF AutomationInv
    <3>3. (ExecutionInv => InOrder)'
      BY ExecutionOrders, PTL
    <3> QED
      BY <3>2, <3>3
  <2> QED
    BY <2>1, <2>2 DEF AutomationInv
<1> QED
  BY <1>1, AutomationStart, PTL DEF Spec

\* The side effect of a node starts at most once, over all deliveries, overlapping
\* handlers, restarts and answers, unless a stale write has changed the node's record.
THEOREM OnceTheorem == Spec => []EffectStartedOnce
<1>1. AutomationInv => EffectStartedOnce
  BY DEF AutomationInv, OverlapInv, NodeBooked, EffectStartedOnce
<1> QED
  BY <1>1, AutomationTheorem, PTL

\* A guarded tool runs only on an approval of its own question, however late answers
\* are and whatever handlers overlap; and on the one decision that was accepted,
\* unless a stale write has changed the node's record.
THEOREM ApprovalTheorem == Spec => []GuardedRunsOnApproval
<1>1. AutomationInv => GuardedRunsOnApproval
  BY DEF AutomationInv, OverlapInv, GrantsApproved, ApprovalBooked, GuardedRunsOnApproval
<1> QED
  BY <1>1, AutomationTheorem, PTL

\* As long as no job has expired under its handler, a running record has a job that
\* is still to be worked on.
THEOREM OrphanTheorem == Spec => [](overruns = 0 => NoOrphanedRun)
<1>1. AutomationInv => (overruns = 0 => NoOrphanedRun)
  BY DEF AutomationInv, InOrder
<1> QED
  BY <1>1, AutomationTheorem, PTL

\* A handler writes only over a record that was neither completed nor cancelled.
LEMMA WritesOpen ==
    ASSUME TypeOK, NEW w \in Workers, StatusInStep(worker[w]), Works(w) \/ Deny(w) \/ TimeOut(w)
    PROVE  UNCHANGED row \/ row.st \notin {"completed", "cancelled"}
<1> DEFINE x == worker[w]
           Result == UNCHANGED row \/ row.st \notin {"completed", "cancelled"}
<1>a. ASSUME UNCHANGED row \/ row.st = x.seen.st, x.pc \in Entering \cup Working \cup Closing \cup {"failrow"}
      PROVE  Result
  BY <1>a DEF StatusInStep, Entering, Working, Closing, Open
<1> HIDE DEF Result
<1>1. ASSUME Interrupt(w)
      PROVE  Result
  BY <1>1, InterruptMeans DEF Result
<1>2. ASSUME Enter(w)
      PROVE  Result
  BY <1>2, <1>a, EnterMeans, HandlerFrames DEF Entering
<1>3. ASSUME Claim(w)
      PROVE  Result
  BY <1>3, <1>a, ClaimMeans, HandlerFrames DEF Working
<1>4. ASSUME Save(w)
      PROVE  Result
  BY <1>4, <1>a, SaveMeans, HandlerFrames DEF Working
<1>5. ASSUME Bury(w)
      PROVE  Result
  BY <1>5, <1>a, BuryMeans, HandlerFrames DEF Working
<1>6. ASSUME Complete(w)
      PROVE  Result
  BY <1>6, <1>a, CompleteMeans, HandlerFrames DEF Closing
<1>7. ASSUME FailRow(w)
      PROVE  Result
  BY <1>7, <1>a, FailRowMeans, HandlerFrames
<1>8. ASSUME \/ Load(w) \/ Track(w) \/ Orchestrate(w) \/ Look(w) \/ Act(w) \/ Effect(w)
             \/ Pause(w) \/ Drop(w) \/ Close(w) \/ Fail(w) \/ FailOrchestration(w)
             \/ Deny(w) \/ TimeOut(w)
      PROVE  Result
  <2>1. UNCHANGED row
    BY <1>8, LoadMeans, TrackMeans, OrchestrateMeans, LookMeans, ActMeans, EffectMeans, PauseMeans,
       DropMeans, CloseMeans, FailMeans, FailOrchestrationMeans, DenyMeans, TimeOutMeans
  <2> QED
    BY <2>1 DEF Result
<1>9. Result
  BY <1>1, <1>2, <1>3, <1>4, <1>5, <1>6, <1>7, <1>8 DEF Works
<1> QED
  BY <1>9 DEF Result

\* A completed or cancelled record is not written again, whatever handlers overlap and
\* however late an answer is; a failed one is not resumed, as long as no job has
\* expired under its handler.
THEOREM EndedTheorem == Spec => EndedRunStaysEnded
<1> DEFINE Kept == /\ row.st \in {"completed", "cancelled"} => row' = row
                   /\ row.st = "failed" /\ overruns = 0 => row'.st = "failed"
<1>1. ASSUME AutomationInv, [Next]_vars
      PROVE  Kept
  <2>0. OverlapInv /\ (overruns = 0 => ExecutionInv)
    BY <1>1, ExecutionIs DEF AutomationInv
  <2>1. ASSUME NEW w \in Workers, Works(w) \/ Deny(w) \/ TimeOut(w)
        PROVE  Kept
    <3>1. overruns = 0 => Written
      BY <2>0, <2>1, HandlerSteps
    <3>2. UNCHANGED row \/ row.st \notin {"completed", "cancelled"}
      BY <2>0, <2>1, WritesOpen DEF OverlapInv
    <3> QED
      BY <3>1, <3>2 DEF Written, Open
  <2>2. ASSUME NEW c \in Clients,
               \/ Serves(c)
               \/ c \in Devices /\ (Start(c) \/ AskCancel(c))
               \/ c \in Devices /\ (\E a \in {"approved", "rejected"} : AskAnswer(c, a))
               \/ c = Boot /\ (Restart \/ Reconcile)
        PROVE  Kept
    <3>1. Asked
      BY <2>0, <2>2, RequestSteps DEF OverlapInv, Standing
    <3> QED
      BY <3>1 DEF Asked, Open
  <2>3. ASSUME NEW w \in Workers, NEW j \in JobIds, Deliver(w, j)
        PROVE  Kept
    BY <2>3 DEF Deliver
  <2>4. ASSUME NEW j \in JobIds, Expire(j)
        PROVE  Kept
    BY <2>4 DEF Expire
  <2>5. ASSUME Crash \/ Evict \/ UNCHANGED vars
        PROVE  Kept
    BY <2>5 DEF Crash, Evict, vars
  <2> HIDE DEF Kept
  <2> QED
    BY <1>1, <2>1, <2>2, <2>3, <2>4, <2>5 DEF Next, Clients
<1>2. AutomationInv /\ [Next]_vars => [Kept]_row
  BY <1>1
<1> HIDE DEF Kept
<1>3. Spec => [][Kept]_row
  BY <1>2, AutomationTheorem, PTL DEF Spec
<1> QED
  BY <1>3 DEF EndedRunStaysEnded, Kept

\* As long as no job has expired under its handler, no handler writes over the record
\* what it read of an older one: only the answer of a device can.
THEOREM StaleTheorem ==
    Spec => [][overruns = 0 /\ undone' # undone => \E c \in Clients : Decide(c)]_vars
<1> DEFINE Cause == overruns = 0 /\ undone' # undone => \E c \in Clients : Decide(c)
<1>1. ASSUME AutomationInv, [Next]_vars
      PROVE  Cause
  <2>1. ASSUME NEW w \in Workers, FailRow(w), overruns = 0
        PROVE  UNCHANGED undone
    <3>1. InStep(worker[w], row) /\ worker[w].pc = "failrow" /\ TypeOK
      BY <1>1, <2>1, HandlerFrames DEF AutomationInv, InOrder, OverlapInv, HandlerInStep
    <3>2. row = worker[w].seen \/ row.st # worker[w].seen.st
      BY <3>1 DEF InStep, Open, Over
    <3>3. row = worker[w].seen => Stale(worker[w].seen) = {}
      BY DEF Stale
    <3> QED
      BY <2>1, <3>1, <3>2, <3>3, FailRowMeans
  <2>2. ASSUME NEW w \in Workers, (Works(w) /\ ~FailRow(w)) \/ Deny(w) \/ TimeOut(w)
        PROVE  UNCHANGED undone
    BY <2>2, HandlerFrames DEF Works
  <2>3. ASSUME NEW w \in Workers, NEW j \in JobIds, Deliver(w, j)
        PROVE  UNCHANGED undone
    BY <2>3 DEF Deliver
  <2>4. ASSUME NEW j \in JobIds, Expire(j)
        PROVE  UNCHANGED undone
    BY <2>4 DEF Expire
  <2>5. ASSUME NEW c \in Clients, Serves(c), ~Decide(c)
        PROVE  UNCHANGED undone
    BY <2>5, RequestFrames DEF Serves, Dispatches
  <2>6. ASSUME NEW c \in Devices,
               Start(c) \/ AskCancel(c) \/ \E a \in {"approved", "rejected"} : AskAnswer(c, a)
        PROVE  UNCHANGED undone
    BY <2>6 DEF Start, AskCancel, AskAnswer
  <2>7. ASSUME Crash \/ Restart \/ Reconcile \/ Evict \/ UNCHANGED vars
        PROVE  UNCHANGED undone
    BY <2>7 DEF Crash, Restart, Reconcile, Evict, vars
  <2> QED
    BY <1>1, <2>1, <2>2, <2>3, <2>4, <2>5, <2>6, <2>7 DEF Next
<1>2. AutomationInv /\ [Next]_vars => [Cause]_vars
  BY <1>1
<1> HIDE DEF Cause
<1>3. Spec => [][Cause]_vars
  BY <1>2, AutomationTheorem, PTL DEF Spec
<1> QED
  BY <1>3 DEF Cause
=============================================================================
