----------------------------- MODULE RunInputs ------------------------------
(***************************************************************************)
(* One run of the agent and the messages a user steers it with.            *)
(*                                                                         *)
(* Durable state (PostgreSQL row of the run, its run_inputs rows, and the  *)
(* SDK checkpoint the row points to) is kept apart from the state of the   *)
(* server process, which a crash destroys.  The actors are the clients     *)
(* that send and resend messages, the single executor of the run, the user *)
(* who cancels, approves or resumes, and the crash of the process.         *)
(*                                                                         *)
(* An action is what the code does between two points where another actor  *)
(* can get in: one transaction, or the synchronous code between two awaits.*)
(* RunSteeringController runs its operations one at a time per run (a      *)
(* PQueue); "SlotFree" is that queue being idle.                           *)
(***************************************************************************)
EXTENDS Integers, FiniteSets

CONSTANTS
    Inputs,              \* message identities the clients use (steeringId)
    MaxRechecks,         \* goal.maxRechecks of the run's configuration
    Approvals            \* how many approvals may be pending at once

ASSUME RunInputsConstants ==
    /\ IsFiniteSet(Inputs)
    /\ MaxRechecks \in Nat
    /\ Approvals \in Nat \ {0}

VARIABLES
    \* durable
    status,        \* run status
    next,          \* nextInputSequence
    rows,          \* run_inputs: sequence number -> [id, st]
    cursor,        \* checkpointInputCursor: the last acknowledged sequence
    lease,         \* active input lease, a range of sequence numbers
    hasBlob,       \* sdkStateContentHash is set
    blob,          \* the sequence numbers in the checkpointed RunState
    asked,         \* how many approvals of state.approvals are pending
    objRev,        \* state.objectiveRevision
    goal,          \* state.goal
    \* of the server process
    pc,            \* where the executor is
    resume,        \* the executor continues a checkpoint
    accepting,     \* runId \in acceptingRuns
    enq,           \* the message whose enqueue holds the steering queue
    pending,       \* pendingInputLeaseId of the executor
    mem,           \* the sequence numbers in the executor's RunState
    session,       \* the sequence numbers in its FileAgentsSession
    modelRev,      \* objective revision bound to the model request
    cand,          \* objective revision of the candidate answer
    itemsOpen,     \* the run's item fence is open
    aborted,       \* the executor's AbortController fired
    cancelling,    \* the goals a cancellation read and has still to end
    \* of the clients
    reply,         \* the reply to the last request, "none" while it is under way
    \* history, read by no action
    since,         \* the cursor this executor resumed at with an empty session
    lost           \* the cursor of the last such resume a new segment followed

ledger   == <<next, rows, cursor, lease>>
saved    == <<hasBlob, blob, asked>>
aim      == <<objRev, goal>>
window   == <<accepting, enq>>
input    == <<pending, mem, session, since, lost>>
bound    == <<modelRev, cand>>
stop     == <<aborted, cancelling>>
volatile == <<resume, itemsOpen, window, input, bound, stop>>
vars     == <<status, ledger, saved, aim, pc, volatile, reply>>

Status == {"queued", "running", "waiting_approval", "clarification_needed",
           "interrupted", "requires_action", "completed", "failed", "cancelled"}

\* The executor, from its registration to the end of its finally block.
Executing == {"starting", "opening", "filter", "consume", "stage", "model",
              "drain", "candidate", "deliver", "judge", "judging", "satisfy",
              "finish", "clarify", "refuse", "memory", "closing"}

\* Where an exception still reaches the catch block of OpenAIAgentsRuntime.
Unfinished == Executing \ {"memory", "closing"}

NoLease  == [from |-> 0, to |-> 0]
Seqs     == 1..(next - 1)
Span(l) == l.from..l.to
Row   == [id : Inputs, st : {"queued", "leased", "acked"}]
LiveGoal(g) == g.st \in {"active", "evaluating"}
Goals == [st : {"none", "active", "evaluating", "satisfied", "ended"}, rev : Nat, n : Nat]

Flags ==
    /\ hasBlob \in BOOLEAN /\ resume \in BOOLEAN /\ accepting \in BOOLEAN
    /\ itemsOpen \in BOOLEAN /\ aborted \in BOOLEAN

TypeOK ==
    /\ Flags
    /\ status \in Status
    /\ next \in Nat \ {0}
    /\ rows \in [Seqs -> Row]
    /\ cursor \in Nat
    /\ lease \in [from : Nat, to : Nat]
    /\ blob \in SUBSET Nat
    /\ asked \in 0..Approvals
    /\ objRev \in Nat
    /\ goal \in Goals
    /\ pc \in Executing \cup {"idle", "down"}
    /\ enq \in SUBSET Inputs
    /\ pending \in [from : Nat, to : Nat]
    /\ mem \in SUBSET Nat
    /\ session \in SUBSET Nat
    /\ modelRev \in Nat
    /\ cand \in Nat
    /\ cancelling \in SUBSET Goals
    /\ reply \in {"none", "ok", "error"}
    /\ since \in Nat /\ lost \in Nat

\* A run as RunStore.create leaves it, with or without a goal.
Init ==
    /\ status = "queued"
    /\ next = 1 /\ rows = [s \in {} |-> s] /\ cursor = 0 /\ lease = NoLease
    /\ hasBlob = FALSE /\ blob = {} /\ asked = 0
    /\ objRev = 1
    /\ goal \in {[st |-> g, rev |-> 1, n |-> 0] : g \in {"none", "active"}}
    /\ pc = "idle"
    /\ resume = FALSE /\ accepting = FALSE /\ enq = {} /\ pending = NoLease
    /\ mem = {} /\ session = {} /\ modelRev = 0 /\ cand = 0
    /\ itemsOpen = TRUE /\ aborted = FALSE /\ cancelling = {}
    /\ reply = "none"
    /\ since = 0 /\ lost = 0

-----------------------------------------------------------------------------
(* Helpers. *)

SlotFree  == enq = {} /\ pc # "stage"
Stored(i) == \E s \in Seqs : rows[s].id = i
Mark(S, st) == [s \in Seqs |-> IF s \in S THEN [rows[s] EXCEPT !.st = st] ELSE rows[s]]

\* advanceGoalObjectiveRevision: a newer objective restarts the goal.
Advance(g) ==
    IF g.st = "none" \/ next <= g.rev
    THEN g
    ELSE [st |-> "active", rev |-> next, n |-> 0]

\* synchronizeObjectiveRevision.
SyncedGoal == IF objRev = next THEN goal ELSE Advance(goal)
Sync == objRev' = next /\ goal' = SyncedGoal

\* Seeded fault: the newest row of the queue is not compared.
RevisionMatchesIgnoringQueue(r) == lease = NoLease /\ cursor + 1 = r

\* revisionMatches, after the synchronisation every caller starts with.
RevisionMatches(r) == next = r /\ lease = NoLease /\ cursor + 1 = r

-----------------------------------------------------------------------------
(* The clients: run:steer, sent once or again after a lost reply.  The     *)
(* task manager refuses a run without an active task.                      *)

SteerIdle(i) ==
    /\ pc = "idle"
    /\ reply' = "error"
    /\ UNCHANGED <<status, ledger, saved, aim, pc, volatile>>

\* Seeded fault: a resent message gets a second row.
EnqueueTwice(i) ==
    /\ pc \in Executing /\ SlotFree
    /\ accepting /\ status = "running"
    /\ enq' = {i}
    /\ next' = next + 1
    /\ rows' = [s \in 1..next |-> IF s = next THEN [id |-> i, st |-> "queued"]
                                              ELSE rows[s]]
    /\ reply' = "none"
    /\ UNCHANGED <<status, cursor, lease, saved, aim, pc, resume, itemsOpen,
                   accepting, input, bound, stop>>

\* Seeded fault: the row is inserted, nextInputSequence is not raised.
EnqueueWithoutSequence(i) ==
    /\ pc \in Executing /\ SlotFree
    /\ accepting /\ status = "running"
    /\ enq' = {i}
    /\ IF Stored(i)
       THEN UNCHANGED rows
       ELSE rows' = [s \in 1..next |-> IF s = next
                                       THEN [id |-> i, st |-> "queued"]
                                       ELSE rows[s]]
    /\ reply' = "none"
    /\ UNCHANGED <<status, next, cursor, lease, saved, aim, pc, resume, itemsOpen,
                   accepting, input, bound, stop>>

\* The enqueue transaction; a known identity returns its row.
Enqueue(i) ==
    /\ pc \in Executing /\ SlotFree
    /\ accepting /\ status = "running"
    /\ enq' = {i}
    /\ IF Stored(i)
       THEN UNCHANGED <<next, rows>>
       ELSE /\ next' = next + 1
            /\ rows' = [s \in 1..next |-> IF s = next
                                          THEN [id |-> i, st |-> "queued"]
                                          ELSE rows[s]]
    /\ reply' = "none"
    /\ UNCHANGED <<status, cursor, lease, saved, aim, pc, resume, itemsOpen,
                   accepting, input, bound, stop>>

\* The rest of the enqueue: the new objective revision, then the projection
\* of the message as a conversation item, which a closed item fence refuses.
EnqueueDone(i) ==
    /\ enq = {i}
    /\ enq' = {}
    /\ Sync
    /\ reply' = IF itemsOpen THEN "ok" ELSE "error"
    /\ UNCHANGED <<status, ledger, saved, pc, resume, itemsOpen, accepting,
                   input, bound, stop>>

\* The synchronisation fails after the row is durable.
EnqueueFails(i) ==
    /\ enq = {i}
    /\ enq' = {}
    /\ reply' = "error"
    /\ UNCHANGED <<status, ledger, saved, aim, pc, resume, itemsOpen,
                   accepting, input, bound, stop>>

\* Not accepting any more: a known identity is projected and returned again.
SteerClosed(i) ==
    /\ pc \in Executing /\ SlotFree
    /\ ~(accepting /\ status = "running")
    /\ reply' = IF Stored(i) /\ itemsOpen THEN "ok" ELSE "error"
    /\ UNCHANGED <<status, ledger, saved, aim, pc, volatile>>

-----------------------------------------------------------------------------
(* The executor, from OpenAIAgentsRuntime.run to steering.open.             *)

\* A fresh or approved run is launched; an interrupted one only with a checkpoint.
Launch ==
    /\ pc = "idle"
    /\ \/ status = "queued"
       \/ status = "interrupted" /\ hasBlob
    /\ pc' = "starting"
    /\ resume' = hasBlob
    /\ UNCHANGED <<status, ledger, saved, aim, itemsOpen, window, input, bound,
                   stop, reply>>

MarkRunning ==
    /\ pc = "starting"
    /\ pc' = "opening"
    /\ status' = "running"
    /\ itemsOpen' = TRUE
    /\ UNCHANGED <<ledger, saved, aim, resume, window, input, bound, stop,
                   reply>>

\* Seeded fault: the rows go back to the queue, the active lease stays.
RequeueKeepingLease ==
    IF lease = NoLease
    THEN UNCHANGED <<rows, lease>>
    ELSE /\ lease.from = cursor + 1
         /\ rows' = Mark({s \in Span(lease) : rows[s].st = "leased"}, "queued")
         /\ UNCHANGED lease

\* requeueLeasedRunInputs: a lease nobody acknowledged goes back to the queue.
Requeue ==
    IF lease = NoLease
    THEN UNCHANGED <<rows, lease>>
    ELSE /\ lease.from = cursor + 1
         /\ rows' = Mark({s \in Span(lease) : rows[s].st = "leased"}, "queued")
         /\ lease' = NoLease

\* steering.open, then the assembly of a new session, which leaves the entries
\* of this run out, and of the RunState the first Runner segment starts from.
\* Whether the SDK hands the messages of a resumed RunState to the session again
\* is not decided in this repository: both answers are taken.
Open ==
    /\ pc = "opening" /\ SlotFree /\ status = "running"
    /\ IF resume THEN Requeue
                 ELSE lease = NoLease /\ UNCHANGED <<rows, lease>>
    /\ Sync
    /\ accepting' = TRUE
    /\ mem' = IF resume THEN blob ELSE {}
    /\ \E seeds \in (IF resume THEN BOOLEAN ELSE {FALSE}) :
         /\ session' = IF seeds THEN blob ELSE {}
         /\ since' = IF resume /\ ~seeds THEN cursor ELSE 0
    /\ pending' = NoLease
    /\ pc' = "filter"
    /\ UNCHANGED <<status, next, cursor, saved, resume, itemsOpen, enq, bound,
                   stop, reply, lost>>

-----------------------------------------------------------------------------
(* A Runner segment: before every model request the filter saves the whole *)
(* RunState and with it acknowledges the inputs staged in it, then leases  *)
(* and stages the inputs queued since.                                     *)

\* Seeded fault: the state is saved, the lease in it is not acknowledged.
SaveStateWithoutAck ==
    /\ hasBlob' = TRUE
    /\ blob' = mem
    /\ UNCHANGED <<rows, cursor, lease, pending>>

\* saveAgentsSdkCheckpoint under the lease the state was staged from.
SaveState ==
    /\ hasBlob' = TRUE
    /\ blob' = mem
    /\ pending' = NoLease
    /\ IF pending = NoLease
       THEN /\ lease = NoLease
            /\ UNCHANGED <<rows, cursor, lease>>
       ELSE /\ lease = pending
            /\ lease.from = cursor + 1
            /\ \A s \in Span(lease) : s \in Seqs /\ rows[s].st = "leased"
            /\ rows' = Mark(Span(lease), "acked")
            /\ cursor' = lease.to
            /\ lease' = NoLease

\* checkpointCurrentState, in the filter and after the stream ended.
Checkpoint ==
    /\ \/ pc = "filter" /\ pc' = "consume"
       \/ pc = "drain" /\ pc' = "candidate"
    /\ SaveState
    /\ UNCHANGED <<status, next, asked, aim, resume, itemsOpen, window, mem,
                   session, since, lost, bound, stop, reply>>

QueuedInputs == {s \in Seqs : s > cursor /\ rows[s].st = "queued"}

\* Seeded fault: only the first batch is ever leased.
LeaseFirstBatchOnly ==
    /\ pc = "consume" /\ SlotFree
    /\ lease = NoLease
    /\ IF QueuedInputs = {} \/ cursor > 0
       THEN UNCHANGED <<rows, lease>>
       ELSE /\ lease' = [from |-> cursor + 1, to |-> next - 1]
            /\ rows' = Mark(QueuedInputs, "leased")
    /\ pc' = "stage"
    /\ UNCHANGED <<status, next, cursor, saved, aim, volatile, reply>>

\* leaseRunInputs: everything queued after the cursor, which must have no hole.
LeaseInputs ==
    /\ pc = "consume" /\ SlotFree
    /\ lease = NoLease
    /\ QueuedInputs = (cursor + 1)..(next - 1)
    /\ IF QueuedInputs = {}
       THEN UNCHANGED <<rows, lease>>
       ELSE /\ lease' = [from |-> cursor + 1, to |-> next - 1]
            /\ rows' = Mark(QueuedInputs, "leased")
    /\ pc' = "stage"
    /\ UNCHANGED <<status, next, cursor, saved, aim, volatile, reply>>

LeasedNow == IF lease = NoLease THEN {} ELSE Span(lease)

\* Seeded fault: the request is bound to the revision before the lease.
StageBindingCursor ==
    /\ pc = "stage"
    /\ Sync
    /\ mem' = mem \cup LeasedNow
    /\ session' = session \cup LeasedNow
    /\ pending' = lease
    /\ modelRev' = cursor + 1
    /\ pc' = "model"
    /\ UNCHANGED <<status, ledger, saved, resume, itemsOpen, window, cand, stop,
                   reply, since, lost>>

\* Seeded fault: the session does not retain the staged inputs.
StageWithoutRetaining ==
    /\ pc = "stage"
    /\ Sync
    /\ mem' = mem \cup LeasedNow
    /\ pending' = lease
    /\ modelRev' = IF lease = NoLease THEN cursor + 1 ELSE lease.to + 1
    /\ pc' = "model"
    /\ UNCHANGED <<status, ledger, saved, resume, itemsOpen, window, session, cand,
                   stop, reply, since, lost>>

\* The rest of consumePendingWithRevision, then the staging of the leased
\* inputs in the RunState and the session, and the revision the request is for.
Stage ==
    /\ pc = "stage"
    /\ Sync
    /\ mem' = mem \cup LeasedNow
    /\ session' = session \cup LeasedNow
    /\ pending' = lease
    /\ modelRev' = IF lease = NoLease THEN cursor + 1 ELSE lease.to + 1
    /\ pc' = "model"
    /\ UNCHANGED <<status, ledger, saved, resume, itemsOpen, window, cand, stop,
                   reply, since, lost>>

\* The model asks for tools, which run, and the next request is filtered.
CallTools ==
    /\ pc = "model"
    /\ pc' = "filter"
    /\ UNCHANGED <<status, ledger, saved, aim, volatile, reply>>

\* The model answers, or is interrupted by a tool that needs approval.  A
\* stream that was cancelled counts as no answer.
EndStream ==
    /\ pc = "model" /\ ~aborted
    /\ pc' = "drain"
    /\ UNCHANGED <<status, ledger, saved, aim, volatile, reply>>

\* The approval requests are stored, next to those still undecided, and the run
\* waits.
Interrupt ==
    /\ pc = "candidate"
    /\ status' = "waiting_approval"
    /\ asked' \in {n \in 1..Approvals : n >= asked}
    /\ itemsOpen' = FALSE
    /\ pc' = "closing"
    /\ UNCHANGED <<ledger, hasBlob, blob, aim, resume, window, input, bound, stop,
                   reply>>

-----------------------------------------------------------------------------
(* The candidate answer.                                                   *)

\* The loop goes on with a new Runner segment, whose input is the session's:
\* after a resume with an empty session it lacks what was acknowledged before.
NewSegment ==
    /\ mem' = session
    /\ lost' = IF since > lost THEN since ELSE lost
    /\ pc' = "filter"

\* modelInputRevisionSnapshot; an outdated candidate is superseded.  A result
\* with an undecided approval is an interruption and never gets here.
Snapshot ==
    /\ pc = "candidate" /\ SlotFree /\ asked = 0
    /\ Sync
    /\ cand' = cursor + 1
    /\ IF RevisionMatches(cursor + 1)
       THEN /\ pc' = IF LiveGoal(SyncedGoal) THEN "judge" ELSE "deliver"
            /\ UNCHANGED <<mem, lost>>
       ELSE NewSegment
    /\ UNCHANGED <<status, ledger, saved, resume, itemsOpen, window, pending,
                   session, since, modelRev, stop, reply>>

\* Evidence is missing: the executor asks the model to repair the delivery.
Repair ==
    /\ pc \in {"deliver", "judge"}
    /\ NewSegment
    /\ UNCHANGED <<status, ledger, saved, aim, resume, itemsOpen, window,
                   pending, session, since, bound, stop, reply>>

\* tryClaimTerminal: close the steering window if the candidate is current,
\* else supersede it.
Claim(target) ==
    /\ SlotFree
    /\ Sync
    /\ IF RevisionMatches(cand)
       THEN /\ accepting' = FALSE
            /\ pc' = target
            /\ UNCHANGED <<mem, lost>>
       ELSE /\ NewSegment
            /\ UNCHANGED accepting
    /\ UNCHANGED <<status, ledger, saved, resume, itemsOpen, enq, pending, session,
                   since, bound, stop, reply>>

\* An unanswered clarification ends the run and hands the goal on.
ClaimClarification == pc \in {"deliver", "judge"} /\ Claim("clarify")

\* Unfinished workflow or todos, exhausted repairs or goal: claimed, then thrown.
ClaimRefusal == pc \in {"deliver", "judge"} /\ Claim("refuse")

\* No goal to judge.
ClaimAnswer == pc = "deliver" /\ Claim("finish")

\* commitRevision of the evaluating goal, then GoalJudge.evaluate starts.
BeginJudge ==
    /\ pc = "judge" /\ SlotFree
    /\ objRev' = next
    /\ IF RevisionMatches(cand)
       THEN /\ goal' = [SyncedGoal EXCEPT !.st = "evaluating", !.rev = cand]
            /\ pc' = "judging"
            /\ UNCHANGED <<mem, lost>>
       ELSE /\ goal' = SyncedGoal
            /\ NewSegment
    /\ UNCHANGED <<status, ledger, saved, resume, itemsOpen, window, pending,
                   session, since, bound, stop, reply>>

VerdictSatisfied == pc = "judging" /\ Claim("satisfy")

\* Impossible, over budget, or incomplete with no recheck left.
VerdictRefused == pc = "judging" /\ Claim("refuse")

\* Incomplete: the recheck is committed and a new segment starts.
VerdictIncomplete ==
    /\ pc = "judging" /\ SlotFree
    /\ goal.n < MaxRechecks
    /\ objRev' = next
    /\ goal' = IF RevisionMatches(cand)
               THEN [SyncedGoal EXCEPT !.st = "active", !.n = goal.n + 1]
               ELSE SyncedGoal
    /\ NewSegment
    /\ UNCHANGED <<status, ledger, saved, resume, itemsOpen, window, pending,
                   session, since, bound, stop, reply>>

\* After the claim the goal is written in a transaction of its own.
Settle ==
    /\ \/ /\ pc = "satisfy"
          /\ goal' = [st |-> "satisfied", rev |-> cand, n |-> goal.n]
          /\ pc' = "finish"
       \/ /\ pc \in {"clarify", "refuse"} /\ LiveGoal(goal)
          /\ goal' = [goal EXCEPT !.st = "ended"]
          /\ UNCHANGED pc
    /\ UNCHANGED <<status, ledger, saved, objRev, volatile, reply>>

-----------------------------------------------------------------------------
(* The end of an executor.                                                 *)

\* completeRun('completed') by the finalizer, or for a clarification.
Complete ==
    /\ \/ pc = "finish" /\ status' = "completed" /\ pc' = "memory"
       \/ /\ pc = "clarify" /\ ~LiveGoal(goal)
          /\ status' = "clarification_needed" /\ pc' = "closing"
    /\ itemsOpen' = FALSE
    /\ UNCHANGED <<ledger, saved, aim, resume, window, input, bound, stop,
                   reply>>

\* maybeExtractLongTermMemories, under the same AbortController.
ExtractMemories ==
    /\ pc = "memory"
    /\ pc' = "closing"
    /\ UNCHANGED <<status, ledger, saved, aim, volatile, reply>>

\* Any await of the executor throws.  The catch block ends the goal (that of an
\* approval continuation leaves it) and finalises the run, unless a flush of
\* its finalizer throws as well and the run keeps its status.
Abandon ==
    /\ pc \in Unfinished
    /\ goal' \in {goal, IF LiveGoal(goal) THEN [goal EXCEPT !.st = "ended"] ELSE goal}
    /\ \/ /\ status' = IF aborted THEN "cancelled" ELSE "failed"
          /\ itemsOpen' = FALSE
       \/ UNCHANGED <<status, itemsOpen>>
    /\ pc' = "closing"
    /\ UNCHANGED <<ledger, saved, objRev, resume, window, input, bound, stop, reply>>

\* The executor's own objects are gone with it.
Forget ==
    /\ resume' = FALSE
    /\ pending' = NoLease /\ mem' = {} /\ session' = {} /\ since' = 0
    /\ modelRev' = 0 /\ cand' = 0

\* The finally block: steering.close, then the controller is released.
Close ==
    /\ pc = "closing" /\ SlotFree
    /\ accepting' = FALSE
    /\ aborted' = FALSE
    /\ pc' = "idle"
    /\ Forget
    /\ UNCHANGED <<status, ledger, saved, aim, itemsOpen, enq, cancelling, reply,
                   lost>>

-----------------------------------------------------------------------------
(* The user and the process.                                               *)

\* run:cancel aborts the executor and writes the status, whatever it was, then
\* ends the goal that write returned.  (Bound: one cancellation at a time.)
Cancel ==
    /\ pc \in Executing /\ cancelling = {}
    /\ aborted' = TRUE
    /\ status' = "cancelled"
    /\ cancelling' = IF LiveGoal(goal) THEN {goal} ELSE {}
    /\ UNCHANGED <<ledger, saved, aim, pc, resume, itemsOpen, window, input, bound,
                   reply>>

CancelGoal ==
    /\ \E g \in cancelling : goal' = [g EXCEPT !.st = "ended"]
    /\ cancelling' = {}
    /\ UNCHANGED <<status, ledger, saved, objRev, pc, resume, itemsOpen, window,
                   input, bound, aborted, reply>>

\* acceptApprovalDecision asks for a pending approval and no task of the run, not
\* for a status: a run cancelled while it waited is queued again.  Another
\* approval of the same interruption may still be pending.
Decide ==
    /\ pc = "idle" /\ asked > 0
    /\ asked' = asked - 1
    /\ status' = "queued"
    /\ itemsOpen' = TRUE
    /\ UNCHANGED <<ledger, hasBlob, blob, aim, pc, resume, window, input, bound, stop,
                   reply>>

\* The server process dies; only the durable state is left.
Crash ==
    /\ pc # "down"
    /\ pc' = "down"
    /\ Forget
    /\ accepting' = FALSE /\ enq' = {}
    /\ itemsOpen' = TRUE /\ aborted' = FALSE /\ cancelling' = {}
    /\ UNCHANGED <<status, ledger, saved, aim, reply, lost>>

\* recoverOrphanedRuns.  Which of the two it is depends on the tool ledger,
\* which this module leaves open.
Restart ==
    /\ pc = "down"
    /\ pc' = "idle"
    /\ IF status \in {"queued", "running"}
       THEN status' \in {"interrupted", "requires_action"}
       ELSE UNCHANGED status
    /\ UNCHANGED <<ledger, saved, aim, volatile, reply>>

-----------------------------------------------------------------------------
Clients == \E i \in Inputs :
    SteerIdle(i) \/ Enqueue(i) \/ EnqueueDone(i) \/ EnqueueFails(i) \/ SteerClosed(i)

Executor ==
    \/ MarkRunning \/ Open \/ Checkpoint \/ LeaseInputs \/ Stage
    \/ CallTools \/ EndStream \/ Interrupt \/ Snapshot \/ Repair
    \/ ClaimClarification \/ ClaimRefusal \/ ClaimAnswer \/ BeginJudge
    \/ VerdictSatisfied \/ VerdictRefused \/ VerdictIncomplete
    \/ Settle \/ Complete \/ ExtractMemories \/ Abandon \/ Close

Environment == Launch \/ Cancel \/ CancelGoal \/ Decide \/ Crash \/ Restart

Next == Clients \/ Executor \/ Environment

Spec == Init /\ [][Next]_vars

(* The steering queue is FIFO, so an executor waiting for it is served: the *)
(* strong fairness.  An enqueue that holds it ends, in success or failure.  *)
Fairness ==
    /\ SF_vars(Executor)
    /\ \A i \in Inputs : WF_vars(EnqueueDone(i) \/ EnqueueFails(i))

FairSpec == Spec /\ Fairness
-----------------------------------------------------------------------------
(* Properties. *)

Over     == {"cancelled", "failed"}
Answered == {"completed", "clarification_needed"}

Acked(s)  == rows[s].st = "acked"
Leased(s) == rows[s].st = "leased"

\* The cursor, the lease and the rows tell one story: exactly the inputs up to
\* the cursor are acknowledged, exactly those of the active lease are leased,
\* the lease starts right after the cursor, and the executor's pending lease is
\* the active one.  Three transactions, a crash and a recovery share this state,
\* and every "hole in the input sequence" exception of the code rests on it.
LedgerConsistent ==
    /\ cursor < next
    /\ lease # NoLease =>
         lease.from = cursor + 1 /\ lease.from <= lease.to /\ lease.to < next
    /\ \A s \in Seqs : /\ Acked(s) <=> s <= cursor
                       /\ Leased(s) <=> lease # NoLease /\ s \in Span(lease)
    /\ pending # NoLease => pending = lease

\* No message is put before the model twice: a checkpoint never holds an input
\* that is still to be acknowledged (recovery would lease it again), and what is
\* being leased is not in the RunState yet.
NoDoubleDelivery ==
    /\ blob \subseteq 1..cursor
    /\ pc = "stage" /\ lease # NoLease => mem \cap Span(lease) = {}

\* A run that ended with an answer, or with a question, had taken every message
\* it accepted: the claim closes the race with a message that arrives while the
\* candidate is checked, judged, or written.
AnswerCoversInputs ==
    status \in Answered => cursor = next - 1 /\ lease = NoLease

\* The revision a goal verdict belongs to: a goal is satisfied only for the
\* newest objective (unless a message is stored and not synchronised yet), and
\* a run that completes with a goal was judged on everything it accepted.
VerdictIsCurrent ==
    /\ goal.rev <= objRev /\ objRev <= next
    /\ goal.st = "satisfied" /\ objRev = next => goal.rev = next
    /\ status = "completed" => ~LiveGoal(goal)
    /\ status = "completed" /\ goal.st = "satisfied" => goal.rev = next

\* A tool call is booked on the objective revision of the request that asked for
\* it; that request held every message the revision counts and no later one,
\* across new segments, a superseded answer, a crash and a resume.  Only what had
\* been acknowledged before a resume may be missing, and only once a new segment
\* started on the session the resumed executor found without those messages
\* (runtimeAssembly.ts:234).
RequestHoldsItsObjective ==
    pc = "model" => /\ mem \subseteq 1..(modelRev - 1)
                    /\ (lost + 1)..(modelRev - 1) \subseteq mem

\* Every acknowledged input is in the checkpointed RunState, so that no restart
\* and no later segment makes the model forget it (fileAgentsSession.ts:69-71),
\* but for those from before a resume whose executor started a new segment.
AckedInputsDurable == hasBlob => (lost + 1)..cursor \subseteq blob

\* What the comment at fileAgentsSession.ts:69-71 promises of every later Runner of
\* the run: the reading without the exception, which needs an SDK that hands the
\* messages of a resumed RunState to the session again.
AckedInputsReplayed == hasBlob => 1..cursor \subseteq blob

\* The comment on RunSteeringController (runSteeringController.ts:45-47): fixed
\* identities make a client's retry idempotent.  A retry of a stored message
\* after the steering window closed is told so.
RetryIsIdempotent ==
    [][\A i \in Inputs : (SteerClosed(i) /\ Stored(i)) => (reply' = "ok")]_vars

\* The user is told that a terminal run is never rewritten
\* (runResumePolicy.ts:57): a completed run stays completed.
TerminalStatusIsFinal ==
    [][(status = "completed") => (status' = status)]_vars

\* An input accepted by a running run is acknowledged by a checkpoint, unless
\* the run or its executor stops.
QueuedInputIsDelivered ==
    \A s \in 1..Cardinality(Inputs) :
        (s < next /\ status = "running")
            ~> (s <= cursor \/ status # "running" \/ pc \in {"idle", "down"})

\* The inductive strengthening of the properties above: where the executor holds
\* a lease, what its memories hold meanwhile, and what a terminal claim fixes.
Claimed == {"satisfy", "finish", "clarify", "refuse"}
Between == {"consume", "candidate", "deliver", "judge", "judging"} \cup Claimed
Staging == {"filter", "model", "drain"}
Staged  == IF lease = NoLease THEN cursor ELSE lease.to

LeaseFollowsExecutor ==
    /\ pc \in Staging => pending = lease
    /\ pc \in Between \cup {"memory"} => lease = NoLease

MemoryFollowsLease ==
    /\ pc \in Staging => mem \subseteq 1..Staged /\ session \subseteq 1..Staged
    /\ pc \in Between \cup {"stage"} => mem \subseteq 1..cursor /\ session \subseteq 1..cursor

ClaimIsFinal ==
    /\ pc \in Claimed => ~accepting /\ cursor = next - 1
    /\ pc \in {"deliver", "judge", "judging"} \cup Claimed => asked = 0
    /\ status \in Answered => /\ pc \in {"memory", "closing", "idle", "down"}
                             /\ cursor = next - 1 /\ lease = NoLease /\ asked = 0

IInv == /\ TypeOK /\ LedgerConsistent /\ NoDoubleDelivery
        /\ LeaseFollowsExecutor /\ MemoryFollowsLease /\ ClaimIsFinal

\* The promise of RunMailbox, kept by the run.
Mailbox == INSTANCE RunMailbox WITH
    accepted  <- [s \in Seqs |-> rows[s].id],
    delivered <- cursor,
    phase     <- IF status \in Answered THEN "answered"
                 ELSE IF status \in Over /\ pc \in {"idle", "down", "memory", "closing"}
                 THEN "dropped" ELSE "open"

MailboxSpec == Mailbox!Spec
=============================================================================
