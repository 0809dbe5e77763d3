------------------------------ MODULE SubAgents -------------------------------
(***************************************************************************)
(* SubAgentControlPlane: follow-ups and cancellations that users send to a  *)
(* sub-agent while it works.  One agent of one run, in its Agent-as-tool    *)
(* form; its calls come one after the other.                                *)
(*                                                                         *)
(* A control is accepted in three steps: a row in the run's state, a line   *)
(* of transcript, an event that binds it to the call it was meant for.      *)
(* Before each model call the agent's instructions are put together from    *)
(* the queued rows whose event names this call.  When the call ends what is *)
(* still queued for it is rejected.  Both read the events first, await, and *)
(* change the rows later.                                                   *)
(*                                                                         *)
(* Writes of the run's state go through one first-in-first-out queue        *)
(* (RunStore.mutateState); a mutation is computed and takes effect in one   *)
(* step here, as nothing else writes the state in between.                  *)
(*                                                                         *)
(* Bounds: MaxCalls calls, begun or resumed MaxBegins times in all, with    *)
(* MaxTurns model calls each time; MaxFaults failing writes.                *)
(***************************************************************************)
EXTENDS Naturals, Sequences, FiniteSets

CONSTANTS
    FollowUps,       \* control identifiers of follow-ups
    Cancels,         \* control identifiers of cancellations
    MaxCalls, MaxBegins, MaxTurns, MaxFaults

ASSUME SubAgentsConstants ==
    /\ FollowUps \cap Cancels = {}
    /\ MaxCalls \in Nat \ {0} /\ MaxBegins \in Nat /\ MaxTurns \in Nat \ {0} /\ MaxFaults \in Nat

Controls == FollowUps \cup Cancels
Calls    == 1..MaxCalls

VARIABLES
    \* the run's state and its events
    status,          \* status of the agent
    controls,        \* status of each control's row
    bound,           \* the call its event names, 0: there is no event
    \* the control plane, in memory
    active,          \* the invocation under way, or None
    pending,         \* pendingControls: the invocation of a control not accepted yet, or 0
    tasks,           \* consumeInstructions and rejectQueuedControls under way
    queue,           \* mutations of the run's state not yet made
    \* the tool call
    pc, call, begun, turns, result, paused,
    over,            \* the run's executor has ended
    \* what the outside saw
    target,          \* the call each control was submitted to, 0: it was refused
    told,            \* the calls whose model was given the control
    returned,        \* how each call ended for the parent
    faults

store  == <<status, controls, bound>>
plane  == <<active, pending, tasks, queue>>
tool   == <<pc, call, begun, turns, result, paused, over>>
seen   == <<target, told, returned>>
vars   == <<store, plane, tool, seen, faults>>

None   == [inv |-> 0, call |-> 0, cancelled |-> FALSE, claimed |-> FALSE]
Unread == [c \in Controls |-> 0]

-----------------------------------------------------------------------------
(* Submitting a control                                                     *)

\* A row nobody has written yet, with no acceptance under way: a repeated
\* submission of any other is answered from the promise or from the row.
Fresh(c) == pending[c] = 0 /\ controls[c] = "none"

\* A slip: a cancellation is still taken after the outcome was claimed.
MayAcceptLate == active # None /\ ~active.cancelled

MayAccept == active # None /\ ~active.claimed /\ ~active.cancelled

\* submitControl; one that may not be accepted is refused and changes nothing.
\* A cancellation takes hold in memory at once, before it is written anywhere.
Submit(c) ==
    /\ Fresh(c) /\ MayAccept
    /\ pending' = [pending EXCEPT ![c] = active.inv]
    /\ active' = [active EXCEPT !.cancelled = @ \/ c \in Cancels]
    /\ queue' = Append(queue, [op |-> "control", id |-> c])
    /\ target' = [target EXCEPT ![c] = active.call]
    /\ UNCHANGED <<store, tasks, tool, told, returned, faults>>

\* The client is told of the failure.
Refuse(c) ==
    /\ pending' = [pending EXCEPT ![c] = 0]
    /\ target' = [target EXCEPT ![c] = 0]

\* A slip: the row is written without another look at the invocation.
WritableBlind(c) == status = "running"

\* persistControl, the mutation of the row.
Writable(c) == pending[c] = active.inv /\ status = "running"

WriteControl(c) ==
    /\ IF Writable(c)
       THEN /\ controls' = [controls EXCEPT ![c] = IF c \in Cancels THEN "delivered" ELSE "queued"]
            /\ status' = IF c \in Cancels THEN "cancelling" ELSE status
            /\ UNCHANGED <<pending, target>>
       ELSE Refuse(c) /\ UNCHANGED <<controls, status>>
    /\ UNCHANGED <<bound, active, tasks, tool, told, returned>>

\* persistControl, the transcript and the event: the control is accepted.
Logging(c) == pending[c] # 0 /\ controls[c] # "none"

LogControl(c) ==
    /\ Logging(c)
    /\ bound' = [bound EXCEPT ![c] = target[c]]
    /\ pending' = [pending EXCEPT ![c] = 0]
    /\ UNCHANGED <<status, controls, active, tasks, queue, tool, seen, faults>>

\* One of the two fails: the row stays.
LogFails(c) ==
    /\ Logging(c) /\ faults < MaxFaults
    /\ pending' = [pending EXCEPT ![c] = 0]
    /\ faults' = faults + 1
    /\ UNCHANGED <<store, active, tasks, queue, tool, seen>>

-----------------------------------------------------------------------------
(* The two readers of the events                                            *)

Task(k, i, n) == [op |-> k, inv |-> i, call |-> n]

\* A rejection that has nothing to reject writes the same state again: left out.
Vain(t) == t.op = "reject" /\ \A c \in Controls : bound[c] = t.call => controls[c] # "queued"

NothingToReject(t) ==
    /\ Vain(t)
    /\ tasks' = tasks \ {t}
    /\ UNCHANGED <<store, active, pending, queue, tool, seen, faults>>

\* The events are read, and the mutation is asked for with what they said.
ReadBindings(t) ==
    /\ ~Vain(t)
    /\ tasks' = tasks \ {t}
    /\ queue' = Append(queue, [op |-> t.op, inv |-> t.inv, call |-> t.call, bindings |-> bound])
    /\ UNCHANGED <<store, active, pending, tool, seen, faults>>

Queued == {c \in Controls : controls[c] = "queued"}
\* A slip: instructions take whatever is queued.
MineAny(m) == Queued

Mine(m) == {c \in Queued : m.bindings[c] = m.call}

\* Does the call that asked for these instructions still wait for them?
Awaited(m) == pc = "consuming" /\ begun = m.inv

\* consumeInstructions: its own controls are delivered, all others rejected.
Consume(m) ==
    /\ controls' = [c \in Controls |-> CASE c \in Mine(m) -> "delivered"
                                         [] c \in Queued \ Mine(m) -> "rejected"
                                         [] OTHER -> controls[c]]
    /\ IF Awaited(m)
       THEN /\ pc' = "model"
            /\ told' = [c \in Controls |-> IF c \in Mine(m) THEN Append(told[c], m.call) ELSE told[c]]
       ELSE UNCHANGED <<pc, told>>
    /\ UNCHANGED <<status, bound, active, pending, tasks,
                   call, begun, turns, result, paused, over, target, returned>>

\* rejectQueuedControls
RejectQueued(m) ==
    /\ controls' = [c \in Controls |-> IF c \in Mine(m) THEN "rejected" ELSE controls[c]]
    /\ UNCHANGED <<status, bound, active, pending, tasks, tool, seen>>

-----------------------------------------------------------------------------
(* One call of the agent                                                    *)

Goes(to) == pc' = to /\ UNCHANGED <<call, begun, turns, result, paused, over>>

\* begin.  A call that stopped for an approval comes back with its callId.
Begin ==
    /\ pc = "idle" /\ ~over /\ begun < MaxBegins
    /\ paused \/ call < MaxCalls
    /\ call' = IF paused THEN call ELSE call + 1
    /\ begun' = begun + 1
    /\ active' = [None EXCEPT !.inv = begun', !.call = call']
    /\ pc' = "begun"
    /\ UNCHANGED <<store, pending, tasks, queue, turns, result, paused, over, seen, faults>>

\* The gate lets it in.  stateController.start, or resume, which needs a row
\* that is running.
Enter ==
    /\ pc = "begun"
    /\ paused => status = "running"
    /\ queue' = Append(queue, [op |-> IF paused THEN "resume" ELSE "start"])
    /\ pc' = "starting" /\ paused' = FALSE
    /\ turns' = 0
    /\ UNCHANGED <<store, active, pending, tasks, call, begun, result, over, seen, faults>>

\* The gate refuses it, or there is nothing to resume: an error the call's own
\* handler does not see.
Bounced ==
    /\ pc = "begun"
    /\ pc' = "finish" /\ result' = "error" /\ paused' = FALSE
    /\ UNCHANGED <<store, plane, call, begun, turns, over, seen, faults>>

Start ==
    /\ status' = "running"
    /\ Goes("ready")
    /\ UNCHANGED <<controls, bound, active, pending, tasks, seen>>

Resume == Goes("ready") /\ UNCHANGED <<store, active, pending, tasks, seen>>

\* Before each model call the SDK asks for the instructions.
Turn ==
    /\ pc = "ready" /\ turns < MaxTurns /\ active # None
    /\ tasks' = tasks \cup {Task("consume", begun, call)}
    /\ pc' = "consuming" /\ turns' = turns + 1
    /\ UNCHANGED <<store, active, pending, queue, call, begun, result, paused, over, seen, faults>>

Again ==
    /\ pc = "model"
    /\ Goes("ready")
    /\ UNCHANGED <<store, plane, seen, faults>>

\* invokeFunctionTool settles: with a delivery, with the empty output of an
\* interruption, or with an error (a timeout, an abort, a failing turn).  An
\* error does not wait for instructions that are being put together.
Settle(r) ==
    /\ \/ pc = "model" /\ r \in {"delivery", "pause"} 
       \/ pc \in {"ready", "consuming", "model"} /\ r = "error"
    /\ pc' = "settled" /\ result' = r
    /\ UNCHANGED <<store, plane, call, begun, turns, paused, over, seen, faults>>

Outcome == CASE active.cancelled -> "cancelled"
             [] ~active.cancelled /\ result = "delivery" -> "completed"
             [] OTHER -> "failed"

\* claimTerminalOutcome; a paused call that nobody cancelled claims nothing.
Claim ==
    /\ pc = "settled" /\ active # None
    /\ result = "pause" => active.cancelled
    /\ active' = [active EXCEPT !.claimed = TRUE]
    /\ pc' = "claimed" /\ result' = Outcome
    /\ UNCHANGED <<store, pending, tasks, queue, call, begun, turns, paused, over, seen, faults>>

Pause ==
    /\ pc = "settled" /\ result = "pause" /\ ~active.cancelled
    /\ pc' = "finish" /\ paused' = TRUE
    /\ UNCHANGED <<store, plane, call, begun, turns, result, over, seen, faults>>

\* The run's executor has ended and taken the invocation away: the claim throws.
Orphaned ==
    /\ pc = "settled" /\ active = None /\ result # "pause"
    /\ pc' = "finish" /\ result' = "error"
    /\ UNCHANGED <<store, plane, call, begun, turns, paused, over, seen, faults>>

\* stateController.complete, cancel and fail.
Close ==
    /\ pc = "claimed"
    /\ queue' = Append(queue, [op |-> "close", outcome |-> result])
    /\ Goes("closing")
    /\ UNCHANGED <<store, active, pending, tasks, seen, faults>>

WriteOutcome(m) ==
    /\ status' = IF m.outcome = "completed" /\ status = "cancelling" THEN "cancelled" ELSE m.outcome
    /\ Goes("finish")
    /\ UNCHANGED <<controls, bound, active, pending, tasks, seen>>

\* A slip: the invocation goes and leaves its queue behind.
ReleaseOnly == active' = None /\ UNCHANGED tasks

\* The invocation leaves the map and its queued controls are given up.
Release ==
    /\ active' = None
    /\ tasks' = IF active = None THEN tasks
                ELSE tasks \cup {Task("reject", active.inv, active.call)}

\* finish
Finish ==
    /\ pc = "finish"
    /\ Release
    /\ returned' = [returned EXCEPT ![call] = IF paused THEN @ ELSE result]
    /\ pc' = "idle" /\ result' = "none"
    /\ UNCHANGED <<store, pending, queue, call, begun, turns, paused, over, target, told, faults>>

\* finishRun, when the executor of the run ends
FinishRun ==
    /\ ~over /\ over' = TRUE
    /\ Release
    /\ UNCHANGED <<store, pending, queue, pc, call, begun, turns, result, paused, seen, faults>>

-----------------------------------------------------------------------------
(* The queue of the run's state                                             *)

Mutate ==
    /\ queue # <<>>
    /\ queue' = Tail(queue)
    /\ UNCHANGED faults
    /\ LET m == Head(queue) IN
        \/ m.op = "control" /\ WriteControl(m.id)
        \/ m.op = "consume" /\ Consume(m)
        \/ m.op = "reject" /\ RejectQueued(m)
        \/ m.op = "start" /\ Start
        \/ m.op = "resume" /\ Resume
        \/ m.op = "close" /\ WriteOutcome(m)

\* The database refuses the write: whoever asked for it gets the error.
WriteFails ==
    /\ queue # <<>> /\ faults < MaxFaults
    /\ queue' = Tail(queue) /\ faults' = faults + 1
    /\ LET m == Head(queue) IN
        /\ IF m.op = "control" THEN Refuse(m.id) ELSE UNCHANGED <<pending, target>>
        /\ IF m.op \in {"start", "resume", "close"} \/ (m.op = "consume" /\ Awaited(m))
           THEN /\ pc' = IF m.op = "consume" THEN "settled" ELSE "finish"
                /\ result' = "error"
           ELSE UNCHANGED <<pc, result>>
    /\ UNCHANGED <<store, active, tasks, call, begun, turns, paused, over, told, returned>>

-----------------------------------------------------------------------------
Init ==
    /\ status = "ready" /\ controls = [c \in Controls |-> "none"] /\ bound = Unread
    /\ active = None /\ pending = Unread /\ tasks = {} /\ queue = <<>>
    /\ pc = "idle" /\ call = 0 /\ begun = 0 /\ turns = 0 /\ result = "none"
    /\ paused = FALSE /\ over = FALSE
    /\ target = Unread
    /\ told = [c \in Controls |-> <<>>]
    /\ returned = [k \in Calls |-> "none"]
    /\ faults = 0

CallStep == \/ Begin \/ Enter \/ Bounced \/ Turn \/ Again
            \/ \E r \in {"delivery", "pause", "error"} : Settle(r)
            \/ Claim \/ Pause \/ Orphaned \/ Close \/ Finish

TaskStep == \E t \in tasks : ReadBindings(t) \/ NothingToReject(t)

Next == \/ \E c \in Controls : Submit(c) \/ LogControl(c) \/ LogFails(c)
        \/ CallStep \/ FinishRun \/ TaskStep \/ Mutate \/ WriteFails

Spec == Init /\ [][Next]_vars

\* Database reads and writes settle, and a call that has begun goes on until it
\* is finished: its model calls are bounded and have a timeout.
Proceeds == \/ Enter \/ Bounced \/ Turn \/ Again
            \/ \E r \in {"delivery", "pause", "error"} : Settle(r)
            \/ Claim \/ Pause \/ Orphaned \/ Close \/ Finish

Fairness == /\ WF_vars(Mutate)
            /\ WF_vars(TaskStep)
            /\ \A c \in Controls : WF_vars(LogControl(c))
            /\ WF_vars(Proceeds)

FairSpec == Spec /\ Fairness
-----------------------------------------------------------------------------
(* Properties                                                              *)

Op == [op : {"control"}, id : Controls]
      \cup [op : {"consume", "reject"}, inv : Nat, call : Calls, bindings : [Controls -> 0..MaxCalls]]
      \cup [op : {"start", "resume"}]
      \cup [op : {"close"}, outcome : {"completed", "cancelled", "failed"}]

TypeOK ==
    /\ status \in {"ready", "running", "cancelling", "completed", "cancelled", "failed"}
    /\ controls \in [Controls -> {"none", "queued", "delivered", "rejected"}]
    /\ bound \in [Controls -> 0..MaxCalls]
    /\ active = None \/ active \in [inv : Nat \ {0}, call : Calls, cancelled : BOOLEAN, claimed : BOOLEAN]
    /\ pending \in [Controls -> Nat]
    /\ \A t \in tasks : t.op \in {"consume", "reject"} /\ t.call \in Calls
    /\ queue \in Seq(Op)
    /\ target \in [Controls -> 0..MaxCalls]
    /\ returned \in [Calls -> {"none", "completed", "cancelled", "failed", "error"}]

\* The invocation in memory is that of the call under way.
InvocationIsCurrent ==
    /\ active # None => active.inv = begun /\ active.call = call
    /\ pc = "idle" \/ over => active = None

\* A control is on record before it is bound, and bound to the call it was sent to.
RecordedInOrder == \A c \in Controls :
    bound[c] # 0 => controls[c] # "none" /\ bound[c] = target[c] /\ pending[c] = 0

\* A working agent shown as being cancelled is one whose present call somebody
\* cancelled: persistControl looks at the invocation again when it writes.
CancellingIsMeant ==
    status = "cancelling" /\ pc \in {"ready", "consuming", "model", "settled", "claimed", "closing"}
      => \E c \in Cancels : controls[c] = "delivered" /\ target[c] = call

\* After a call the agent's row says what the parent was told.
RowSaysOutcome ==
    pc = "idle" /\ ~paused /\ call > 0
      => returned[call] \in {status, "error"}

\* The four together, for the writers of subAgentControlPlane.ts and
\* subAgentRuntimeSupport.ts.
SubAgentsInv == TypeOK /\ InvocationIsCurrent /\ RecordedInOrder /\ CancellingIsMeant /\ RowSaysOutcome

\* A control reaches a model once at most, and only in the call it was sent to,
\* though rows, events and instructions are read and written apart from one
\* another (consumeInstructions, rejectQueuedControls).
ToldOnlyItsCall == \A c \in Controls :
    /\ Len(told[c]) <= 1
    /\ \A i \in DOMAIN told[c] : told[c][i] = target[c]

\* Once a user was told that a cancellation is accepted, the call it was for is
\* not reported as completed or failed (claimTerminalOutcome): the parent gets
\* the cancellation, or the error that kept it from being written.
CancelDecides == \A c \in Cancels :
    bound[c] # 0 => returned[bound[c]] \in {"none", "cancelled", "error"}

\* A follow-up whose event is written while its call goes on does not stay in
\* the queue for ever: it is delivered, or given up when the call is over
\* (finish, finishRun), unless a write fails.
QueuedIsSettled == \A c \in FollowUps :
    (controls[c] = "queued" /\ active # None /\ bound[c] = active.call)
      ~> (controls[c] # "queued" \/ faults > 0)

\* What consumeInstructions rejects as not belonging to the present call was
\* sent to another one.  The code breaks this: the row of a follow-up is seen
\* before the event that binds it.
RejectedIsForeign ==
    [][\A c \in Controls :
         LET m == Head(queue) IN
         queue # <<>> /\ controls[c] = "queued" /\ controls'[c] = "rejected" /\ m.op = "consume"
           => target[c] # m.call]_vars

-----------------------------------------------------------------------------
(* The inductive invariant, for the proofs                                  *)

Working == {"ready", "consuming", "model", "settled", "claimed", "closing"}
Resuming == \E i \in DOMAIN queue : queue[i].op = "resume"

\* Types of what TypeOK does not constrain.
ToolTypes ==
    /\ tasks \subseteq [op : {"consume", "reject"}, inv : Nat, call : Calls]
    /\ call \in 0..MaxCalls /\ begun \in Nat
    /\ paused \in BOOLEAN /\ over \in BOOLEAN
    /\ pc # "idle" \/ paused => call \in Calls
    /\ told \in [Controls -> Seq(Calls)]
    /\ pc \in {"claimed", "closing"} => result \in {"completed", "cancelled", "failed"}

\* A write in the queue is for a control that waits for its row, or for the call
\* that waits for it.  What was read of the events is still true.
Sound(m) ==
    /\ m.op = "control" => pending[m.id] # 0 /\ controls[m.id] = "none"
    /\ m.op \in {"start", "resume"} => pc = "starting"
    /\ m.op = "close" => pc = "closing" /\ m.outcome = result
    /\ m.op \in {"consume", "reject"} =>
           \A c \in Controls : m.bindings[c] # 0 => m.bindings[c] = bound[c]

\* Two writes of which only one may be in the queue.
Clash(m, n) ==
    \/ m.op = "control" /\ n.op = "control" /\ m.id = n.id
    \/ {m.op, n.op} \subseteq {"start", "resume", "close"}

QueueInv ==
    /\ \A i \in DOMAIN queue : Sound(queue[i])
    /\ \A i, j \in DOMAIN queue : Clash(queue[i], queue[j]) => i = j

\* A control that waits was submitted to this invocation or to an earlier one.
PendingOf(c) ==
    /\ target[c] <= call /\ pending[c] <= begun
    /\ pending[c] # 0 \/ controls[c] # "none" => target[c] \in Calls
    /\ pending[c] # 0 /\ pending[c] = begun => target[c] = call

PendingInv == \A c \in Controls : PendingOf(c)

\* What is told was delivered.
ToldInv == \A c \in Controls :
    told[c] # <<>> => controls[c] = "delivered" /\ told[c] = <<target[c]>>

\* The row is being cancelled on behalf of the call under way, also while its
\* resumption is being written; its invocation knows.
CancellingInv ==
    status = "cancelling" /\ (pc \in Working \/ Resuming) =>
        /\ \E c \in Cancels : controls[c] = "delivered" /\ target[c] = call
        /\ active # None => active.cancelled
        /\ pc \in {"claimed", "closing"} => result = "cancelled"

\* A claimed outcome is not changed by what arrives later.
ClaimInv ==
    /\ active # None /\ pc \in {"claimed", "closing"} =>
           active.claimed /\ (active.cancelled => result = "cancelled")
    /\ active # None => \A c \in Cancels : pending[c] = active.inv => active.cancelled
    /\ pc \in Working \cup {"starting"} => ~paused
    /\ active = None => pc = "idle" \/ over
    /\ pc = "finish" /\ ~paused =>
           result = "error" \/ (result = status /\ result \in {"completed", "cancelled", "failed"})

\* A cancellation that is on record meets its call before the outcome is claimed,
\* or finds it paused, where the row that it changed keeps it from being resumed.
DecisionInv == \A c \in Cancels : controls[c] # "none" =>
    /\ returned[target[c]] \in {"none", "cancelled", "error"}
    /\ target[c] = call =>
        /\ paused /\ status = "running" => over
        /\ active # None /\ ~paused /\ pc \notin {"idle", "finish"} => active.cancelled
        /\ pc \in {"claimed", "closing"} => result = "cancelled"
        /\ pc = "finish" /\ ~paused => result \in {"cancelled", "error"}

\* A call that has not finished has told the parent nothing.
ReturnedInv ==
    /\ \A k \in Calls : k > call => returned[k] = "none"
    /\ pc # "idle" \/ paused => returned[call] = "none"

ControlInv == /\ SubAgentsInv /\ ToolTypes /\ QueueInv /\ PendingInv /\ ToldInv /\ CancellingInv
              /\ ClaimInv /\ DecisionInv /\ ReturnedInv

=============================================================================
