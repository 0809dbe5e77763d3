----------------------------- MODULE ToolLedger ------------------------------
(***************************************************************************)
(* The recovery ledger of tool calls: which calls may have had an effect    *)
(* that the checkpointed RunState does not know of.                        *)
(*                                                                         *)
(* Three writers share the durable set pendingToolCallIds: the             *)
(* ToolCallRecoveryLedger of the process, whose serial chain writes the     *)
(* whole set it has in memory; the checkpoint transaction, which takes the  *)
(* calls with a result out of the durable set; and the restarted process,   *)
(* which only reads it, to decide whether the run may be resumed.  A call   *)
(* of the platform (a registered tool, or a sub-agent) is booked before it  *)
(* is dispatched.  A tool call inside a sub-agent is booked and taken out   *)
(* by itself, and its owner's booking covers it.  A call the SDK dispatches *)
(* on its own (MCP, sandbox) is booked by whoever consumes the event stream. *)
(***************************************************************************)
EXTENDS Integers, Sequences

CONSTANTS
    Platform,      \* calls of registered tools and of sub-agents
    Inner,         \* tool calls inside sub-agents
    Native,        \* calls of MCP and sandbox tools
    Owner          \* the sub-agent call an inner call belongs to

ASSUME ToolLedgerConstants ==
    /\ Platform \cap Inner = {} /\ Platform \cap Native = {} /\ Inner \cap Native = {}
    /\ Owner \in [Inner -> Platform]

VARIABLES
    \* durable
    status,        \* run status
    booked,        \* pendingToolCallIds of the run's row
    saved,         \* the calls whose result is in the checkpointed RunState
    hasBlob,       \* there is a checkpointed RunState
    \* of the server process
    pc,            \* where the executor is
    ledger,        \* ToolCallRecoveryLedger.pending
    ops,           \* its mutation chain, oldest first
    st,            \* the life of each call
    events,        \* calls of the SDK whose stream event is not consumed yet
    history,       \* the calls whose result is in the executor's RunState
    \* of the outside world
    ran            \* how often a call was dispatched

durable == <<status, booked, saved, hasBlob>>
chain   == <<ledger, ops>>
calls   == <<st, events, history>>
vars    == <<durable, pc, chain, calls, ran>>

Calls == Platform \cup Inner \cup Native
Top(c) == IF c \in Inner THEN Owner[c] ELSE c
Outer == Platform \cup Native

Alive == {"filter", "sync", "request", "tools", "drain", "last", "settle"}
Lives == {"none", "asked", "booking", "booked", "running", "closing", "ended"}
Op    == [kind : {"mark", "unmark", "accept"}, ids : SUBSET Calls]

TypeOK ==
    /\ status \in {"running", "completed", "failed", "interrupted", "requires_action"}
    /\ booked \in SUBSET Calls
    /\ saved \in SUBSET Calls
    /\ hasBlob \in {"yes", "no"}
    /\ pc \in Alive \cup {"stopped", "down"}
    /\ ledger \in SUBSET Calls
    /\ ops \in Seq(Op)
    /\ st \in [Calls -> Lives]
    /\ events \in SUBSET Calls
    /\ history \in SUBSET Calls
    /\ ran \in [Calls -> Nat]

\* The executor of a fresh run, when its Runner starts.
Init ==
    /\ status = "running" /\ booked = {} /\ saved = {} /\ hasBlob = "no"
    /\ pc = "filter" /\ ledger = {} /\ ops = << >>
    /\ st = [c \in Calls |-> "none"] /\ events = {} /\ history = {}
    /\ ran = [c \in Calls |-> 0]

Push(kind, ids) == ops' = Append(ops, [kind |-> kind, ids |-> ids])

-----------------------------------------------------------------------------
(* The executor.                                                           *)

\* saveAgentsSdkCheckpoint before a model request, or after the stream of the
\* last one was consumed; then the ledger is told which calls are settled, and
\* the executor waits for it unless there are none.
Checkpoint ==
    /\ \/ pc = "filter" /\ pc' = IF history = {} THEN "request" ELSE "sync"
       \/ /\ pc = "drain" /\ pc' = IF history = {} THEN "settle" ELSE "last"
          /\ events = {} /\ \A k \in DOMAIN ops : ops[k].ids \cap Native = {}
    /\ saved' = history
    /\ hasBlob' = "yes"
    /\ booked' = booked \ history
    /\ IF history = {} THEN UNCHANGED ops ELSE Push("accept", history)
    /\ UNCHANGED <<status, ledger, calls, ran>>

\* The model asks for tools, or answers.
Ask ==
    /\ pc = "request"
    /\ \E T \in SUBSET {c \in Outer \ history : st[c] = "none"} :
         /\ T # {}
         /\ st' = [c \in Calls |-> IF c \in T THEN "asked" ELSE st[c]]
         /\ events' = events \cup (T \cap Native)
    /\ pc' = "tools"
    /\ UNCHANGED <<durable, chain, history, ran>>

Answer ==
    /\ pc = "request"
    /\ pc' = "drain"
    /\ UNCHANGED <<durable, chain, calls, ran>>

\* The calls of this turn that have come to an end.
Turn == {c \in Outer \ history : st[c] # "none"}

\* Every call of the turn has a result: the RunState takes them.
EndTurn ==
    /\ pc = "tools"
    /\ \A c \in Turn : st[c] = "ended"
    /\ history' = history \cup Turn
    /\ pc' = "filter"
    /\ UNCHANGED <<durable, chain, st, events, ran>>

\* Seeded fault: the run completes whatever is still booked.
SettleAnyway ==
    /\ pc = "settle"
    /\ status' = "completed"
    /\ pc' = "stopped"
    /\ UNCHANGED <<booked, saved, hasBlob, chain, calls, ran>>

\* persistCleanCheckpoint refuses to complete a run with a call in doubt.
Settle ==
    /\ pc = "settle"
    /\ status' = IF booked = {} THEN "completed" ELSE "failed"
    /\ pc' = "stopped"
    /\ UNCHANGED <<booked, saved, hasBlob, chain, calls, ran>>

\* Any other exception, or a cancellation.  Calls in flight go on.
Fail ==
    /\ pc \in Alive
    /\ status' = "failed"
    /\ pc' = "stopped"
    /\ UNCHANGED <<booked, saved, hasBlob, chain, calls, ran>>

-----------------------------------------------------------------------------
(* A tool call.                                                            *)

\* The model of a running sub-agent asks for a tool.
AskInner(c) ==
    /\ c \in Inner /\ st[c] = "none" /\ st[Owner[c]] = "running"
    /\ st' = [st EXCEPT ![c] = "asked"]
    /\ UNCHANGED <<durable, pc, chain, events, history, ran>>

\* Seeded fault: the call is dispatched without its booking.
DispatchUnbooked(c) ==
    /\ c \in Platform \cup Inner /\ st[c] = "asked"
    /\ c \in Inner => st[Owner[c]] = "running"
    /\ st' = [st EXCEPT ![c] = "booked"]
    /\ UNCHANGED <<durable, pc, chain, events, history, ran>>

\* The policy lets the call pass, and its booking joins the chain.
Dispatch(c) ==
    /\ c \in Platform \cup Inner /\ st[c] = "asked"
    /\ c \in Inner => st[Owner[c]] = "running"
    /\ st' = [st EXCEPT ![c] = "booking"]
    /\ Push("mark", {c})
    /\ UNCHANGED <<durable, pc, ledger, events, history, ran>>

\* The policy, or the workflow, refuses it: a result without an effect.
Refuse(c) ==
    /\ c \in Platform \cup Inner /\ st[c] = "asked"
    /\ st' = [st EXCEPT ![c] = "ended"]
    /\ UNCHANGED <<durable, pc, chain, events, history, ran>>

\* The tool is called, which may have its effect.  (Bound: twice per call.)
Start(c) ==
    /\ st[c] = IF c \in Native THEN "asked" ELSE "booked"
    /\ ran[c] < 2
    /\ st' = [st EXCEPT ![c] = "running"]
    /\ ran' = [ran EXCEPT ![c] = @ + 1]
    /\ UNCHANGED <<durable, pc, chain, events, history>>

\* It returned or threw, and the result is committed.  What is inside a
\* sub-agent is taken out of the ledger at once, the rest by a checkpoint.
Finish(c) ==
    /\ st[c] = "running"
    /\ IF c \in Inner
       THEN st' = [st EXCEPT ![c] = "closing"] /\ Push("unmark", {c})
       ELSE st' = [st EXCEPT ![c] = "ended"] /\ UNCHANGED ops
    /\ UNCHANGED <<durable, pc, ledger, events, history, ran>>

\* The consumer of the stream books a call the SDK dispatched itself.
Project(c) ==
    /\ c \in events /\ pc \in Alive
    /\ events' = events \ {c}
    /\ Push("mark", {c})
    /\ UNCHANGED <<durable, pc, ledger, st, history, ran>>

-----------------------------------------------------------------------------
(* The mutation chain of the ledger.                                       *)

After(op) == IF op.kind = "mark" THEN ledger \cup op.ids ELSE ledger \ op.ids

\* A booking or its removal writes the database, unless it changes nothing.
Writes(op) == op.kind # "accept" /\ After(op) # ledger

\* What the caller of an operation does next.
Resumed(op, booking) ==
    st' = [c \in Calls |-> IF c \notin op.ids THEN st[c]
                           ELSE IF st[c] = "booking" /\ op.kind = "mark" THEN booking
                           ELSE IF st[c] = "closing" /\ op.kind = "unmark" THEN "ended"
                           ELSE st[c]]

\* Seeded fault: a settled inner call clears the whole durable set.
ApplyClearingOnResult ==
    /\ ops # << >> /\ pc # "down"
    /\ ops' = Tail(ops)
    /\ ledger' = After(Head(ops))
    /\ booked' = IF ~Writes(Head(ops)) THEN booked
                 ELSE IF Head(ops).kind = "unmark" THEN {} ELSE After(Head(ops))
    /\ Resumed(Head(ops), "booked")
    /\ pc' = IF Head(ops).kind # "accept" THEN pc
             ELSE IF pc = "sync" THEN "request"
             ELSE IF pc = "last" THEN "settle" ELSE pc
    /\ UNCHANGED <<status, saved, hasBlob, events, history, ran>>

\* One operation of the chain; the executor waits for the acceptance.
Apply ==
    /\ ops # << >> /\ pc # "down"
    /\ ops' = Tail(ops)
    /\ ledger' = After(Head(ops))
    /\ booked' = IF Writes(Head(ops)) THEN After(Head(ops)) ELSE booked
    /\ Resumed(Head(ops), "booked")
    /\ pc' = IF Head(ops).kind # "accept" THEN pc
             ELSE IF pc = "sync" THEN "request"
             ELSE IF pc = "last" THEN "settle" ELSE pc
    /\ UNCHANGED <<status, saved, hasBlob, events, history, ran>>

\* The write fails, or only its answer is lost: a tool is not called, an inner
\* call stays booked, and the consumer of the stream fails the run.
WriteFails ==
    /\ ops # << >> /\ pc # "down" /\ Writes(Head(ops))
    /\ ops' = Tail(ops)
    /\ booked' \in {booked, After(Head(ops))}
    /\ Resumed(Head(ops), "ended")
    /\ IF Head(ops).ids \cap Native # {} /\ pc \in Alive
       THEN status' = "failed" /\ pc' = "stopped"
       ELSE UNCHANGED <<status, pc>>
    /\ UNCHANGED <<saved, hasBlob, ledger, events, history, ran>>

-----------------------------------------------------------------------------
(* The process.                                                            *)

Crash ==
    /\ pc # "down"
    /\ pc' = "down"
    /\ ledger' = {} /\ ops' = << >>
    /\ st' = [c \in Calls |-> "none"] /\ events' = {} /\ history' = {}
    /\ UNCHANGED <<durable, ran>>

\* Seeded fault: recovery writes a status of its own.
RestartWithRecoveryStatus ==
    /\ pc = "down"
    /\ pc' = "stopped"
    /\ status' = IF status # "running" THEN status
                 ELSE IF booked # {} THEN "requires_action" ELSE "clean"
    /\ UNCHANGED <<booked, saved, hasBlob, chain, calls, ran>>

\* recoverOrphanedRuns: a call in doubt makes the run wait for a human.
Restart ==
    /\ pc = "down"
    /\ pc' = "stopped"
    /\ status' = IF status # "running" THEN status
                 ELSE IF booked # {} THEN "requires_action" ELSE "interrupted"
    /\ UNCHANGED <<booked, saved, hasBlob, chain, calls, ran>>

\* run:resume, under assertRunCheckpointResumable; the ledger starts from the
\* durable set and the Runner from the checkpointed RunState.
Resume ==
    /\ pc = "stopped" /\ status = "interrupted" /\ booked = {} /\ hasBlob = "yes"
    /\ pc' = "filter"
    /\ status' = "running"
    /\ ledger' = booked
    /\ history' = saved
    /\ st' = [c \in Calls |-> IF Top(c) \in saved THEN "ended" ELSE "none"]
    /\ UNCHANGED <<booked, saved, hasBlob, ops, events, ran>>

-----------------------------------------------------------------------------
Next ==
    \/ Checkpoint \/ Ask \/ Answer \/ EndTurn \/ Settle \/ Fail
    \/ \E c \in Calls : AskInner(c) \/ Dispatch(c) \/ Refuse(c) \/ Start(c)
                        \/ Finish(c) \/ Project(c)
    \/ Apply \/ WriteFails
    \/ Crash \/ Restart \/ Resume

Spec == Init /\ [][Next]_vars
-----------------------------------------------------------------------------
(* Properties.                                                             *)

\* A call was dispatched and no checkpoint knows what became of it.
InDoubt(c) == ran[c] > 0 /\ Top(c) \notin saved

Booking == Platform \cup Inner

\* Whatever order the chain, the checkpoints, the late events and a crash come
\* in, a platform call whose effect is in doubt is booked, itself or through
\* the sub-agent that made it (toolExecutionCoordinator.ts:454-456).
EffectInDoubtIsBooked == \A c \in Booking : InDoubt(c) => Top(c) \in booked

\* So a run that was resumed never repeats a call of the platform.
EffectRunsOnce == \A c \in Booking : ran[c] <= 1

\* A platform call the process believes to be pending is pending in the database
\* too, until a checkpoint has its result: the chain and the checkpoints both
\* overwrite the durable set, and neither loses a call the other still needs.
LedgerIsDurable == pc # "down" => (ledger \cap Platform) \ saved \subseteq booked

\* A run never completes while a tool call of it is still on its way: the
\* clean check sees calls that outlive the sub-agent that made them.
CompletedIsQuiet ==
    status = "completed" =>
        \A c \in Booking : st[c] \notin {"booking", "booked", "running"}

\* Invariant I-05 of the architecture: an effect in doubt makes the run wait
\* for a human, so an interrupted run, which may be resumed, has none.
NoResumeInDoubt == status = "interrupted" => \A c \in Calls : ~InDoubt(c)

\* The inductive strengthening of the properties of the ledger: what the process
\* holds in memory of a call in doubt, of the operations in its chain, and of the
\* calls in flight.
Idle == ops = << >> /\ events = {} /\ \A c \in Calls : st[c] = "none"

MemoryIsSound ==
    /\ pc \in Alive => saved \subseteq history
    /\ pc = "down" => ledger = {} /\ Idle
    /\ \A k \in 1..Len(ops) : /\ ops[k].kind = "unmark" => ops[k].ids \subseteq Inner
                              /\ ops[k].kind = "accept" => ops[k].ids \subseteq saved

DoubtIsTracked ==
    pc # "down" => \A c \in Booking : InDoubt(c) =>
        \/ st[c] # "none" /\ Top(c) \in ledger
        \/ pc = "stopped" /\ Idle

Early == {"asked", "booking", "booked"}

FlightIsSound ==
    /\ \A c \in Booking : /\ st[c] \in Early => ran[c] = 0
                          /\ st[c] = "running" => ran[c] > 0
    /\ \A c \in Platform : /\ st[c] \in Early \cup {"running"} => c \notin saved \cup history
                           /\ st[c] = "booked" => c \in ledger
    /\ \A c \in Inner : st[c] \in Early \/ ran[c] > 0 => ran[Owner[c]] > 0

LedgerInv == /\ TypeOK /\ EffectInDoubtIsBooked /\ EffectRunsOnce /\ LedgerIsDurable
             /\ MemoryIsSound /\ DoubtIsTracked /\ FlightIsSound

\* The inductive strengthening of CompletedIsQuiet.  Between the turns of the model no
\* call of it is under way, and a call inside a sub-agent had a sub-agent to ask for it.
TurnsAreOver ==
    /\ saved \cup history \subseteq Outer /\ events \subseteq Native
    /\ pc \in Alive \ {"tools"} => \A c \in Platform : st[c] # "none" => c \in history
    /\ \A c \in Inner : st[c] # "none" => st[Owner[c]] # "none"

\* A call inside a sub-agent is booked, in memory and in the row, while it executes,
\* and the chain holds what is still to be done about it, once.
InnerIsBooked ==
    /\ \A c \in Inner : /\ st[c] \in {"none", "asked", "booking"} => c \notin ledger
                        /\ st[c] \in {"booked", "running"} => c \in ledger \cap booked
                        /\ st[c] = "booking" => \E k \in 1..Len(ops) : c \in ops[k].ids
    /\ \A k \in 1..Len(ops) : \A c \in Inner \cap ops[k].ids :
          /\ \/ ops[k].kind = "mark" /\ st[c] = "booking"
             \/ ops[k].kind = "unmark" /\ st[c] = "closing"
          /\ \A j \in 1..Len(ops) : c \in ops[j].ids => j = k

\* The executor waits for the only acceptance in the chain, which before the clean
\* check is behind every booking.
AcceptedLast ==
    /\ \A k \in 1..Len(ops) : ops[k].kind = "accept" =>
          /\ pc \in Alive => pc \in {"sync", "last"}
          /\ \A j \in 1..Len(ops) :
                /\ pc \in Alive /\ ops[j].kind = "accept" => j = k
                /\ pc = "last" /\ ops[j].kind = "mark" /\ ops[j].ids \cap Inner # {} => j < k
    /\ pc = "settle" => \A c \in Inner : st[c] # "booking"

\* A run that is over has no executor; one that may be resumed has no call at all.
OverIsOver ==
    /\ status \in {"completed", "interrupted"} => pc \notin Alive
    /\ status = "interrupted" => Idle
    /\ status = "completed" => \A c \in Platform : st[c] # "asked"

QuietInv == TurnsAreOver /\ InnerIsBooked /\ AcceptedLast /\ OverIsOver /\ CompletedIsQuiet
=============================================================================
