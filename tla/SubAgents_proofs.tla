-------------------------- MODULE SubAgents_proofs ---------------------------
(***************************************************************************)
(* Proofs about the controls of a sub-agent, for any number of follow-ups,  *)
(* cancellations, calls, turns and failing writes.  ControlInv is shown     *)
(* inductive one part after the other; the last part is that of the queue,  *)
(* because a write is sound when it is made only if it stayed sound while    *)
(* it waited.                                                              *)
(***************************************************************************)
EXTENDS SubAgents, TLAPS

-----------------------------------------------------------------------------
(* The queue of mutations                                                   *)

\* What is put at the end of the queue is new; everything else keeps its place.
LEMMA Pushed ==
    ASSUME NEW S, NEW q \in Seq(S), NEW m \in S
    PROVE  /\ Append(q, m) \in Seq(S)
           /\ \A i \in DOMAIN Append(q, m) :
                  \/ i \in DOMAIN q /\ Append(q, m)[i] = q[i]
                  \/ i = Len(q) + 1 /\ i \notin DOMAIN q /\ Append(q, m)[i] = m
           /\ \A i \in DOMAIN q : i \in DOMAIN Append(q, m) /\ Append(q, m)[i] = q[i]
OBVIOUS

\* The head leaves the queue, everything else moves up.
LEMMA Popped ==
    ASSUME NEW S, NEW q \in Seq(S), q # <<>>
    PROVE  /\ Tail(q) \in Seq(S)
           /\ 1 \in DOMAIN q /\ Head(q) = q[1] /\ Head(q) \in S
           /\ \A i \in DOMAIN Tail(q) :
                  i \in Nat /\ i + 1 \in DOMAIN q /\ i + 1 # 1 /\ Tail(q)[i] = q[i + 1]
OBVIOUS

ControlOp(m) == m.op = "control" /\ m.id \in Controls
EventOp(m)   == /\ m.op \in {"consume", "reject"} /\ m.inv \in Nat /\ m.call \in Calls
                /\ m.bindings \in [Controls -> 0..MaxCalls]
StartOp(m)   == m.op \in {"start", "resume"}
CloseOp(m)   == m.op = "close" /\ m.outcome \in {"completed", "cancelled", "failed"}

\* The kinds of mutations.
LEMMA Kinds ==
    \A m \in Op : ControlOp(m) \/ EventOp(m) \/ StartOp(m) \/ CloseOp(m)
BY DEF Op, ControlOp, EventOp, StartOp, CloseOp

\* The first mutation of the queue, and what is true of it.
HeadIs(m) ==
    \/ ControlOp(m) /\ pending[m.id] # 0 /\ controls[m.id] = "none"
    \/ EventOp(m) /\ \A c \in Controls : m.bindings[c] # 0 => m.bindings[c] = bound[c]
    \/ StartOp(m) /\ pc = "starting"
    \/ CloseOp(m) /\ pc = "closing" /\ m.outcome = result

\* The first mutation is sound: QueueInv speaks of every place of the queue.
LEMMA HeadSound ==
    ASSUME ControlInv, queue # <<>>
    PROVE  HeadIs(Head(queue)) /\ Head(queue) = queue[1] /\ 1 \in DOMAIN queue
<1>1. queue \in Seq(Op)
  BY DEF ControlInv, SubAgentsInv, TypeOK
<1>2. Head(queue) \in Op /\ Head(queue) = queue[1] /\ 1 \in DOMAIN queue
  BY <1>1, Popped
<1>3. ControlOp(Head(queue)) \/ EventOp(Head(queue)) \/ StartOp(Head(queue)) \/ CloseOp(Head(queue))
  BY <1>2, Kinds
<1> QED
  BY <1>2, <1>3 DEF ControlInv, QueueInv, Sound, HeadIs, ControlOp, EventOp, StartOp, CloseOp

\* A first mutation that writes a row finds its control waiting, without a row.
LEMMA HeadControl ==
    ASSUME NEW m, HeadIs(m), m.op = "control"
    PROVE  m.id \in Controls /\ pending[m.id] # 0 /\ controls[m.id] = "none"
BY DEF HeadIs, ControlOp, EventOp, StartOp, CloseOp

\* What the first mutation was read with is what the events say.
LEMMA HeadEvent ==
    ASSUME NEW m, HeadIs(m), m.op \in {"consume", "reject"}
    PROVE  /\ m.call \in Calls
           /\ \A c \in Controls : m.bindings[c] # 0 => m.bindings[c] = bound[c]
BY DEF HeadIs, ControlOp, EventOp, StartOp, CloseOp

\* What Mutate does, by the kind of its mutation.
LEMMA Handled ==
    ASSUME ControlInv, Mutate
    PROVE  /\ queue # <<>> /\ queue' = Tail(queue) /\ UNCHANGED faults
           /\ HeadIs(Head(queue))
           /\ \/ ControlOp(Head(queue)) /\ WriteControl(Head(queue).id)
              \/ EventOp(Head(queue)) /\ Head(queue).op = "consume" /\ Consume(Head(queue))
              \/ EventOp(Head(queue)) /\ Head(queue).op = "reject" /\ RejectQueued(Head(queue))
              \/ Head(queue).op = "start" /\ Start
              \/ Head(queue).op = "resume" /\ Resume
              \/ CloseOp(Head(queue)) /\ WriteOutcome(Head(queue))
<1>1. queue # <<>>
  BY DEF Mutate
<1>2. HeadIs(Head(queue))
  BY <1>1, HeadSound
<1> QED
  BY <1>1, <1>2 DEF Mutate, HeadIs, ControlOp, EventOp, StartOp, CloseOp

-----------------------------------------------------------------------------
(* One lemma for each part of the invariant, one step for each action       *)

\* A refused control keeps the types.
LEMMA RefuseType ==
    ASSUME TypeOK, NEW c, Refuse(c)
    PROVE  pending' \in [Controls -> Nat] /\ target' \in [Controls -> 0..MaxCalls]
<1>1. 0 \in Nat /\ 0 \in 0..MaxCalls
  BY SubAgentsConstants
<1> QED
  BY <1>1 DEF TypeOK, Refuse

Invocation == [inv : Nat \ {0}, call : Calls, cancelled : BOOLEAN, claimed : BOOLEAN]

\* Every action keeps the types.
LEMMA TypesStep == ControlInv /\ Next => (TypeOK /\ ToolTypes)'
<1> SUFFICES ASSUME ControlInv, Next PROVE (TypeOK /\ ToolTypes)'
  OBVIOUS
<1> USE SubAgentsConstants DEF TypeOK, ToolTypes, ClaimInv, None, store, plane, tool, seen
<1>0. TypeOK /\ ToolTypes /\ ClaimInv
  BY DEF ControlInv, SubAgentsInv
<1>1. ASSUME NEW c \in Controls, Submit(c) PROVE (TypeOK /\ ToolTypes)'
  <2>1. [op |-> "control", id |-> c] \in Op
    BY DEF Op
  <2>2. queue' \in Seq(Op)
    BY <1>0, <1>1, <2>1, Pushed DEF Submit
  <2>3. active \in Invocation
    BY <1>0, <1>1 DEF Submit, MayAccept, Invocation
  <2>4. active' \in Invocation
    <3>1. CASE c \in Cancels
      BY <1>1, <2>3, <3>1 DEF Submit, Invocation
    <3>2. CASE c \notin Cancels
      <4>1. (active.cancelled \/ c \in Cancels) = active.cancelled
        BY <2>3, <3>2 DEF Invocation
      <4> QED
        BY <1>1, <2>3, <3>2, <4>1 DEF Submit, Invocation
    <3> QED
      BY <3>1, <3>2
  <2>5. pending' \in [Controls -> Nat] /\ target' \in [Controls -> 0..MaxCalls]
    BY <1>0, <1>1, <2>3 DEF Submit, Invocation, Calls
  <2> QED
    BY <1>0, <1>1, <2>2, <2>4, <2>5 DEF Submit, Invocation
<1>2. ASSUME NEW c \in Controls, LogControl(c) PROVE (TypeOK /\ ToolTypes)'
  BY <1>0, <1>2 DEF LogControl, Logging
<1>3. ASSUME NEW c \in Controls, LogFails(c) PROVE (TypeOK /\ ToolTypes)'
  BY <1>0, <1>3 DEF LogFails, Logging
<1>4. CASE Begin
  <2>1. call' \in Calls /\ begun' \in Nat \ {0}
    BY <1>0, <1>4 DEF Begin, Calls
  <2>2. active' = [inv |-> begun', call |-> call', cancelled |-> FALSE, claimed |-> FALSE]
    BY <1>4 DEF Begin
  <2>3. active' \in Invocation
    BY <2>1, <2>2 DEF Invocation
  <2> QED
    BY <1>0, <1>4, <2>1, <2>3 DEF Begin, Invocation, Calls
<1>5. CASE Enter
  <2>1. [op |-> IF paused THEN "resume" ELSE "start"] \in Op
    BY <1>0, <1>5 DEF Enter, Op
  <2>2. queue' \in Seq(Op)
    BY <1>0, <1>5, <2>1, Pushed DEF Enter
  <2> QED
    BY <1>0, <1>5, <2>2 DEF Enter
<1>6. CASE Bounced
  BY <1>0, <1>6 DEF Bounced
<1>7. CASE Turn
  BY <1>0, <1>7 DEF Turn, Task
<1>8. CASE Again
  BY <1>0, <1>8 DEF Again, Goes
<1>9. ASSUME NEW r \in {"delivery", "pause", "error"}, Settle(r) PROVE (TypeOK /\ ToolTypes)'
  BY <1>0, <1>9 DEF Settle
<1>10. CASE Claim
  BY <1>0, <1>10 DEF Claim, Outcome
<1>11. CASE Pause
  BY <1>0, <1>11 DEF Pause
<1>12. CASE Orphaned
  BY <1>0, <1>12 DEF Orphaned
<1>13. CASE Close
  <2>1. [op |-> "close", outcome |-> result] \in Op
    BY <1>0, <1>13 DEF Close, Goes, Op
  <2>2. queue' \in Seq(Op)
    BY <1>0, <1>13, <2>1, Pushed DEF Close
  <2> QED
    BY <1>0, <1>13, <2>2 DEF Close, Goes
<1>14. CASE Finish
  BY <1>0, <1>14 DEF Finish, Release, Task
<1>15. CASE FinishRun
  BY <1>0, <1>15 DEF FinishRun, Release, Task
<1>16. ASSUME NEW t \in tasks, ReadBindings(t) PROVE (TypeOK /\ ToolTypes)'
  <2>1. [op |-> t.op, inv |-> t.inv, call |-> t.call, bindings |-> bound] \in Op
    BY <1>0, <1>16 DEF ReadBindings, Op
  <2>2. queue' \in Seq(Op)
    BY <1>0, <1>16, <2>1, Pushed DEF ReadBindings
  <2> QED
    BY <1>0, <1>16, <2>2 DEF ReadBindings
<1>17. ASSUME NEW t \in tasks, NothingToReject(t) PROVE (TypeOK /\ ToolTypes)'
  BY <1>0, <1>17 DEF NothingToReject
<1>18. CASE Mutate
  <2>0. queue # <<>> /\ queue' = Tail(queue) /\ HeadIs(Head(queue))
    BY <1>18, Handled
  <2>h. queue' \in Seq(Op)
    BY <1>0, <2>0, Popped
  <2>1. CASE ControlOp(Head(queue)) /\ WriteControl(Head(queue).id)
    <3>1. controls' \in [Controls -> {"none", "queued", "delivered", "rejected"}]
      BY <1>0, <2>1 DEF WriteControl, ControlOp
    <3>2. pending' \in [Controls -> Nat] /\ target' \in [Controls -> 0..MaxCalls]
      <4>1. CASE Writable(Head(queue).id)
        BY <1>0, <2>1, <4>1 DEF WriteControl
      <4>2. CASE ~Writable(Head(queue).id)
        BY <1>0, <2>1, <4>2, RefuseType DEF WriteControl
      <4> QED
        BY <4>1, <4>2
    <3>3. status' \in {"ready", "running", "cancelling", "completed", "cancelled", "failed"}
      BY <1>0, <2>1 DEF WriteControl
    <3> QED
      BY <1>0, <2>1, <2>h, <3>1, <3>2, <3>3 DEF WriteControl
  <2>2. CASE EventOp(Head(queue)) /\ Head(queue).op = "consume" /\ Consume(Head(queue))
    <3>1. controls' \in [Controls -> {"none", "queued", "delivered", "rejected"}]
      BY <1>0, <2>2 DEF Consume
    <3>2. told' \in [Controls -> Seq(Calls)]
      <4>1. Head(queue).call \in Calls
        BY <2>2 DEF EventOp
      <4>2. \A c \in Controls : told[c] \in Seq(Calls) /\ Append(told[c], Head(queue).call) \in Seq(Calls)
        BY <1>0, <4>1
      <4> QED
        BY <1>0, <2>2, <4>2 DEF Consume
    <3> QED
      BY <1>0, <2>2, <2>h, <3>1, <3>2 DEF Consume, Awaited
  <2>3. CASE EventOp(Head(queue)) /\ Head(queue).op = "reject" /\ RejectQueued(Head(queue))
    BY <1>0, <2>0, <2>h, <2>3 DEF RejectQueued, Queued, Mine, HeadIs, ControlOp,
           EventOp, StartOp, CloseOp
  <2>4. CASE Head(queue).op = "start" /\ Start
    BY <1>0, <2>0, <2>h, <2>4 DEF Start, Goes, HeadIs, ControlOp, EventOp, StartOp, CloseOp
  <2>5. CASE Head(queue).op = "resume" /\ Resume
    BY <1>0, <2>0, <2>h, <2>5 DEF Resume, Goes, HeadIs, ControlOp, EventOp,
           StartOp, CloseOp
  <2>6. CASE CloseOp(Head(queue)) /\ WriteOutcome(Head(queue))
    BY <1>0, <2>0, <2>h, <2>6 DEF WriteOutcome, Goes, HeadIs, ControlOp, EventOp,
           StartOp, CloseOp
  <2> QED
    BY <1>18, <2>1, <2>2, <2>3, <2>4, <2>5, <2>6, Handled
<1>19. CASE WriteFails
  <2>1. queue' \in Seq(Op) /\ Head(queue) \in Op
    BY <1>0, <1>19, Popped DEF WriteFails
  <2>2. pending' \in [Controls -> Nat] /\ target' \in [Controls -> 0..MaxCalls]
    <3>1. CASE Head(queue).op = "control"
      BY <1>0, <1>19, <3>1, RefuseType DEF WriteFails
    <3>2. CASE Head(queue).op # "control"
      BY <1>0, <1>19, <3>2 DEF WriteFails
    <3> QED
      BY <3>1, <3>2
  <2>3. HeadIs(Head(queue))
    BY <1>19, HeadSound DEF WriteFails
  <2>4. pc' # "idle" => pc # "idle"
    BY <1>19, <2>3 DEF WriteFails, Awaited, HeadIs, ControlOp, EventOp, StartOp, CloseOp
  <2> QED
    BY <1>0, <1>19, <2>1, <2>2, <2>4 DEF WriteFails
<1> QED
  BY <1>1, <1>2, <1>3, <1>4, <1>5, <1>6, <1>7, <1>8, <1>9, <1>10, <1>11, <1>12,
         <1>13, <1>14, <1>15, <1>16, <1>17, <1>18, <1>19 DEF Next, CallStep,
         TaskStep

\* The invocation in memory stays that of the call.
LEMMA InvocationStep == ControlInv /\ Next => InvocationIsCurrent'
<1> SUFFICES ASSUME ControlInv, Next PROVE InvocationIsCurrent'
  OBVIOUS
<1> USE SubAgentsConstants DEF InvocationIsCurrent, None, store, plane, tool, seen
<1>0. InvocationIsCurrent /\ TypeOK
  BY DEF ControlInv, SubAgentsInv
<1>1. ASSUME NEW c \in Controls, Submit(c) PROVE InvocationIsCurrent'
  BY <1>0, <1>1 DEF Submit, Fresh, MayAccept
<1>2. ASSUME NEW c \in Controls, LogControl(c) PROVE InvocationIsCurrent'
  BY <1>0, <1>2 DEF LogControl, Logging
<1>3. ASSUME NEW c \in Controls, LogFails(c) PROVE InvocationIsCurrent'
  BY <1>0, <1>3 DEF LogFails, Logging
<1>4. CASE Begin
  BY <1>0, <1>4 DEF Begin
<1>5. CASE Enter
  BY <1>0, <1>5 DEF Enter
<1>6. CASE Bounced
  BY <1>0, <1>6 DEF Bounced
<1>7. CASE Turn
  BY <1>0, <1>7 DEF Turn, Task
<1>8. CASE Again
  BY <1>0, <1>8 DEF Again, Goes
<1>9. ASSUME NEW r \in {"delivery", "pause", "error"}, Settle(r) PROVE InvocationIsCurrent'
  BY <1>0, <1>9 DEF Settle
<1>10. CASE Claim
  BY <1>0, <1>10 DEF Claim, Outcome
<1>11. CASE Pause
  BY <1>0, <1>11 DEF Pause
<1>12. CASE Orphaned
  BY <1>0, <1>12 DEF Orphaned
<1>13. CASE Close
  BY <1>0, <1>13 DEF Close, Goes
<1>14. CASE Finish
  BY <1>0, <1>14 DEF Finish, Release, Task
<1>15. CASE FinishRun
  BY <1>0, <1>15 DEF FinishRun, Release, Task
<1>16. ASSUME NEW t \in tasks, ReadBindings(t) PROVE InvocationIsCurrent'
  BY <1>0, <1>16 DEF ReadBindings
<1>17. ASSUME NEW t \in tasks, NothingToReject(t) PROVE InvocationIsCurrent'
  BY <1>0, <1>17 DEF NothingToReject
<1>18. CASE Mutate
  <2>0. queue # <<>> /\ queue' = Tail(queue) /\ HeadIs(Head(queue))
    BY <1>18, Handled
  <2>1. CASE ControlOp(Head(queue)) /\ WriteControl(Head(queue).id)
    BY <1>0, <2>0, <2>1 DEF WriteControl, Writable, Refuse, HeadIs, ControlOp,
           EventOp, StartOp, CloseOp
  <2>2. CASE EventOp(Head(queue)) /\ Head(queue).op = "consume" /\ Consume(Head(queue))
    BY <1>0, <2>0, <2>2 DEF Consume, Queued, Mine, Awaited, HeadIs, ControlOp,
           EventOp, StartOp, CloseOp
  <2>3. CASE EventOp(Head(queue)) /\ Head(queue).op = "reject" /\ RejectQueued(Head(queue))
    BY <1>0, <2>0, <2>3 DEF RejectQueued, Queued, Mine, HeadIs, ControlOp, EventOp,
           StartOp, CloseOp
  <2>4. CASE Head(queue).op = "start" /\ Start
    BY <1>0, <2>0, <2>4 DEF Start, Goes, HeadIs, ControlOp, EventOp, StartOp,
           CloseOp
  <2>5. CASE Head(queue).op = "resume" /\ Resume
    BY <1>0, <2>0, <2>5 DEF Resume, Goes, HeadIs, ControlOp, EventOp, StartOp,
           CloseOp
  <2>6. CASE CloseOp(Head(queue)) /\ WriteOutcome(Head(queue))
    BY <1>0, <2>0, <2>6 DEF WriteOutcome, Goes, HeadIs, ControlOp, EventOp,
           StartOp, CloseOp
  <2> QED
    BY <1>18, <2>1, <2>2, <2>3, <2>4, <2>5, <2>6, Handled
<1>19. CASE WriteFails
  <2>1. HeadIs(Head(queue))
    BY <1>19, HeadSound DEF WriteFails
  <2> QED
    BY <1>0, <1>19, <2>1 DEF WriteFails, Refuse, Awaited, HeadIs, ControlOp,
           EventOp, StartOp, CloseOp
<1> QED
  BY <1>1, <1>2, <1>3, <1>4, <1>5, <1>6, <1>7, <1>8, <1>9, <1>10, <1>11, <1>12,
         <1>13, <1>14, <1>15, <1>16, <1>17, <1>18, <1>19 DEF Next, CallStep,
         TaskStep

\* A control is bound after it was recorded.
LEMMA RecordedStep == ControlInv /\ Next => RecordedInOrder'
<1> SUFFICES ASSUME ControlInv, Next PROVE RecordedInOrder'
  OBVIOUS
<1> USE SubAgentsConstants DEF RecordedInOrder, TypeOK, store, plane, tool, seen
<1>0. RecordedInOrder /\ TypeOK
  BY DEF ControlInv, SubAgentsInv
<1>1. ASSUME NEW c \in Controls, Submit(c) PROVE RecordedInOrder'
  BY <1>0, <1>1 DEF Submit, Fresh, MayAccept
<1>2. ASSUME NEW c \in Controls, LogControl(c) PROVE RecordedInOrder'
  BY <1>0, <1>2 DEF LogControl, Logging
<1>3. ASSUME NEW c \in Controls, LogFails(c) PROVE RecordedInOrder'
  BY <1>0, <1>3 DEF LogFails, Logging
<1>4. CASE Begin
  BY <1>0, <1>4 DEF Begin
<1>5. CASE Enter
  BY <1>0, <1>5 DEF Enter
<1>6. CASE Bounced
  BY <1>0, <1>6 DEF Bounced
<1>7. CASE Turn
  BY <1>0, <1>7 DEF Turn, Task
<1>8. CASE Again
  BY <1>0, <1>8 DEF Again, Goes
<1>9. ASSUME NEW r \in {"delivery", "pause", "error"}, Settle(r) PROVE RecordedInOrder'
  BY <1>0, <1>9 DEF Settle
<1>10. CASE Claim
  BY <1>0, <1>10 DEF Claim, Outcome
<1>11. CASE Pause
  BY <1>0, <1>11 DEF Pause
<1>12. CASE Orphaned
  BY <1>0, <1>12 DEF Orphaned
<1>13. CASE Close
  BY <1>0, <1>13 DEF Close, Goes
<1>14. CASE Finish
  BY <1>0, <1>14 DEF Finish, Release, Task
<1>15. CASE FinishRun
  BY <1>0, <1>15 DEF FinishRun, Release, Task
<1>16. ASSUME NEW t \in tasks, ReadBindings(t) PROVE RecordedInOrder'
  BY <1>0, <1>16 DEF ReadBindings
<1>17. ASSUME NEW t \in tasks, NothingToReject(t) PROVE RecordedInOrder'
  BY <1>0, <1>17 DEF NothingToReject
<1>18. CASE Mutate
  <2>0. queue # <<>> /\ queue' = Tail(queue) /\ HeadIs(Head(queue))
    BY <1>18, Handled
  <2>1. CASE ControlOp(Head(queue)) /\ WriteControl(Head(queue).id)
    BY <1>0, <2>0, <2>1 DEF WriteControl, Writable, Refuse, HeadIs, ControlOp,
           EventOp, StartOp, CloseOp
  <2>2. CASE EventOp(Head(queue)) /\ Head(queue).op = "consume" /\ Consume(Head(queue))
    BY <1>0, <2>0, <2>2 DEF Consume, Queued, Mine, Awaited, HeadIs, ControlOp,
           EventOp, StartOp, CloseOp
  <2>3. CASE EventOp(Head(queue)) /\ Head(queue).op = "reject" /\ RejectQueued(Head(queue))
    BY <1>0, <2>0, <2>3 DEF RejectQueued, Queued, Mine, HeadIs, ControlOp, EventOp,
           StartOp, CloseOp
  <2>4. CASE Head(queue).op = "start" /\ Start
    BY <1>0, <2>0, <2>4 DEF Start, Goes, HeadIs, ControlOp, EventOp, StartOp,
           CloseOp
  <2>5. CASE Head(queue).op = "resume" /\ Resume
    BY <1>0, <2>0, <2>5 DEF Resume, Goes, HeadIs, ControlOp, EventOp, StartOp,
           CloseOp
  <2>6. CASE CloseOp(Head(queue)) /\ WriteOutcome(Head(queue))
    BY <1>0, <2>0, <2>6 DEF WriteOutcome, Goes, HeadIs, ControlOp, EventOp,
           StartOp, CloseOp
  <2> QED
    BY <1>18, <2>1, <2>2, <2>3, <2>4, <2>5, <2>6, Handled
<1>19. CASE WriteFails
  <2>1. HeadIs(Head(queue))
    BY <1>19, HeadSound DEF WriteFails
  <2> QED
    BY <1>0, <1>19, <2>1 DEF WriteFails, Refuse, Awaited, HeadIs, ControlOp,
           EventOp, StartOp, CloseOp
<1> QED
  BY <1>1, <1>2, <1>3, <1>4, <1>5, <1>6, <1>7, <1>8, <1>9, <1>10, <1>11, <1>12,
         <1>13, <1>14, <1>15, <1>16, <1>17, <1>18, <1>19 DEF Next, CallStep,
         TaskStep

\* What waits belongs to this invocation or to an earlier one.
LEMMA PendingStep == ControlInv /\ Next => PendingInv'
<1> SUFFICES ASSUME ControlInv, Next PROVE PendingInv'
  OBVIOUS
<1> USE SubAgentsConstants DEF PendingInv, PendingOf, TypeOK, ToolTypes, InvocationIsCurrent,
       None, store, plane, tool, seen
<1>0. PendingInv /\ TypeOK /\ ToolTypes /\ InvocationIsCurrent
  BY DEF ControlInv, SubAgentsInv
<1>1. ASSUME NEW c \in Controls, Submit(c) PROVE PendingInv'
  BY <1>0, <1>1 DEF Submit, Fresh, MayAccept
<1>2. ASSUME NEW c \in Controls, LogControl(c) PROVE PendingInv'
  BY <1>0, <1>2 DEF LogControl, Logging
<1>3. ASSUME NEW c \in Controls, LogFails(c) PROVE PendingInv'
  BY <1>0, <1>3 DEF LogFails, Logging
<1>4. CASE Begin
  BY <1>0, <1>4 DEF Begin
<1>5. CASE Enter
  BY <1>0, <1>5 DEF Enter
<1>6. CASE Bounced
  BY <1>0, <1>6 DEF Bounced
<1>7. CASE Turn
  BY <1>0, <1>7 DEF Turn, Task
<1>8. CASE Again
  BY <1>0, <1>8 DEF Again, Goes
<1>9. ASSUME NEW r \in {"delivery", "pause", "error"}, Settle(r) PROVE PendingInv'
  BY <1>0, <1>9 DEF Settle
<1>10. CASE Claim
  BY <1>0, <1>10 DEF Claim, Outcome
<1>11. CASE Pause
  BY <1>0, <1>11 DEF Pause
<1>12. CASE Orphaned
  BY <1>0, <1>12 DEF Orphaned
<1>13. CASE Close
  BY <1>0, <1>13 DEF Close, Goes
<1>14. CASE Finish
  BY <1>0, <1>14 DEF Finish, Release, Task
<1>15. CASE FinishRun
  BY <1>0, <1>15 DEF FinishRun, Release, Task
<1>16. ASSUME NEW t \in tasks, ReadBindings(t) PROVE PendingInv'
  BY <1>0, <1>16 DEF ReadBindings
<1>17. ASSUME NEW t \in tasks, NothingToReject(t) PROVE PendingInv'
  BY <1>0, <1>17 DEF NothingToReject
<1>18. CASE Mutate
  <2>0. queue # <<>> /\ queue' = Tail(queue) /\ HeadIs(Head(queue))
    BY <1>18, Handled
  <2>1. CASE ControlOp(Head(queue)) /\ WriteControl(Head(queue).id)
    <3> DEFINE d == Head(queue).id
    <3>0. d \in Controls /\ pending[d] # 0 /\ controls[d] = "none"
      BY <2>0, <2>1, HeadControl DEF ControlOp
    <3> SUFFICES ASSUME NEW c \in Controls PROVE PendingOf(c)'
      BY DEF PendingInv
    <3> HIDE DEF d
    <3>1. CASE Writable(d)
      BY <1>0, <3>0, <2>1, <3>1 DEF WriteControl, d
    <3>2. CASE ~Writable(d)
      BY <1>0, <3>0, <2>1, <3>2 DEF WriteControl, Refuse, d
    <3> QED
      BY <3>1, <3>2
  <2>2. CASE EventOp(Head(queue)) /\ Head(queue).op = "consume" /\ Consume(Head(queue))
    BY <1>0, <2>0, <2>2 DEF Consume, Queued, Mine, Awaited, HeadIs, ControlOp,
           EventOp, StartOp, CloseOp
  <2>3. CASE EventOp(Head(queue)) /\ Head(queue).op = "reject" /\ RejectQueued(Head(queue))
    BY <1>0, <2>0, <2>3 DEF RejectQueued, Queued, Mine, HeadIs, ControlOp, EventOp,
           StartOp, CloseOp
  <2>4. CASE Head(queue).op = "start" /\ Start
    BY <1>0, <2>0, <2>4 DEF Start, Goes, HeadIs, ControlOp, EventOp, StartOp,
           CloseOp
  <2>5. CASE Head(queue).op = "resume" /\ Resume
    BY <1>0, <2>0, <2>5 DEF Resume, Goes, HeadIs, ControlOp, EventOp, StartOp,
           CloseOp
  <2>6. CASE CloseOp(Head(queue)) /\ WriteOutcome(Head(queue))
    BY <1>0, <2>0, <2>6 DEF WriteOutcome, Goes, HeadIs, ControlOp, EventOp,
           StartOp, CloseOp
  <2> QED
    BY <1>18, <2>1, <2>2, <2>3, <2>4, <2>5, <2>6, Handled
<1>19. CASE WriteFails
  <2>1. HeadIs(Head(queue))
    BY <1>19, HeadSound DEF WriteFails
  <2>2. CASE Head(queue).op = "control"
    <3> DEFINE d == Head(queue).id
    <3>0. d \in Controls /\ pending[d] # 0 /\ controls[d] = "none"
      BY <2>1, <2>2, HeadControl
    <3>1. Refuse(d) /\ UNCHANGED <<store, begun, call>>
      BY <1>19, <2>2 DEF WriteFails
    <3> HIDE DEF d
    <3> QED
      BY <1>0, <3>0, <3>1 DEF Refuse
  <2>3. CASE Head(queue).op # "control"
    BY <1>0, <1>19, <2>3 DEF WriteFails
  <2> QED
    BY <2>2, <2>3
<1> QED
  BY <1>1, <1>2, <1>3, <1>4, <1>5, <1>6, <1>7, <1>8, <1>9, <1>10, <1>11, <1>12,
         <1>13, <1>14, <1>15, <1>16, <1>17, <1>18, <1>19 DEF Next, CallStep,
         TaskStep

\* What is told was delivered, and told to its call.
LEMMA ToldStep == ControlInv /\ Next => ToldInv'
<1> SUFFICES ASSUME ControlInv, Next PROVE ToldInv'
  OBVIOUS
<1> USE SubAgentsConstants DEF ToldInv, TypeOK, ToolTypes, RecordedInOrder, store, plane, tool, seen
<1>0. ToldInv /\ TypeOK /\ ToolTypes /\ RecordedInOrder
  BY DEF ControlInv, SubAgentsInv
<1>1. ASSUME NEW c \in Controls, Submit(c) PROVE ToldInv'
  BY <1>0, <1>1 DEF Submit, Fresh, MayAccept
<1>2. ASSUME NEW c \in Controls, LogControl(c) PROVE ToldInv'
  BY <1>0, <1>2 DEF LogControl, Logging
<1>3. ASSUME NEW c \in Controls, LogFails(c) PROVE ToldInv'
  BY <1>0, <1>3 DEF LogFails, Logging
<1>4. CASE Begin
  BY <1>0, <1>4 DEF Begin
<1>5. CASE Enter
  BY <1>0, <1>5 DEF Enter
<1>6. CASE Bounced
  BY <1>0, <1>6 DEF Bounced
<1>7. CASE Turn
  BY <1>0, <1>7 DEF Turn, Task
<1>8. CASE Again
  BY <1>0, <1>8 DEF Again, Goes
<1>9. ASSUME NEW r \in {"delivery", "pause", "error"}, Settle(r) PROVE ToldInv'
  BY <1>0, <1>9 DEF Settle
<1>10. CASE Claim
  BY <1>0, <1>10 DEF Claim, Outcome
<1>11. CASE Pause
  BY <1>0, <1>11 DEF Pause
<1>12. CASE Orphaned
  BY <1>0, <1>12 DEF Orphaned
<1>13. CASE Close
  BY <1>0, <1>13 DEF Close, Goes
<1>14. CASE Finish
  BY <1>0, <1>14 DEF Finish, Release, Task
<1>15. CASE FinishRun
  BY <1>0, <1>15 DEF FinishRun, Release, Task
<1>16. ASSUME NEW t \in tasks, ReadBindings(t) PROVE ToldInv'
  BY <1>0, <1>16 DEF ReadBindings
<1>17. ASSUME NEW t \in tasks, NothingToReject(t) PROVE ToldInv'
  BY <1>0, <1>17 DEF NothingToReject
<1>18. CASE Mutate
  <2>0. queue # <<>> /\ queue' = Tail(queue) /\ HeadIs(Head(queue))
    BY <1>18, Handled
  <2>1. CASE ControlOp(Head(queue)) /\ WriteControl(Head(queue).id)
    BY <1>0, <2>0, <2>1 DEF WriteControl, Writable, Refuse, HeadIs, ControlOp,
           EventOp, StartOp, CloseOp
  <2>2. CASE EventOp(Head(queue)) /\ Head(queue).op = "consume" /\ Consume(Head(queue))
    <3> SUFFICES ASSUME NEW c \in Controls, told'[c] # <<>>
                 PROVE  controls'[c] = "delivered" /\ told'[c] = <<target'[c]>>
      OBVIOUS
    <3>1. CASE c \in Mine(Head(queue)) /\ Awaited(Head(queue))
      <4>1. told[c] = <<>> /\ told'[c] = Append(told[c], Head(queue).call)
        BY <1>0, <2>2, <3>1 DEF Consume, Mine, Queued
      <4>2. told'[c] = <<Head(queue).call>>
        BY <4>1
      <4>3. Head(queue).call = target[c]
        <5>1. Head(queue).bindings[c] = Head(queue).call /\ Head(queue).call \in Calls
          BY <2>0, <2>2, <3>1, HeadEvent DEF Mine
        <5>2. bound[c] = Head(queue).call /\ bound[c] # 0
          BY <2>0, <2>2, <5>1, HeadEvent DEF Calls
        <5> QED
          BY <1>0, <5>2
      <4> QED
        BY <1>0, <2>2, <3>1, <4>2, <4>3 DEF Consume
    <3>2. CASE ~(c \in Mine(Head(queue)) /\ Awaited(Head(queue)))
      BY <1>0, <2>2, <3>2 DEF Consume, Queued, Mine
    <3> QED
      BY <3>1, <3>2
  <2>3. CASE EventOp(Head(queue)) /\ Head(queue).op = "reject" /\ RejectQueued(Head(queue))
    BY <1>0, <2>0, <2>3 DEF RejectQueued, Queued, Mine, HeadIs, ControlOp, EventOp,
           StartOp, CloseOp
  <2>4. CASE Head(queue).op = "start" /\ Start
    BY <1>0, <2>0, <2>4 DEF Start, Goes, HeadIs, ControlOp, EventOp, StartOp,
           CloseOp
  <2>5. CASE Head(queue).op = "resume" /\ Resume
    BY <1>0, <2>0, <2>5 DEF Resume, Goes, HeadIs, ControlOp, EventOp, StartOp,
           CloseOp
  <2>6. CASE CloseOp(Head(queue)) /\ WriteOutcome(Head(queue))
    BY <1>0, <2>0, <2>6 DEF WriteOutcome, Goes, HeadIs, ControlOp, EventOp,
           StartOp, CloseOp
  <2> QED
    BY <1>18, <2>1, <2>2, <2>3, <2>4, <2>5, <2>6, Handled
<1>19. CASE WriteFails
  <2>1. HeadIs(Head(queue))
    BY <1>19, HeadSound DEF WriteFails
  <2> QED
    BY <1>0, <1>19, <2>1 DEF WriteFails, Refuse, Awaited, HeadIs, ControlOp,
           EventOp, StartOp, CloseOp
<1> QED
  BY <1>1, <1>2, <1>3, <1>4, <1>5, <1>6, <1>7, <1>8, <1>9, <1>10, <1>11, <1>12,
         <1>13, <1>14, <1>15, <1>16, <1>17, <1>18, <1>19 DEF Next, CallStep,
         TaskStep

-----------------------------------------------------------------------------
(* What the larger actions do, where the invariant holds                    *)

\* The types that the parts below rest on.
Ranges ==
    /\ controls \in [Controls -> {"none", "queued", "delivered", "rejected"}]
    /\ pending \in [Controls -> Nat] /\ target \in [Controls -> 0..MaxCalls]
    /\ returned \in [Calls -> {"none", "completed", "cancelled", "failed", "error"}]
    /\ begun \in Nat /\ call \in 0..MaxCalls /\ (pc # "idle" \/ paused => call \in Calls)
    /\ paused \in BOOLEAN

\* They are part of the type invariant.
LEMMA RangesHold == ControlInv => Ranges
BY DEF ControlInv, SubAgentsInv, TypeOK, ToolTypes, Ranges

\* A submission changes the invocation only by cancelling it.
LEMMA SubmitMeans ==
    ASSUME ControlInv, NEW c \in Controls, Submit(c)
    PROVE  /\ active # None /\ ~active.claimed /\ ~active.cancelled /\ active \in Invocation
           /\ active' # None /\ ~active'.claimed /\ active'.inv = active.inv /\ active'.call = active.call
           /\ active'.cancelled <=> c \in Cancels
           /\ pending[c] = 0 /\ controls[c] = "none"
           /\ pending' = [pending EXCEPT ![c] = begun] /\ target' = [target EXCEPT ![c] = call]
           /\ active.inv = begun /\ begun # 0
<1>1. active # None /\ active \in Invocation
  BY DEF Submit, MayAccept, ControlInv, SubAgentsInv, TypeOK, Invocation
<1>2. active.inv # 0 /\ active'.inv = active.inv /\ active'.call = active.call /\ active'.claimed = active.claimed
  BY <1>1 DEF Submit, Invocation
<1>3. ~active.cancelled /\ (active'.cancelled <=> c \in Cancels)
  BY <1>1 DEF Submit, MayAccept, Invocation
<1>4. active.inv = begun /\ active.call = call
  BY <1>1 DEF ControlInv, SubAgentsInv, InvocationIsCurrent
<1> QED
  BY <1>1, <1>2, <1>3, <1>4 DEF Submit, MayAccept, Fresh, None

\* A new invocation is neither cancelled nor claimed.
LEMMA BeginMeans ==
    ASSUME ControlInv, Begin
    PROVE  /\ active' # None /\ active'.inv = begun + 1 /\ ~active'.cancelled /\ ~active'.claimed
           /\ begun' = begun + 1 /\ call' = (IF paused THEN call ELSE call + 1) /\ call' \in Calls
<1>1. begun \in Nat /\ call \in 0..MaxCalls /\ (paused => call \in Calls)
  BY DEF ControlInv, ToolTypes
<1>2. active' = [inv |-> begun + 1, call |-> call', cancelled |-> FALSE, claimed |-> FALSE]
  BY DEF Begin, None
<1> QED
  BY <1>1, <1>2, SubAgentsConstants DEF Begin, None, Calls

\* A claim changes only that the invocation is claimed.
LEMMA ClaimMeans ==
    ASSUME ControlInv, Claim
    PROVE  /\ active # None /\ active' # None /\ active'.claimed /\ active'.inv = active.inv
           /\ active'.cancelled = active.cancelled /\ active.inv = begun
           /\ pc = "settled" /\ pc' = "claimed" /\ result' = Outcome
           /\ active.cancelled => result' = "cancelled"
<1>1. active # None /\ active \in Invocation
  BY DEF Claim, ControlInv, SubAgentsInv, TypeOK, Invocation
<1>2. active' = [inv |-> active.inv, call |-> active.call, cancelled |-> active.cancelled, claimed |-> TRUE]
  BY <1>1 DEF Claim, Invocation
<1>3. active.inv = begun
  BY <1>1 DEF ControlInv, SubAgentsInv, InvocationIsCurrent
<1> QED
  BY <1>1, <1>2, <1>3 DEF Claim, Outcome, None

\* A control whose row may be written belongs to the call under way.
LEMMA WritableMeans ==
    ASSUME ControlInv, NEW d \in Controls, pending[d] # 0, Writable(d)
    PROVE  /\ active # None /\ active.inv = begun /\ pending[d] = begun /\ target[d] = call
           /\ pc # "idle" /\ ~over /\ status = "running" /\ call \in Calls
           /\ d \in Cancels => active.cancelled
<1>1. active # None /\ pending[d] = active.inv /\ status = "running"
  BY DEF Writable, None
<1>2. active.inv = begun /\ pc # "idle" /\ ~over
  BY <1>1 DEF ControlInv, SubAgentsInv, InvocationIsCurrent
<1>3. target[d] = call
  BY <1>1, <1>2 DEF ControlInv, PendingInv, PendingOf
<1>4. d \in Cancels => active.cancelled
  BY <1>1 DEF ControlInv, ClaimInv
<1>5. call \in Calls
  BY <1>2 DEF ControlInv, ToolTypes
<1> QED
  BY <1>1, <1>2, <1>3, <1>4, <1>5

\* The write of a control's row: accepted or refused.
Accepts(d) ==
    /\ controls' = [controls EXCEPT ![d] = IF d \in Cancels THEN "delivered" ELSE "queued"]
    /\ status' = IF d \in Cancels THEN "cancelling" ELSE status
    /\ UNCHANGED <<pending, target>>

\* The control at the head gets its row, or is refused.
LEMMA WriteMeans ==
    ASSUME ControlInv, NEW m, ControlOp(m), HeadIs(m), WriteControl(m.id)
    PROVE  \E d \in Controls :
              /\ m.id = d /\ pending[d] # 0 /\ controls[d] = "none"
              /\ UNCHANGED <<bound, active, tasks, tool, told, returned>>
              /\ \/ Writable(d) /\ Accepts(d)
                 \/ Refuse(d) /\ UNCHANGED <<controls, status>>
<1>1. m.id \in Controls /\ pending[m.id] # 0 /\ controls[m.id] = "none"
  BY HeadControl DEF ControlOp
<1>2. ASSUME NEW d, WriteControl(d)
      PROVE  /\ UNCHANGED <<bound, active, tasks, tool, told, returned>>
             /\ \/ Writable(d) /\ Accepts(d)
                \/ Refuse(d) /\ UNCHANGED <<controls, status>>
  <2>1. UNCHANGED <<bound, active, tasks, tool, told, returned>>
    BY <1>2 DEF WriteControl
  <2>2. CASE Writable(d)
    BY <1>2, <2>2 DEF WriteControl, Accepts
  <2>3. CASE ~Writable(d)
    BY <1>2, <2>3 DEF WriteControl
  <2> QED
    BY <2>1, <2>2, <2>3
<1> QED
  BY <1>1, <1>2

\* The two readers of events: no row is made, no delivery is taken back.
LEMMA EventMeans ==
    ASSUME ControlInv, Consume(Head(queue)) \/ RejectQueued(Head(queue))
    PROVE  /\ UNCHANGED <<status, bound, active, pending, tasks, call, begun, turns, result, paused, over>>
           /\ UNCHANGED <<target, returned>>
           /\ pc' = pc \/ (pc = "consuming" /\ pc' = "model")
           /\ \A c \in Controls : /\ controls'[c] = "none" <=> controls[c] = "none"
                                  /\ controls[c] = "delivered" => controls'[c] = "delivered"
           /\ \A c \in Controls : controls'[c] = "queued" => controls[c] = "queued"
<1>1. controls \in [Controls -> {"none", "queued", "delivered", "rejected"}]
  BY DEF ControlInv, SubAgentsInv, TypeOK
<1>2. CASE Consume(Head(queue))
  BY <1>1, <1>2 DEF Consume, Queued, Mine, Awaited, tool
<1>3. CASE RejectQueued(Head(queue))
  BY <1>1, <1>3 DEF RejectQueued, Queued, Mine, tool, seen
<1> QED
  BY <1>2, <1>3

\* A failing write refuses a control or ends what waits for it.
LEMMA FailMeans ==
    ASSUME ControlInv, WriteFails
    PROVE  /\ UNCHANGED <<status, controls, bound, active, tasks, call, begun, paused, over, told, returned>>
           /\ \/ UNCHANGED <<pending, target>>
              \/ \E d \in Controls : /\ pending[d] # 0 /\ controls[d] = "none" /\ Refuse(d)
                                     /\ Head(queue).op = "control" /\ Head(queue).id = d
           /\ \/ UNCHANGED <<pc, result>>
              \/ pc \in {"starting", "closing"} /\ pc' = "finish" /\ result' = "error"
              \/ pc = "consuming" /\ pc' = "settled" /\ result' = "error"
<1>1. HeadIs(Head(queue))
  BY HeadSound DEF WriteFails
<1>2. CASE Head(queue).op = "control"
  <2>1. /\ Head(queue).id \in Controls
        /\ pending[Head(queue).id] # 0 /\ controls[Head(queue).id] = "none"
    BY <1>1, <1>2, HeadControl
  <2>2. Refuse(Head(queue).id) /\ UNCHANGED <<pc, result>>
    BY <1>2 DEF WriteFails
  <2> QED
    BY <1>2, <2>1, <2>2 DEF WriteFails, store
<1>3. CASE Head(queue).op # "control"
  BY <1>1, <1>3 DEF WriteFails, Awaited, store, HeadIs, ControlOp, EventOp, StartOp, CloseOp
<1> QED
  BY <1>2, <1>3

\* A resumption in the queue is the call's that waits for it; no other write
\* adds one.
LEMMA ResumingStarts == ControlInv /\ Resuming => pc = "starting"
BY DEF ControlInv, QueueInv, Sound, Resuming

\* Appending any other write puts no resumption in the queue.
LEMMA ResumingPushed ==
    ASSUME ControlInv, NEW m, m.op # "resume", queue' = Append(queue, m), Resuming'
    PROVE  Resuming
<1>1. queue \in Seq(Op)
  BY DEF ControlInv, SubAgentsInv, TypeOK
<1>2. ASSUME NEW i \in DOMAIN queue'
      PROVE  queue'[i] = m \/ (i \in DOMAIN queue /\ queue'[i] = queue[i])
  <2>1. queue \in Seq(Op \cup {m}) /\ m \in Op \cup {m}
    BY <1>1
  <2>2. \A k \in DOMAIN Append(queue, m) :
           \/ k \in DOMAIN queue /\ Append(queue, m)[k] = queue[k]
           \/ Append(queue, m)[k] = m
    BY <2>1, Pushed
  <2> QED
    BY <1>2, <2>2
<1> QED
  BY <1>2 DEF Resuming

\* Taking the head away puts none there either.
LEMMA ResumingPopped ==
    ASSUME ControlInv, queue # <<>>, queue' = Tail(queue), Resuming'
    PROVE  Resuming
<1>1. queue \in Seq(Op)
  BY DEF ControlInv, SubAgentsInv, TypeOK
<1>2. ASSUME NEW i \in DOMAIN queue' PROVE \E j \in DOMAIN queue : queue'[i] = queue[j]
  BY <1>1, Popped
<1> QED
  BY <1>2 DEF Resuming

\* Nor does a step that leaves the queue alone.
LEMMA ResumingKept == UNCHANGED queue => (Resuming' <=> Resuming)
BY DEF Resuming

-----------------------------------------------------------------------------
(* The remaining parts of the invariant                                     *)

\* The parent is told once, and what the row says.
LEMMA ReturnedStep == ControlInv /\ Next => (ReturnedInv /\ RowSaysOutcome)'
<1> SUFFICES ASSUME ControlInv, Next PROVE (ReturnedInv /\ RowSaysOutcome)'
  OBVIOUS
<1> USE SubAgentsConstants DEF ReturnedInv, RowSaysOutcome, ClaimInv, TypeOK, ToolTypes,
       InvocationIsCurrent, store, plane, tool, seen
<1>0. ReturnedInv /\ RowSaysOutcome /\ ClaimInv /\ TypeOK /\ ToolTypes /\ InvocationIsCurrent
  BY DEF ControlInv, SubAgentsInv
<1>1. ASSUME NEW c \in Controls, Submit(c) PROVE (ReturnedInv /\ RowSaysOutcome)'
  BY <1>0, <1>1, SubmitMeans DEF Submit
<1>2. ASSUME NEW c \in Controls, LogControl(c) PROVE (ReturnedInv /\ RowSaysOutcome)'
  BY <1>0, <1>2 DEF LogControl, Logging
<1>3. ASSUME NEW c \in Controls, LogFails(c) PROVE (ReturnedInv /\ RowSaysOutcome)'
  BY <1>0, <1>3 DEF LogFails, Logging
<1>4. CASE Begin
  <2>1. CASE paused
    BY <1>0, <1>4, <2>1, BeginMeans DEF Begin, Calls
  <2>2. CASE ~paused
    BY <1>0, <1>4, <2>2, BeginMeans DEF Begin, Calls
  <2> QED
    BY <2>1, <2>2
<1>5. CASE Enter
  BY <1>0, <1>5 DEF Enter
<1>6. CASE Bounced
  BY <1>0, <1>6 DEF Bounced
<1>7. CASE Turn
  BY <1>0, <1>7 DEF Turn, Task
<1>8. CASE Again
  BY <1>0, <1>8 DEF Again, Goes
<1>9. ASSUME NEW r \in {"delivery", "pause", "error"}, Settle(r) PROVE (ReturnedInv /\ RowSaysOutcome)'
  BY <1>0, <1>9 DEF Settle
<1>10. CASE Claim
  BY <1>0, <1>10 DEF Claim, Outcome
<1>11. CASE Pause
  BY <1>0, <1>11 DEF Pause
<1>12. CASE Orphaned
  BY <1>0, <1>12 DEF Orphaned
<1>13. CASE Close
  BY <1>0, <1>13 DEF Close, Goes
<1>14. CASE Finish
  BY <1>0, <1>14 DEF Finish, Release, Task
<1>15. CASE FinishRun
  BY <1>0, <1>15 DEF FinishRun, Release, Task
<1>16. ASSUME NEW t \in tasks, ReadBindings(t) PROVE (ReturnedInv /\ RowSaysOutcome)'
  BY <1>0, <1>16 DEF ReadBindings
<1>17. ASSUME NEW t \in tasks, NothingToReject(t) PROVE (ReturnedInv /\ RowSaysOutcome)'
  BY <1>0, <1>17 DEF NothingToReject
<1>18. CASE Mutate
  <2>0. queue # <<>> /\ queue' = Tail(queue) /\ HeadIs(Head(queue))
    BY <1>18, Handled
  <2>1. CASE ControlOp(Head(queue)) /\ WriteControl(Head(queue).id)
    <3>0. PICK d \in Controls :
             /\ Head(queue).id = d /\ pending[d] # 0 /\ controls[d] = "none"
             /\ UNCHANGED <<bound, active, tasks, tool, told, returned>>
             /\ \/ Writable(d) /\ Accepts(d)
                \/ Refuse(d) /\ UNCHANGED <<controls, status>>
      BY <2>0, <2>1, WriteMeans
    <3>1. CASE Writable(d) /\ Accepts(d)
      BY <1>0, <3>0, <3>1, WritableMeans DEF Accepts
    <3>2. CASE Refuse(d) /\ UNCHANGED <<controls, status>>
      BY <1>0, <3>0, <3>2 DEF Refuse
    <3> QED
      BY <3>0, <3>1, <3>2
  <2>2. CASE EventOp(Head(queue)) /\ Head(queue).op = "consume" /\ Consume(Head(queue))
    BY <1>0, <2>2, EventMeans
  <2>3. CASE EventOp(Head(queue)) /\ Head(queue).op = "reject" /\ RejectQueued(Head(queue))
    BY <1>0, <2>3, EventMeans
  <2>4. CASE Head(queue).op = "start" /\ Start
    BY <1>0, <2>0, <2>4 DEF Start, Goes, HeadIs, ControlOp, EventOp, StartOp,
           CloseOp
  <2>5. CASE Head(queue).op = "resume" /\ Resume
    BY <1>0, <2>0, <2>5 DEF Resume, Goes, HeadIs, ControlOp, EventOp, StartOp,
           CloseOp
  <2>6. CASE CloseOp(Head(queue)) /\ WriteOutcome(Head(queue))
    BY <1>0, <2>0, <2>6 DEF WriteOutcome, Goes, HeadIs, ControlOp, EventOp,
           StartOp, CloseOp
  <2> QED
    BY <1>18, <2>1, <2>2, <2>3, <2>4, <2>5, <2>6, Handled
<1>19. CASE WriteFails
  <2>1. CASE UNCHANGED <<pending, target>>
    BY <1>0, <1>19, <2>1, FailMeans
  <2>2. ASSUME NEW d \in Controls, pending[d] # 0, controls[d] = "none", Refuse(d)
        PROVE  (ReturnedInv /\ RowSaysOutcome)'
    BY <1>0, <1>19, <2>2, FailMeans DEF Refuse
  <2> QED
    BY <1>19, <2>1, <2>2, FailMeans
<1> QED
  BY <1>1, <1>2, <1>3, <1>4, <1>5, <1>6, <1>7, <1>8, <1>9, <1>10, <1>11, <1>12,
         <1>13, <1>14, <1>15, <1>16, <1>17, <1>18, <1>19 DEF Next, CallStep,
         TaskStep

\* A claimed outcome stays.
LEMMA ClaimStep == ControlInv /\ Next => ClaimInv'
<1> SUFFICES ASSUME ControlInv, Next PROVE ClaimInv'
  OBVIOUS
<1> USE SubAgentsConstants DEF ClaimInv, PendingInv, PendingOf, Working, Ranges,
       InvocationIsCurrent, Controls, store, plane, tool, seen
<1>0. ClaimInv /\ PendingInv /\ Ranges /\ InvocationIsCurrent
  BY RangesHold DEF ControlInv, SubAgentsInv
<1>1. ASSUME NEW c \in Controls, Submit(c) PROVE ClaimInv'
  <2>1. UNCHANGED <<pc, paused, over, result, status>> /\ active' # None
    BY <1>1, SubmitMeans DEF Submit
  <2>2. ~(pc \in {"claimed", "closing"})
    BY <1>0, <1>1, SubmitMeans
  <2>3. ASSUME NEW e \in Cancels, pending'[e] = active'.inv PROVE active'.cancelled
    <3>1. CASE e = c
      BY <1>1, <3>1, SubmitMeans
    <3>2. CASE e # c
      <4>1. pending'[e] = pending[e] /\ active'.inv = active.inv
        BY <1>0, <1>1, <3>2, SubmitMeans
      <4> QED
        BY <1>0, <1>1, <2>3, <4>1, SubmitMeans
    <3> QED
      BY <3>1, <3>2
  <2> QED
    BY <1>0, <2>1, <2>2, <2>3
<1>2. ASSUME NEW c \in Controls, LogControl(c) PROVE ClaimInv'
  BY <1>0, <1>2 DEF LogControl, Logging
<1>3. ASSUME NEW c \in Controls, LogFails(c) PROVE ClaimInv'
  BY <1>0, <1>3 DEF LogFails, Logging
<1>4. CASE Begin
  <2>1. ASSUME NEW e \in Cancels PROVE pending[e] # active'.inv
    BY <1>0, <1>4, BeginMeans
  <2> QED
    BY <1>0, <1>4, <2>1, BeginMeans DEF Begin
<1>5. CASE Enter
  BY <1>0, <1>5 DEF Enter
<1>6. CASE Bounced
  BY <1>0, <1>6 DEF Bounced
<1>7. CASE Turn
  BY <1>0, <1>7 DEF Turn, Task
<1>8. CASE Again
  BY <1>0, <1>8 DEF Again, Goes
<1>9. ASSUME NEW r \in {"delivery", "pause", "error"}, Settle(r) PROVE ClaimInv'
  BY <1>0, <1>9 DEF Settle
<1>10. CASE Claim
  <2>1. active' # None /\ active'.claimed /\ active'.inv = active.inv
        /\ active'.cancelled = active.cancelled /\ result' = Outcome
    BY <1>0, <1>10, ClaimMeans
  <2> QED
    BY <1>0, <1>10, <2>1 DEF Claim, Outcome
<1>11. CASE Pause
  BY <1>0, <1>11 DEF Pause
<1>12. CASE Orphaned
  BY <1>0, <1>12 DEF Orphaned
<1>13. CASE Close
  BY <1>0, <1>13 DEF Close, Goes
<1>14. CASE Finish
  BY <1>0, <1>14 DEF Finish, Release, Task
<1>15. CASE FinishRun
  BY <1>0, <1>15 DEF FinishRun, Release, Task
<1>16. ASSUME NEW t \in tasks, ReadBindings(t) PROVE ClaimInv'
  BY <1>0, <1>16 DEF ReadBindings
<1>17. ASSUME NEW t \in tasks, NothingToReject(t) PROVE ClaimInv'
  BY <1>0, <1>17 DEF NothingToReject
<1>18. CASE Mutate
  <2>0. queue # <<>> /\ queue' = Tail(queue) /\ HeadIs(Head(queue))
    BY <1>18, Handled
  <2>1. CASE ControlOp(Head(queue)) /\ WriteControl(Head(queue).id)
    <3>0. PICK d \in Controls :
             /\ Head(queue).id = d /\ pending[d] # 0 /\ controls[d] = "none"
             /\ UNCHANGED <<bound, active, tasks, tool, told, returned>>
             /\ \/ Writable(d) /\ Accepts(d)
                \/ Refuse(d) /\ UNCHANGED <<controls, status>>
      BY <2>0, <2>1, WriteMeans
    <3>1. CASE Writable(d) /\ Accepts(d)
      BY <1>0, <3>0, <3>1, WritableMeans DEF Accepts
    <3>2. CASE Refuse(d) /\ UNCHANGED <<controls, status>>
      BY <1>0, <3>0, <3>2 DEF Refuse
    <3> QED
      BY <3>0, <3>1, <3>2
  <2>2. CASE EventOp(Head(queue)) /\ Head(queue).op = "consume" /\ Consume(Head(queue))
    BY <1>0, <2>2, EventMeans
  <2>3. CASE EventOp(Head(queue)) /\ Head(queue).op = "reject" /\ RejectQueued(Head(queue))
    BY <1>0, <2>3, EventMeans
  <2>4. CASE Head(queue).op = "start" /\ Start
    BY <1>0, <2>0, <2>4 DEF Start, Goes, HeadIs, ControlOp, EventOp, StartOp,
           CloseOp
  <2>5. CASE Head(queue).op = "resume" /\ Resume
    BY <1>0, <2>0, <2>5 DEF Resume, Goes, HeadIs, ControlOp, EventOp, StartOp,
           CloseOp
  <2>6. CASE CloseOp(Head(queue)) /\ WriteOutcome(Head(queue))
    <3>1. /\ pc = "closing" /\ Head(queue).outcome = result
          /\ result \in {"completed", "cancelled", "failed"}
      BY <2>0, <2>6 DEF HeadIs, ControlOp, EventOp, StartOp, CloseOp
    <3>2. ~(Head(queue).outcome = "completed" /\ status = "cancelling")
      BY <3>1 DEF ControlInv, CancellingInv
    <3> QED
      BY <1>0, <2>6, <3>1, <3>2 DEF WriteOutcome, Goes
  <2> QED
    BY <1>18, <2>1, <2>2, <2>3, <2>4, <2>5, <2>6, Handled
<1>19. CASE WriteFails
  <2>1. CASE UNCHANGED <<pending, target>>
    BY <1>0, <1>19, <2>1, FailMeans
  <2>2. ASSUME NEW d \in Controls, pending[d] # 0, controls[d] = "none", Refuse(d)
        PROVE  ClaimInv'
    BY <1>0, <1>19, <2>2, FailMeans DEF Refuse
  <2> QED
    BY <1>19, <2>1, <2>2, FailMeans
<1> QED
  BY <1>1, <1>2, <1>3, <1>4, <1>5, <1>6, <1>7, <1>8, <1>9, <1>10, <1>11, <1>12,
         <1>13, <1>14, <1>15, <1>16, <1>17, <1>18, <1>19 DEF Next, CallStep,
         TaskStep

\* A cancellation on record decides.
LEMMA DecisionStep == ControlInv /\ Next => DecisionInv'
<1> SUFFICES ASSUME ControlInv, Next PROVE DecisionInv'
  OBVIOUS
<1> USE SubAgentsConstants DEF DecisionInv, ClaimInv, PendingInv, PendingOf, ReturnedInv,
       Working, Ranges, InvocationIsCurrent, Controls, store, plane, tool, seen
<1>0. DecisionInv /\ ClaimInv /\ PendingInv /\ ReturnedInv /\ Ranges /\ InvocationIsCurrent
  BY RangesHold DEF ControlInv, SubAgentsInv
<1>1. ASSUME NEW c \in Controls, Submit(c) PROVE DecisionInv'
  BY <1>0, <1>1, SubmitMeans DEF Submit
<1>2. ASSUME NEW c \in Controls, LogControl(c) PROVE DecisionInv'
  BY <1>0, <1>2 DEF LogControl, Logging
<1>3. ASSUME NEW c \in Controls, LogFails(c) PROVE DecisionInv'
  BY <1>0, <1>3 DEF LogFails, Logging
<1>4. CASE Begin
  <2>1. CASE paused
    BY <1>0, <1>4, <2>1, BeginMeans DEF Begin, Calls
  <2>2. CASE ~paused
    BY <1>0, <1>4, <2>2, BeginMeans DEF Begin, Calls
  <2> QED
    BY <2>1, <2>2
<1>5. CASE Enter
  BY <1>0, <1>5 DEF Enter
<1>6. CASE Bounced
  BY <1>0, <1>6 DEF Bounced
<1>7. CASE Turn
  BY <1>0, <1>7 DEF Turn, Task
<1>8. CASE Again
  BY <1>0, <1>8 DEF Again, Goes
<1>9. ASSUME NEW r \in {"delivery", "pause", "error"}, Settle(r) PROVE DecisionInv'
  BY <1>0, <1>9 DEF Settle
<1>10. CASE Claim
  BY <1>0, <1>10 DEF Claim, Outcome
<1>11. CASE Pause
  BY <1>0, <1>11 DEF Pause
<1>12. CASE Orphaned
  BY <1>0, <1>12 DEF Orphaned
<1>13. CASE Close
  BY <1>0, <1>13 DEF Close, Goes
<1>14. CASE Finish
  BY <1>0, <1>14 DEF Finish, Release, Task
<1>15. CASE FinishRun
  BY <1>0, <1>15 DEF FinishRun, Release, Task
<1>16. ASSUME NEW t \in tasks, ReadBindings(t) PROVE DecisionInv'
  BY <1>0, <1>16 DEF ReadBindings
<1>17. ASSUME NEW t \in tasks, NothingToReject(t) PROVE DecisionInv'
  BY <1>0, <1>17 DEF NothingToReject
<1>18. CASE Mutate
  <2>0. queue # <<>> /\ queue' = Tail(queue) /\ HeadIs(Head(queue))
    BY <1>18, Handled
  <2>1. CASE ControlOp(Head(queue)) /\ WriteControl(Head(queue).id)
    <3>0. PICK d \in Controls :
             /\ Head(queue).id = d /\ pending[d] # 0 /\ controls[d] = "none"
             /\ UNCHANGED <<bound, active, tasks, tool, told, returned>>
             /\ \/ Writable(d) /\ Accepts(d)
                \/ Refuse(d) /\ UNCHANGED <<controls, status>>
      BY <2>0, <2>1, WriteMeans
    <3>1. CASE Writable(d) /\ Accepts(d)
      BY <1>0, <3>0, <3>1, WritableMeans DEF Accepts
    <3>2. CASE Refuse(d) /\ UNCHANGED <<controls, status>>
      BY <1>0, <3>0, <3>2 DEF Refuse
    <3> QED
      BY <3>0, <3>1, <3>2
  <2>2. CASE EventOp(Head(queue)) /\ Head(queue).op = "consume" /\ Consume(Head(queue))
    BY <1>0, <2>2, EventMeans
  <2>3. CASE EventOp(Head(queue)) /\ Head(queue).op = "reject" /\ RejectQueued(Head(queue))
    BY <1>0, <2>3, EventMeans
  <2>4. CASE Head(queue).op = "start" /\ Start
    BY <1>0, <2>0, <2>4 DEF Start, Goes, HeadIs, ControlOp, EventOp, StartOp,
           CloseOp
  <2>5. CASE Head(queue).op = "resume" /\ Resume
    BY <1>0, <2>0, <2>5 DEF Resume, Goes, HeadIs, ControlOp, EventOp, StartOp,
           CloseOp
  <2>6. CASE CloseOp(Head(queue)) /\ WriteOutcome(Head(queue))
    BY <1>0, <2>0, <2>6 DEF WriteOutcome, Goes, HeadIs, ControlOp, EventOp,
           StartOp, CloseOp
  <2> QED
    BY <1>18, <2>1, <2>2, <2>3, <2>4, <2>5, <2>6, Handled
<1>19. CASE WriteFails
  <2>1. CASE UNCHANGED <<pending, target>>
    BY <1>0, <1>19, <2>1, FailMeans
  <2>2. ASSUME NEW d \in Controls, pending[d] # 0, controls[d] = "none", Refuse(d)
        PROVE  DecisionInv'
    BY <1>0, <1>19, <2>2, FailMeans DEF Refuse
  <2> QED
    BY <1>19, <2>1, <2>2, FailMeans
<1> QED
  BY <1>1, <1>2, <1>3, <1>4, <1>5, <1>6, <1>7, <1>8, <1>9, <1>10, <1>11, <1>12,
         <1>13, <1>14, <1>15, <1>16, <1>17, <1>18, <1>19 DEF Next, CallStep,
         TaskStep

\* The row is being cancelled for the call under way.
LEMMA CancellingStep == ControlInv /\ Next => CancellingInv'
<1> SUFFICES ASSUME ControlInv, Next PROVE CancellingInv'
  OBVIOUS
<1> USE SubAgentsConstants DEF CancellingInv, ClaimInv, Ranges, Working, InvocationIsCurrent,
       Controls, store, plane, tool, seen
<1>0. CancellingInv /\ ClaimInv /\ Ranges /\ InvocationIsCurrent
  BY RangesHold DEF ControlInv, SubAgentsInv
<1>1. ASSUME NEW c \in Controls, Submit(c) PROVE CancellingInv'
  <2>1. Resuming' => Resuming
    BY <1>1, ResumingPushed DEF Submit
  <2> QED
    BY <1>0, <1>1, <2>1, SubmitMeans DEF Submit
<1>2. ASSUME NEW c \in Controls, LogControl(c) PROVE CancellingInv'
  BY <1>0, <1>2, ResumingKept DEF LogControl, Logging
<1>3. ASSUME NEW c \in Controls, LogFails(c) PROVE CancellingInv'
  BY <1>0, <1>3, ResumingKept DEF LogFails, Logging
<1>4. CASE Begin
  BY <1>0, <1>4, ResumingKept, ResumingStarts DEF Begin
<1>5. CASE Enter
  <2>1. status = "cancelling" => (Resuming' => Resuming)
    BY <1>5, ResumingPushed DEF Enter
  <2> QED
    BY <1>0, <1>5, <2>1 DEF Enter
<1>6. CASE Bounced
  BY <1>0, <1>6, ResumingKept DEF Bounced
<1>7. CASE Turn
  BY <1>0, <1>7, ResumingKept DEF Turn, Task
<1>8. CASE Again
  BY <1>0, <1>8, ResumingKept DEF Again, Goes
<1>9. ASSUME NEW r \in {"delivery", "pause", "error"}, Settle(r) PROVE CancellingInv'
  BY <1>0, <1>9, ResumingKept DEF Settle
<1>10. CASE Claim
  BY <1>0, <1>10, ClaimMeans, ResumingKept DEF Claim
<1>11. CASE Pause
  BY <1>0, <1>11, ResumingKept DEF Pause
<1>12. CASE Orphaned
  BY <1>0, <1>12, ResumingKept DEF Orphaned
<1>13. CASE Close
  <2>1. Resuming' => Resuming
    BY <1>13, ResumingPushed DEF Close
  <2> QED
    BY <1>0, <1>13, <2>1 DEF Close, Goes
<1>14. CASE Finish
  BY <1>0, <1>14, ResumingKept, ResumingStarts DEF Finish
<1>15. CASE FinishRun
  BY <1>0, <1>15, ResumingKept DEF FinishRun, Release, Task
<1>16. ASSUME NEW t \in tasks, ReadBindings(t) PROVE CancellingInv'
  <2>1. t.op # "resume"
    BY <1>16 DEF ControlInv, SubAgentsInv, TypeOK
  <2>2. Resuming' => Resuming
    BY <1>16, <2>1, ResumingPushed DEF ReadBindings
  <2> QED
    BY <1>0, <1>16, <2>2 DEF ReadBindings
<1>17. ASSUME NEW t \in tasks, NothingToReject(t) PROVE CancellingInv'
  BY <1>0, <1>17, ResumingKept DEF NothingToReject
<1>18. CASE Mutate
  <2>0. queue # <<>> /\ queue' = Tail(queue) /\ HeadIs(Head(queue))
    BY <1>18, Handled
  <2>1. CASE ControlOp(Head(queue)) /\ WriteControl(Head(queue).id)
    <3>r. Resuming' => Resuming
      BY <2>0, ResumingPopped
    <3>0. PICK d \in Controls :
             /\ Head(queue).id = d /\ pending[d] # 0 /\ controls[d] = "none"
             /\ UNCHANGED <<bound, active, tasks, tool, told, returned>>
             /\ \/ Writable(d) /\ Accepts(d)
                \/ Refuse(d) /\ UNCHANGED <<controls, status>>
      BY <2>0, <2>1, WriteMeans
    <3>1. CASE Writable(d) /\ Accepts(d)
      BY <1>0, <3>0, <3>r, <3>1, WritableMeans DEF Accepts
    <3>2. CASE Refuse(d) /\ UNCHANGED <<controls, status>>
      BY <1>0, <3>0, <3>r, <3>2 DEF Refuse
    <3> QED
      BY <3>0, <3>r, <3>1, <3>2
  <2>2. CASE EventOp(Head(queue)) /\ Head(queue).op = "consume" /\ Consume(Head(queue))
    <3>1. ASSUME NEW c \in Controls, controls[c] = "delivered" PROVE controls'[c] = "delivered"
      BY <2>2, <3>1, EventMeans
    <3>r. Resuming' => Resuming
      BY <2>0, ResumingPopped
    <3> QED
      BY <1>0, <2>2, <3>1, <3>r, EventMeans
  <2>3. CASE EventOp(Head(queue)) /\ Head(queue).op = "reject" /\ RejectQueued(Head(queue))
    <3>1. ASSUME NEW c \in Controls, controls[c] = "delivered" PROVE controls'[c] = "delivered"
      BY <2>3, <3>1, EventMeans
    <3>r. Resuming' => Resuming
      BY <2>0, ResumingPopped
    <3> QED
      BY <1>0, <2>3, <3>1, <3>r, EventMeans
  <2>4. CASE Head(queue).op = "start" /\ Start
    BY <2>4 DEF Start
  <2>5. CASE Head(queue).op = "resume" /\ Resume
    <3>1. Resuming
      BY <2>0, <2>5, HeadSound DEF Resuming
    <3> QED
      BY <1>0, <2>5, <3>1 DEF Resume, Goes
  <2>6. CASE CloseOp(Head(queue)) /\ WriteOutcome(Head(queue))
    <3>1. ~Resuming'
      BY <2>0, <2>6, ResumingPopped, ResumingStarts DEF HeadIs, ControlOp, EventOp, StartOp, CloseOp
    <3> QED
      BY <2>6, <3>1 DEF WriteOutcome, Goes
  <2> QED
    BY <1>18, <2>1, <2>2, <2>3, <2>4, <2>5, <2>6, Handled
<1>19. CASE WriteFails
  <2>r. Resuming' => Resuming
    BY <1>19, ResumingPopped DEF WriteFails
  <2>1. CASE UNCHANGED <<pending, target>>
    BY <1>0, <1>19, <2>r, <2>1, FailMeans
  <2>2. ASSUME NEW d \in Controls, pending[d] # 0, controls[d] = "none", Refuse(d)
        PROVE  CancellingInv'
    BY <1>0, <1>19, <2>r, <2>2, FailMeans DEF Refuse
  <2> QED
    BY <1>19, <2>1, <2>2, FailMeans
<1> QED
  BY <1>1, <1>2, <1>3, <1>4, <1>5, <1>6, <1>7, <1>8, <1>9, <1>10, <1>11, <1>12,
         <1>13, <1>14, <1>15, <1>16, <1>17, <1>18, <1>19 DEF Next, CallStep,
         TaskStep

-----------------------------------------------------------------------------
(* The queue of mutations: what waits stays sound, one write of a kind      *)

\* A write that waits stays sound until its turn comes.
LEMMA SoundStep ==
    ASSUME ControlInv, Next, NEW n \in Op, Sound(n),
           queue # <<>> /\ queue' = Tail(queue) => ~Clash(n, Head(queue))
    PROVE  Sound(n)'
<1> USE SubAgentsConstants DEF Sound, RecordedInOrder, Ranges, store, plane, tool, seen
<1>0. Sound(n) /\ RecordedInOrder /\ Ranges
  BY RangesHold DEF ControlInv, SubAgentsInv
<1>1. ASSUME NEW c \in Controls, Submit(c) PROVE Sound(n)'
  <2>1. pending' = [pending EXCEPT ![c] = begun] /\ begun # 0
    BY <1>1, SubmitMeans
  <2>2. n.op = "control" => n.id \in Controls
    BY Kinds DEF ControlOp, EventOp, StartOp, CloseOp
  <2> QED
    BY <1>0, <1>1, <2>1, <2>2 DEF Submit
<1>2. ASSUME NEW c \in Controls, LogControl(c) PROVE Sound(n)'
  BY <1>0, <1>2, Kinds DEF LogControl, Logging, ControlOp
<1>3. ASSUME NEW c \in Controls, LogFails(c) PROVE Sound(n)'
  BY <1>0, <1>3, Kinds DEF LogFails, Logging, ControlOp
<1>4. CASE Begin
  BY <1>0, <1>4 DEF Begin
<1>5. CASE Enter
  BY <1>0, <1>5 DEF Enter
<1>6. CASE Bounced
  BY <1>0, <1>6 DEF Bounced
<1>7. CASE Turn
  BY <1>0, <1>7 DEF Turn, Task
<1>8. CASE Again
  BY <1>0, <1>8 DEF Again, Goes
<1>9. ASSUME NEW r \in {"delivery", "pause", "error"}, Settle(r) PROVE Sound(n)'
  BY <1>0, <1>9 DEF Settle
<1>10. CASE Claim
  BY <1>0, <1>10 DEF Claim, Outcome
<1>11. CASE Pause
  BY <1>0, <1>11 DEF Pause
<1>12. CASE Orphaned
  BY <1>0, <1>12 DEF Orphaned
<1>13. CASE Close
  BY <1>0, <1>13 DEF Close, Goes
<1>14. CASE Finish
  BY <1>0, <1>14 DEF Finish, Release, Task
<1>15. CASE FinishRun
  BY <1>0, <1>15 DEF FinishRun, Release, Task
<1>16. ASSUME NEW t \in tasks, ReadBindings(t) PROVE Sound(n)'
  BY <1>0, <1>16 DEF ReadBindings
<1>17. ASSUME NEW t \in tasks, NothingToReject(t) PROVE Sound(n)'
  BY <1>0, <1>17 DEF NothingToReject
<1>18. CASE Mutate
  <2>0. queue # <<>> /\ queue' = Tail(queue) /\ HeadIs(Head(queue))
    BY <1>18, Handled
  <2>h. ~Clash(n, Head(queue))
    BY <2>0
  <2>1. CASE ControlOp(Head(queue)) /\ WriteControl(Head(queue).id)
    <3>0. PICK d \in Controls :
             /\ Head(queue).id = d /\ pending[d] # 0 /\ controls[d] = "none"
             /\ UNCHANGED <<bound, active, tasks, tool, told, returned>>
             /\ \/ Writable(d) /\ Accepts(d)
                \/ Refuse(d) /\ UNCHANGED <<controls, status>>
      BY <2>0, <2>1, WriteMeans
    <3>1. n.op = "control" => n.id # d
      BY <2>h, <2>1, <3>0 DEF Clash, ControlOp
    <3>2. CASE Writable(d) /\ Accepts(d)
      BY <1>0, <3>0, <3>1, <3>2, Kinds DEF Accepts, ControlOp
    <3>3. CASE Refuse(d) /\ UNCHANGED <<controls, status>>
      BY <1>0, <3>0, <3>1, <3>3, Kinds DEF Refuse, ControlOp
    <3> QED
      BY <3>0, <3>2, <3>3
  <2>2. CASE EventOp(Head(queue)) /\ Head(queue).op = "consume" /\ Consume(Head(queue))
    <3>1. n.op # "control" \/ n.id \in Controls
      BY Kinds DEF ControlOp, EventOp, StartOp, CloseOp
    <3>2. pc # "consuming" => pc' = pc
      BY <2>2, EventMeans
    <3>3. UNCHANGED <<bound, pending, result>>
      BY <2>2, EventMeans
    <3>4. \A c \in Controls : controls'[c] = "none" <=> controls[c] = "none"
      BY <2>2, EventMeans
    <3> QED
      BY <1>0, <3>1, <3>2, <3>3, <3>4
  <2>3. CASE EventOp(Head(queue)) /\ Head(queue).op = "reject" /\ RejectQueued(Head(queue))
    <3>1. n.op # "control" \/ n.id \in Controls
      BY Kinds DEF ControlOp, EventOp, StartOp, CloseOp
    <3>2. pc # "consuming" => pc' = pc
      BY <2>3, EventMeans
    <3>3. UNCHANGED <<bound, pending, result>>
      BY <2>3, EventMeans
    <3>4. \A c \in Controls : controls'[c] = "none" <=> controls[c] = "none"
      BY <2>3, EventMeans
    <3> QED
      BY <1>0, <3>1, <3>2, <3>3, <3>4
  <2>4. CASE Head(queue).op = "start" /\ Start
    BY <1>0, <2>0, <2>h, <2>4 DEF Start, Goes, Clash, HeadIs, ControlOp, EventOp, StartOp, CloseOp
  <2>5. CASE Head(queue).op = "resume" /\ Resume
    BY <1>0, <2>0, <2>h, <2>5 DEF Resume, Goes, Clash, HeadIs, ControlOp, EventOp, StartOp, CloseOp
  <2>6. CASE CloseOp(Head(queue)) /\ WriteOutcome(Head(queue))
    BY <1>0, <2>0, <2>h, <2>6 DEF WriteOutcome, Goes, Clash, HeadIs, ControlOp, EventOp, StartOp,
           CloseOp
  <2> QED
    BY <1>18, <2>1, <2>2, <2>3, <2>4, <2>5, <2>6, Handled
<1>19. CASE WriteFails
  <2>h. queue # <<>> /\ ~Clash(n, Head(queue)) /\ HeadIs(Head(queue))
    BY <1>19, HeadSound DEF WriteFails
  <2>i. n.op = "control" => n.id \in Controls
    BY Kinds DEF ControlOp, EventOp, StartOp, CloseOp
  <2>1. n.op = "control" => pending'[n.id] # 0
    <3>1. CASE Head(queue).op = "control"
      <4>1. Refuse(Head(queue).id) /\ Head(queue).id \in Controls
        BY <1>19, <2>h, <3>1, HeadControl DEF WriteFails
      <4>2. n.op = "control" => n.id # Head(queue).id
        BY <2>h, <3>1 DEF Clash
      <4> QED
        BY <1>0, <2>i, <4>1, <4>2 DEF Refuse
    <3>2. CASE Head(queue).op # "control"
      BY <1>0, <1>19, <3>2 DEF WriteFails
    <3> QED
      BY <3>1, <3>2
  <2>2. n.op \in {"start", "resume", "close"} => UNCHANGED <<pc, result>>
    BY <1>0, <1>19, <2>h DEF WriteFails, Awaited, Clash
  <2> QED
    BY <1>0, <1>19, <2>1, <2>2 DEF WriteFails
<1> QED
  BY <1>1, <1>2, <1>3, <1>4, <1>5, <1>6, <1>7, <1>8, <1>9, <1>10, <1>11, <1>12,
         <1>13, <1>14, <1>15, <1>16, <1>17, <1>18, <1>19 DEF Next, CallStep,
         TaskStep

\* The invariant of the queue, place by place.
LEMMA QueueMembers ==
    ASSUME ControlInv
    PROVE  /\ queue \in Seq(Op)
           /\ \A i \in DOMAIN queue : queue[i] \in Op /\ Sound(queue[i])
           /\ \A i, j \in DOMAIN queue : Clash(queue[i], queue[j]) => i = j
<1>1. queue \in Seq(Op)
  BY DEF ControlInv, SubAgentsInv, TypeOK
<1>2. \A i \in DOMAIN queue : queue[i] \in Op
  BY <1>1
<1> QED
  BY <1>1, <1>2 DEF ControlInv, QueueInv

\* A step that leaves the queue alone keeps what waits sound.
LEMMA QueueKept ==
    ASSUME ControlInv, Next, UNCHANGED queue
    PROVE  QueueInv'
<1>1. queue # <<>> => queue # Tail(queue)
  <2>1. ASSUME NEW q \in Seq(Op), q # <<>> PROVE Len(Tail(q)) # Len(q)
    BY <2>1
  <2> QED
    BY <2>1, QueueMembers
<1>2. ASSUME NEW i \in DOMAIN queue PROVE Sound(queue[i])'
  <2> DEFINE n == queue[i]
  <2>1. n \in Op /\ Sound(n)
    BY QueueMembers
  <2> QED
    BY <1>1, <2>1, SoundStep
<1> QED
  BY <1>2, QueueMembers DEF QueueInv, Clash

\* A new sound write that clashes with none keeps the invariant of the queue.
LEMMA QueuePushed ==
    ASSUME ControlInv, Next, NEW m \in Op, queue' = Append(queue, m), Sound(m)',
           \A i \in DOMAIN queue : ~Clash(queue[i], m)
    PROVE  QueueInv'
<1>1. queue # <<>> => queue' # Tail(queue)
  <2>1. ASSUME NEW q \in Seq(Op), q # <<>> PROVE Len(Tail(q)) # Len(Append(q, m))
    BY <2>1
  <2> QED
    BY <2>1, QueueMembers
<1>2. ASSUME NEW n \in Op, Sound(n) PROVE Sound(n)'
  BY <1>1, <1>2, SoundStep
<1>3. \A i \in DOMAIN queue' :
         \/ i \in DOMAIN queue /\ queue'[i] = queue[i]
         \/ i = Len(queue) + 1 /\ i \notin DOMAIN queue /\ queue'[i] = m
  <2>1. \A q \in Seq(Op) : \A i \in DOMAIN Append(q, m) :
           \/ i \in DOMAIN q /\ Append(q, m)[i] = q[i]
           \/ i = Len(q) + 1 /\ i \notin DOMAIN q /\ Append(q, m)[i] = m
    BY Pushed
  <2> QED
    BY <2>1, QueueMembers
<1>4. ASSUME NEW i \in DOMAIN queue' PROVE Sound(queue[i])'
  <2>1. CASE queue'[i] = m
    BY <2>1 DEF Sound
  <2>2. CASE i \in DOMAIN queue /\ queue'[i] = queue[i]
    <3>1. PICK n \in Op : n = queue[i] /\ Sound(n)
      BY <2>2, QueueMembers
    <3>2. Sound(n)'
      BY <1>2, <3>1
    <3> QED
      BY <2>2, <3>1, <3>2 DEF Sound
  <2> QED
    BY <1>3, <2>1, <2>2
<1>5. ASSUME NEW i \in DOMAIN queue', NEW j \in DOMAIN queue', Clash(queue'[i], queue'[j])
      PROVE  i = j
  <2>1. \A n : Clash(n, m) <=> Clash(m, n)
    BY DEF Clash
  <2> QED
    BY <1>3, <1>5, <2>1, QueueMembers
<1> QED
  BY <1>4, <1>5 DEF QueueInv, Clash

\* What waits behind the head does not clash with it, and stays sound.
LEMMA QueuePopped ==
    ASSUME ControlInv, Next, queue # <<>>, queue' = Tail(queue)
    PROVE  QueueInv'
<1>1. /\ 1 \in DOMAIN queue /\ Head(queue) = queue[1]
      /\ \A i \in DOMAIN queue' :
            i \in Nat /\ i + 1 \in DOMAIN queue /\ i + 1 # 1 /\ queue'[i] = queue[i + 1]
  <2>1. \A q \in Seq(Op) : q # <<>> =>
           /\ 1 \in DOMAIN q /\ Head(q) = q[1]
           /\ \A i \in DOMAIN Tail(q) :
                 i \in Nat /\ i + 1 \in DOMAIN q /\ i + 1 # 1 /\ Tail(q)[i] = q[i + 1]
    BY Popped
  <2> QED
    BY <2>1, QueueMembers
<1>2. ASSUME NEW i \in DOMAIN queue' PROVE Sound(queue[i])'
  <2>1. PICK n \in Op : n = queue[i + 1] /\ Sound(n) /\ ~Clash(n, Head(queue))
    BY <1>1, QueueMembers
  <2>2. Sound(n)'
    BY <2>1, SoundStep
  <2> QED
    BY <1>1, <2>1, <2>2 DEF Sound
<1>3. ASSUME NEW i \in DOMAIN queue', NEW j \in DOMAIN queue', Clash(queue'[i], queue'[j])
      PROVE  i = j
  <2>1. i + 1 = j + 1
    BY <1>1, <1>3, QueueMembers
  <2> QED
    BY <1>1, <2>1
<1> QED
  BY <1>2, <1>3 DEF QueueInv, Clash

\* The queue holds only sound writes after every step.
LEMMA QueueStep == ControlInv /\ Next => QueueInv'
<1> SUFFICES ASSUME ControlInv, Next PROVE QueueInv'
  OBVIOUS
<1>1. ASSUME NEW c \in Controls, Submit(c) PROVE QueueInv'
  <2> DEFINE m == [op |-> "control", id |-> c]
  <2>1. m \in Op
    BY DEF Op
  <2>2. queue' = Append(queue, m) /\ pending[c] = 0
    BY <1>1 DEF Submit, Fresh
  <2>3. Sound(m)'
    <3>1. pending'[c] # 0 /\ controls'[c] = "none"
      BY <1>1, SubmitMeans, RangesHold DEF Submit, store, Ranges
    <3> QED
      BY <3>1 DEF Sound
  <2>4. ASSUME NEW i \in DOMAIN queue PROVE ~Clash(queue[i], m)
    <3>1. queue[i].op = "control" => queue[i].id # c
      BY <2>2, QueueMembers DEF Sound
    <3> QED
      BY <3>1 DEF Clash
  <2> QED
    BY <2>1, <2>2, <2>3, <2>4, QueuePushed
<1>2. CASE Enter
  <2>0. PICK m \in Op : m = [op |-> IF paused THEN "resume" ELSE "start"]
    <3>1. CASE paused
      BY <3>1 DEF Op
    <3>2. CASE ~paused
      BY <3>2 DEF Op
    <3> QED
      BY <3>1, <3>2
  <2>1. m.op \in {"start", "resume"}
    BY <2>0
  <2>2. queue' = Append(queue, m) /\ pc = "begun" /\ pc' = "starting"
    BY <1>2, <2>0 DEF Enter
  <2>3. Sound(m)'
    BY <2>1, <2>2 DEF Sound
  <2>4. ASSUME NEW i \in DOMAIN queue PROVE ~Clash(queue[i], m)
    BY <2>1, <2>2, QueueMembers DEF Sound, Clash
  <2> QED
    BY <2>1, <2>2, <2>3, <2>4, QueuePushed
<1>3. CASE Close
  <2>1. PICK m \in Op : m = [op |-> "close", outcome |-> result]
    BY <1>3 DEF Op, Close, ControlInv, ToolTypes
  <2>2. queue' = Append(queue, m) /\ pc = "claimed" /\ pc' = "closing" /\ result' = result
    BY <1>3, <2>1 DEF Close, Goes
  <2>3. Sound(m)'
    BY <2>1, <2>2 DEF Sound
  <2>4. ASSUME NEW i \in DOMAIN queue PROVE ~Clash(queue[i], m)
    BY <2>1, <2>2, QueueMembers DEF Sound, Clash
  <2> QED
    BY <2>1, <2>2, <2>3, <2>4, QueuePushed
<1>4. ASSUME NEW t \in tasks, ReadBindings(t) PROVE QueueInv'
  <2>0. PICK m \in Op : m = [op |-> t.op, inv |-> t.inv, call |-> t.call, bindings |-> bound]
    BY DEF Op, ControlInv, SubAgentsInv, TypeOK, ToolTypes
  <2>1. m.op \in {"consume", "reject"} /\ m.bindings = bound
    BY <2>0 DEF ControlInv, ToolTypes
  <2>2. queue' = Append(queue, m) /\ bound' = bound
    BY <1>4, <2>0 DEF ReadBindings, store
  <2>3. Sound(m)'
    BY <2>1, <2>2 DEF Sound
  <2>4. ASSUME NEW i \in DOMAIN queue PROVE ~Clash(queue[i], m)
    BY <2>1 DEF Clash
  <2> QED
    BY <2>1, <2>2, <2>3, <2>4, QueuePushed
<1>5. CASE Mutate \/ WriteFails
  BY <1>5, QueuePopped DEF Mutate, WriteFails
<1>6. ASSUME NEW c \in Controls, LogControl(c) \/ LogFails(c) PROVE QueueInv'
  BY <1>6, QueueKept DEF LogControl, LogFails
<1>7. CASE Begin \/ Bounced \/ Turn \/ Again \/ Claim \/ Pause \/ Orphaned
  BY <1>7, QueueKept DEF Begin, Bounced, Turn, Again, Claim, Pause, Orphaned, plane
<1>8. ASSUME NEW r \in {"delivery", "pause", "error"}, Settle(r) PROVE QueueInv'
  BY <1>8, QueueKept DEF Settle, plane
<1>9. CASE Finish \/ FinishRun
  BY <1>9, QueueKept DEF Finish, FinishRun
<1>10. ASSUME NEW t \in tasks, NothingToReject(t) PROVE QueueInv'
  BY <1>10, QueueKept DEF NothingToReject
<1> QED
  BY <1>1, <1>2, <1>3, <1>4, <1>5, <1>6, <1>7, <1>8, <1>9, <1>10 DEF Next, CallStep, TaskStep

-----------------------------------------------------------------------------
(* The theorems                                                             *)

\* The invariant holds before anything has happened.
LEMMA ControlInit == Init => ControlInv
<1> SUFFICES ASSUME Init PROVE ControlInv
  OBVIOUS
<1> USE SubAgentsConstants DEF Init, None, Unread
<1>1. TypeOK
  BY DEF TypeOK
<1>8. ToolTypes
  <2>1. <<>> \in Seq(Calls) /\ 0 \in 0..MaxCalls
    OBVIOUS
  <2> QED
    BY <2>1 DEF ToolTypes
<1>2. InvocationIsCurrent /\ RecordedInOrder /\ RowSaysOutcome
  BY DEF InvocationIsCurrent, RecordedInOrder, RowSaysOutcome
<1>3. CancellingIsMeant /\ CancellingInv
  BY DEF CancellingIsMeant, CancellingInv, Working
<1>4. QueueInv
  BY DEF QueueInv
<1>5. PendingInv /\ ToldInv
  BY DEF PendingInv, PendingOf, ToldInv
<1>6. ClaimInv /\ ReturnedInv
  BY DEF ClaimInv, ReturnedInv, Controls, Working
<1>7. DecisionInv
  BY DEF DecisionInv, Controls
<1> QED
  BY <1>1, <1>2, <1>3, <1>4, <1>5, <1>6, <1>7, <1>8 DEF ControlInv, SubAgentsInv

\* A step in which nothing happens.
LEMMA ControlStutter == ControlInv /\ UNCHANGED vars => ControlInv'
<1> SUFFICES ASSUME ControlInv, UNCHANGED vars PROVE ControlInv'
  OBVIOUS
<1> USE DEF vars, store, plane, tool, seen
<1>1. SubAgentsInv' /\ ToolTypes'
  BY DEF ControlInv, SubAgentsInv, TypeOK, ToolTypes, InvocationIsCurrent, RecordedInOrder,
         CancellingIsMeant,
         RowSaysOutcome
<1>2. QueueInv' /\ PendingInv' /\ ToldInv'
  BY DEF ControlInv, QueueInv, Sound, PendingInv, PendingOf, ToldInv
<1>3. CancellingInv' /\ ClaimInv' /\ DecisionInv' /\ ReturnedInv'
  BY DEF ControlInv, CancellingInv, Resuming, ClaimInv, DecisionInv, ReturnedInv
<1> QED
  BY <1>1, <1>2, <1>3 DEF ControlInv

\* The inductive invariant: what is known of the writes that wait, of what waits
\* for them, and of the invocation that a cancellation has met.
THEOREM ControlInductive == Spec => []ControlInv
<1>1. Init => ControlInv
  BY ControlInit
<1>2. ControlInv /\ [Next]_vars => ControlInv'
  <2>1. ControlInv /\ Next => ControlInv'
    <3> SUFFICES ASSUME ControlInv, Next PROVE ControlInv'
      OBVIOUS
    <3>1. CancellingIsMeant'
      BY CancellingStep DEF CancellingInv, CancellingIsMeant, Working
    <3>2. SubAgentsInv'
      BY <3>1, TypesStep, InvocationStep, RecordedStep, ReturnedStep DEF SubAgentsInv
    <3> QED
      BY <3>2, TypesStep, QueueStep, PendingStep, ToldStep, CancellingStep, ClaimStep, DecisionStep,
         ReturnedStep DEF ControlInv
  <2> QED
    BY <2>1, ControlStutter
<1> QED
  BY <1>1, <1>2, PTL DEF Spec

\* The invocation in memory is that of the call under way, a control is bound to
\* the call it was sent to, an agent that works is shown as being cancelled only
\* if its present call was, and the row says what the parent was told.
THEOREM SubAgentsTheorem == Spec => []SubAgentsInv
<1>1. ControlInv => SubAgentsInv
  BY DEF ControlInv
<1> QED
  BY <1>1, ControlInductive, PTL

\* A control reaches a model once at most, and only in the call it was sent to
\* (consumeInstructions).
THEOREM ToldTheorem == Spec => []ToldOnlyItsCall
<1>1. ControlInv => ToldOnlyItsCall
  <2> SUFFICES ASSUME ControlInv, NEW c \in Controls
               PROVE  Len(told[c]) <= 1 /\ \A i \in DOMAIN told[c] : told[c][i] = target[c]
    BY DEF ToldOnlyItsCall
  <2>1. CASE told[c] = <<>>
    BY <2>1
  <2>2. CASE told[c] = <<target[c]>>
    <3>1. \A x : Len(<<x>>) = 1 /\ \A i \in DOMAIN <<x>> : <<x>>[i] = x
      OBVIOUS
    <3> QED
      BY <2>2, <3>1
  <2> QED
    BY <2>1, <2>2 DEF ControlInv, ToldInv
<1> QED
  BY <1>1, ControlInductive, PTL

\* A call whose cancellation was accepted is not reported as completed or failed
\* (claimTerminalOutcome).
THEOREM CancelTheorem == Spec => []CancelDecides
<1>1. ControlInv => CancelDecides
  <2> SUFFICES ASSUME ControlInv, NEW c \in Cancels, bound[c] # 0
               PROVE  returned[bound[c]] \in {"none", "cancelled", "error"}
    BY DEF CancelDecides
  <2>1. controls[c] # "none" /\ bound[c] = target[c]
    BY DEF ControlInv, SubAgentsInv, RecordedInOrder, Controls
  <2> QED
    BY <2>1 DEF ControlInv, DecisionInv
<1> QED
  BY <1>1, ControlInductive, PTL

=============================================================================
