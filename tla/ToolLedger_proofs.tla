-------------------------- MODULE ToolLedger_proofs --------------------------
(***************************************************************************)
(* Proofs about the recovery ledger of tool calls, for any number of calls, *)
(* sub-agents and calls inside them.                                        *)
(***************************************************************************)
EXTENDS ToolLedger, TLAPS

\* The executor of a fresh run has no call in doubt.
LEMMA InitInv == Init => LedgerInv
BY ToolLedgerConstants
   DEF Init, LedgerInv, TypeOK, Alive, Lives, EffectInDoubtIsBooked, EffectRunsOnce,
       LedgerIsDurable, MemoryIsSound, DoubtIsTracked, FlightIsSound, Idle, InDoubt,
       Booking, Calls, Early, Op

\* What is pushed on the chain is an operation.
LEMMA PushType ==
    ASSUME TypeOK, NEW kind \in {"mark", "unmark", "accept"}, NEW ids \in SUBSET Calls,
           Push(kind, ids)
    PROVE  ops' \in Seq(Op)
<1>1. [kind |-> kind, ids |-> ids] \in Op
  BY DEF Op
<1> QED
  BY <1>1 DEF TypeOK, Push

\* Every action keeps the types.
LEMMA TypeStep == TypeOK /\ [Next]_vars => TypeOK'
<1> SUFFICES ASSUME TypeOK, [Next]_vars PROVE TypeOK'
  OBVIOUS
<1> USE ToolLedgerConstants DEF TypeOK, Alive, Lives
<1>1. CASE Checkpoint
  <2>1. ops' \in Seq(Op)
    BY <1>1, PushType DEF Checkpoint
  <2> QED
    BY <1>1, <2>1 DEF Checkpoint, calls
<1>2. CASE Ask
  BY <1>2 DEF Ask, Outer, Calls, durable, chain
<1>3. CASE Answer
  BY <1>3 DEF Answer, durable, chain, calls
<1>4. CASE EndTurn
  BY <1>4 DEF EndTurn, Turn, Outer, Calls, durable, chain
<1>5. CASE Settle
  BY <1>5 DEF Settle, chain, calls
<1>6. CASE Fail
  BY <1>6 DEF Fail, chain, calls
<1>7. ASSUME NEW c \in Calls, AskInner(c) PROVE TypeOK'
  BY <1>7 DEF AskInner, durable, chain
<1>8. ASSUME NEW c \in Calls, Dispatch(c) PROVE TypeOK'
  <2>1. ops' \in Seq(Op)
    BY <1>8, PushType DEF Dispatch, Calls
  <2> QED
    BY <1>8, <2>1 DEF Dispatch, durable
<1>9. ASSUME NEW c \in Calls, Refuse(c) PROVE TypeOK'
  BY <1>9 DEF Refuse, durable, chain
<1>10. ASSUME NEW c \in Calls, Start(c) PROVE TypeOK'
  BY <1>10 DEF Start, durable, chain
<1>11. ASSUME NEW c \in Calls, Finish(c) PROVE TypeOK'
  <2>1. ops' \in Seq(Op)
    BY <1>11, PushType DEF Finish, Calls
  <2> QED
    BY <1>11, <2>1 DEF Finish, durable
<1>12. ASSUME NEW c \in Calls, Project(c) PROVE TypeOK'
  <2>1. ops' \in Seq(Op)
    BY <1>12, PushType DEF Project, Calls
  <2> QED
    BY <1>12, <2>1 DEF Project, durable
<1>13. CASE Apply
  <2>1. Head(ops) \in Op /\ Tail(ops) \in Seq(Op)
    BY <1>13 DEF Apply
  <2>2. After(Head(ops)) \in SUBSET Calls
    BY <2>1 DEF After, Op
  <2> QED
    BY <1>13, <2>1, <2>2 DEF Apply, Resumed
<1>14. CASE WriteFails
  <2>1. Head(ops) \in Op /\ Tail(ops) \in Seq(Op)
    BY <1>14 DEF WriteFails
  <2>2. After(Head(ops)) \in SUBSET Calls
    BY <2>1 DEF After, Op
  <2> QED
    BY <1>14, <2>1, <2>2 DEF WriteFails, Resumed
<1>15. CASE Crash
  BY <1>15 DEF Crash, durable, Op
<1>16. CASE Restart
  BY <1>16 DEF Restart, chain, calls
<1>17. CASE Resume
  BY <1>17 DEF Resume
<1>18. CASE UNCHANGED vars
  BY <1>18 DEF vars, durable, chain, calls
<1> QED
  BY <1>1, <1>2, <1>3, <1>4, <1>5, <1>6, <1>7, <1>8, <1>9, <1>10, <1>11, <1>12,
     <1>13, <1>14, <1>15, <1>16, <1>17, <1>18 DEF Next

\* Every reachable state of the model is well-typed.
THEOREM LedgerTypeCorrect == Spec => []TypeOK
<1>1. Init => TypeOK
  BY InitInv DEF LedgerInv
<1> QED
  BY <1>1, TypeStep, PTL DEF Spec
(* A step of each action keeps the invariant.                              *)

Safe == /\ EffectInDoubtIsBooked /\ EffectRunsOnce /\ LedgerIsDurable
        /\ MemoryIsSound /\ DoubtIsTracked /\ FlightIsSound

\* What the operation at the head of the chain can do to the ledger: it takes a
\* call of the platform out only when a checkpoint has the call's result.
LEMMA HeadIsSound ==
    ASSUME LedgerInv, ops # << >>
    PROVE  /\ Head(ops) \in Op /\ Len(ops) > 0
           /\ \A k \in 1..Len(Tail(ops)) : Tail(ops)[k] = ops[k + 1] /\ k + 1 \in 1..Len(ops)
           /\ ledger \cap Platform \subseteq After(Head(ops)) \cup saved
           /\ Head(ops).kind # "accept" => ledger \cap Platform \subseteq After(Head(ops))
           /\ Head(ops).kind = "mark" => Head(ops).ids \subseteq After(Head(ops))
<1>1. Head(ops) \in Op /\ Len(ops) > 0 /\ Head(ops) = ops[1]
  BY DEF LedgerInv, TypeOK
<1>2. \A k \in 1..Len(Tail(ops)) : Tail(ops)[k] = ops[k + 1] /\ k + 1 \in 1..Len(ops)
  BY <1>1 DEF LedgerInv, TypeOK
<1>3. /\ Head(ops).kind = "unmark" => Head(ops).ids \subseteq Inner
      /\ Head(ops).kind = "accept" => Head(ops).ids \subseteq saved
  BY <1>1 DEF LedgerInv, MemoryIsSound
<1> QED
  BY <1>1, <1>2, <1>3, ToolLedgerConstants DEF After, Op

\* A checkpoint settles the calls of the history in the row and in the RunState.
LEMMA CheckpointStep ==
    ASSUME LedgerInv, TypeOK', Checkpoint
    PROVE  Safe'
<1> USE ToolLedgerConstants DEF LedgerInv, TypeOK, Calls, Alive, Checkpoint, Push, calls
<1>1. EffectInDoubtIsBooked'
  BY DEF EffectInDoubtIsBooked, InDoubt, Booking, Top, MemoryIsSound
<1>2. EffectRunsOnce'
  BY DEF EffectRunsOnce, Booking, MemoryIsSound
<1>3. LedgerIsDurable'
  BY DEF LedgerIsDurable, MemoryIsSound
<1>4. MemoryIsSound'
  BY DEF MemoryIsSound, Idle
<1>5. DoubtIsTracked'
  BY DEF DoubtIsTracked, InDoubt, Booking, Idle, Top, MemoryIsSound
<1>6. FlightIsSound'
  BY DEF FlightIsSound, Booking, Early, MemoryIsSound
<1> QED
  BY <1>1, <1>2, <1>3, <1>4, <1>5, <1>6 DEF Safe

\* A call the model asks for is new: one in doubt is not idle.
LEMMA AskStep ==
    ASSUME LedgerInv, TypeOK', Ask
    PROVE  Safe'
<1> USE ToolLedgerConstants DEF LedgerInv, TypeOK, Calls, Alive, Ask, durable, chain, Outer
<1>1. EffectInDoubtIsBooked'
  BY DEF EffectInDoubtIsBooked, InDoubt, Booking, Top, MemoryIsSound
<1>2. EffectRunsOnce'
  BY DEF EffectRunsOnce, Booking, MemoryIsSound
<1>3. LedgerIsDurable'
  BY DEF LedgerIsDurable, MemoryIsSound
<1>4. MemoryIsSound'
  BY DEF MemoryIsSound, Idle
<1>5. DoubtIsTracked'
  BY DEF DoubtIsTracked, InDoubt, Booking, Idle, Top, MemoryIsSound
<1>6. FlightIsSound'
  BY DEF FlightIsSound, Booking, Early, MemoryIsSound, DoubtIsTracked, InDoubt, Top
<1> QED
  BY <1>1, <1>2, <1>3, <1>4, <1>5, <1>6 DEF Safe

\* The answer of the model touches no call.
LEMMA AnswerStep ==
    ASSUME LedgerInv, TypeOK', Answer
    PROVE  Safe'
<1> USE ToolLedgerConstants DEF LedgerInv, TypeOK, Calls, Alive, Answer, durable, chain,
         calls
<1>1. EffectInDoubtIsBooked'
  BY DEF EffectInDoubtIsBooked, InDoubt, Booking, Top, MemoryIsSound
<1>2. EffectRunsOnce'
  BY DEF EffectRunsOnce, Booking, MemoryIsSound
<1>3. LedgerIsDurable'
  BY DEF LedgerIsDurable, MemoryIsSound
<1>4. MemoryIsSound'
  BY DEF MemoryIsSound, Idle
<1>5. DoubtIsTracked'
  BY DEF DoubtIsTracked, InDoubt, Booking, Idle, Top, MemoryIsSound
<1>6. FlightIsSound'
  BY DEF FlightIsSound, Booking, Early, MemoryIsSound
<1> QED
  BY <1>1, <1>2, <1>3, <1>4, <1>5, <1>6 DEF Safe

\* Only calls that ended enter the history.
LEMMA EndTurnStep ==
    ASSUME LedgerInv, TypeOK', EndTurn
    PROVE  Safe'
<1> USE ToolLedgerConstants DEF LedgerInv, TypeOK, Calls, Alive, EndTurn, durable, chain,
         Turn, Outer
<1>1. EffectInDoubtIsBooked'
  BY DEF EffectInDoubtIsBooked, InDoubt, Booking, Top, MemoryIsSound
<1>2. EffectRunsOnce'
  BY DEF EffectRunsOnce, Booking, MemoryIsSound
<1>3. LedgerIsDurable'
  BY DEF LedgerIsDurable, MemoryIsSound
<1>4. MemoryIsSound'
  BY DEF MemoryIsSound, Idle
<1>5. DoubtIsTracked'
  BY DEF DoubtIsTracked, InDoubt, Booking, Idle, Top, MemoryIsSound
<1>6. FlightIsSound'
  BY DEF FlightIsSound, Booking, Early, MemoryIsSound
<1> QED
  BY <1>1, <1>2, <1>3, <1>4, <1>5, <1>6 DEF Safe

\* The clean check only writes the status.
LEMMA SettleStep ==
    ASSUME LedgerInv, TypeOK', Settle
    PROVE  Safe'
<1> USE ToolLedgerConstants DEF LedgerInv, TypeOK, Calls, Alive, Settle, chain, calls
<1>1. EffectInDoubtIsBooked'
  BY DEF EffectInDoubtIsBooked, InDoubt, Booking, Top, MemoryIsSound
<1>2. EffectRunsOnce'
  BY DEF EffectRunsOnce, Booking, MemoryIsSound
<1>3. LedgerIsDurable'
  BY DEF LedgerIsDurable, MemoryIsSound
<1>4. MemoryIsSound'
  BY DEF MemoryIsSound, Idle
<1>5. DoubtIsTracked'
  BY DEF DoubtIsTracked, InDoubt, Booking, Idle, Top, MemoryIsSound
<1>6. FlightIsSound'
  BY DEF FlightIsSound, Booking, Early, MemoryIsSound
<1> QED
  BY <1>1, <1>2, <1>3, <1>4, <1>5, <1>6 DEF Safe

\* A failed executor leaves its calls as they are.
LEMMA FailStep ==
    ASSUME LedgerInv, TypeOK', Fail
    PROVE  Safe'
<1> USE ToolLedgerConstants DEF LedgerInv, TypeOK, Calls, Alive, Fail, chain, calls
<1>1. EffectInDoubtIsBooked'
  BY DEF EffectInDoubtIsBooked, InDoubt, Booking, Top, MemoryIsSound
<1>2. EffectRunsOnce'
  BY DEF EffectRunsOnce, Booking, MemoryIsSound
<1>3. LedgerIsDurable'
  BY DEF LedgerIsDurable, MemoryIsSound
<1>4. MemoryIsSound'
  BY DEF MemoryIsSound, Idle
<1>5. DoubtIsTracked'
  BY DEF DoubtIsTracked, InDoubt, Booking, Idle, Top, MemoryIsSound
<1>6. FlightIsSound'
  BY DEF FlightIsSound, Booking, Early, MemoryIsSound
<1> QED
  BY <1>1, <1>2, <1>3, <1>4, <1>5, <1>6 DEF Safe

\* The owner of a new inner call is running, so no call of it can be in doubt.
LEMMA AskInnerStep ==
    ASSUME LedgerInv, TypeOK', NEW c \in Calls, AskInner(c)
    PROVE  Safe'
<1> USE ToolLedgerConstants DEF LedgerInv, TypeOK, Calls, Alive, AskInner, durable, chain
<1>1. EffectInDoubtIsBooked'
  BY DEF EffectInDoubtIsBooked, InDoubt, Booking, Top, MemoryIsSound
<1>2. EffectRunsOnce'
  BY DEF EffectRunsOnce, Booking, MemoryIsSound
<1>3. LedgerIsDurable'
  BY DEF LedgerIsDurable, MemoryIsSound
<1>4. MemoryIsSound'
  BY DEF MemoryIsSound, Idle
<1>5. DoubtIsTracked'
  BY DEF DoubtIsTracked, InDoubt, Booking, Idle, Top, MemoryIsSound
<1>6. FlightIsSound'
  <2>1. st[c] = "none" /\ c \in Booking /\ st[Owner[c]] = "running"
    BY DEF Booking
  <2>2. Owner[c] \in Platform /\ Owner[c] \notin saved /\ Top(c) = Owner[c]
    BY <2>1 DEF FlightIsSound, Top
  <2>3. ran[c] = 0
    BY <2>1, <2>2 DEF DoubtIsTracked, InDoubt, MemoryIsSound, Idle
  <2> QED
    BY <2>1, <2>2, <2>3 DEF FlightIsSound, Booking, Early
<1> QED
  BY <1>1, <1>2, <1>3, <1>4, <1>5, <1>6 DEF Safe

\* A booking joins the chain; the call has not started.
LEMMA DispatchStep ==
    ASSUME LedgerInv, TypeOK', NEW c \in Calls, Dispatch(c)
    PROVE  Safe'
<1> USE ToolLedgerConstants DEF LedgerInv, TypeOK, Calls, Alive, Dispatch, durable, Push
<1>1. EffectInDoubtIsBooked'
  BY DEF EffectInDoubtIsBooked, InDoubt, Booking, Top, MemoryIsSound
<1>2. EffectRunsOnce'
  BY DEF EffectRunsOnce, Booking, MemoryIsSound
<1>3. LedgerIsDurable'
  BY DEF LedgerIsDurable, MemoryIsSound
<1>4. MemoryIsSound'
  BY DEF MemoryIsSound, Idle
<1>5. DoubtIsTracked'
  BY DEF DoubtIsTracked, InDoubt, Booking, Idle, Top, MemoryIsSound
<1>6. FlightIsSound'
  BY DEF FlightIsSound, Booking, Early, MemoryIsSound
<1> QED
  BY <1>1, <1>2, <1>3, <1>4, <1>5, <1>6 DEF Safe

\* A refused call has no effect.
LEMMA RefuseStep ==
    ASSUME LedgerInv, TypeOK', NEW c \in Calls, Refuse(c)
    PROVE  Safe'
<1> USE ToolLedgerConstants DEF LedgerInv, TypeOK, Calls, Alive, Refuse, durable, chain
<1>1. EffectInDoubtIsBooked'
  BY DEF EffectInDoubtIsBooked, InDoubt, Booking, Top, MemoryIsSound
<1>2. EffectRunsOnce'
  BY DEF EffectRunsOnce, Booking, MemoryIsSound
<1>3. LedgerIsDurable'
  BY DEF LedgerIsDurable, MemoryIsSound
<1>4. MemoryIsSound'
  BY DEF MemoryIsSound, Idle
<1>5. DoubtIsTracked'
  BY DEF DoubtIsTracked, InDoubt, Booking, Idle, Top, MemoryIsSound
<1>6. FlightIsSound'
  BY DEF FlightIsSound, Booking, Early, MemoryIsSound
<1> QED
  BY <1>1, <1>2, <1>3, <1>4, <1>5, <1>6 DEF Safe

\* The only step that puts a call in doubt: the call, or its owner, is booked.
LEMMA StartStep ==
    ASSUME LedgerInv, TypeOK', NEW c \in Calls, Start(c)
    PROVE  Safe'
<1> USE ToolLedgerConstants DEF LedgerInv, TypeOK, Calls, Alive, Start, durable, chain
<1>a. CASE c \in Native
  BY <1>a DEF Safe, EffectInDoubtIsBooked, EffectRunsOnce, LedgerIsDurable,
       MemoryIsSound, DoubtIsTracked, FlightIsSound, InDoubt, Booking, Top, Idle, Early
<1>b. CASE c \notin Native
  <2>a. c \in Booking /\ st[c] = "booked" /\ Top(c) \in Platform
    BY <1>b DEF Booking, Top
  <2>b. ran[c] = 0 /\ (c \in Inner => ran[Owner[c]] > 0)
    <3> HIDE DEF Start, TypeOK
    <3> QED
      BY <2>a DEF FlightIsSound, Early
  <2>0. c \in Booking /\ st[c] = "booked" /\ Top(c) \in Platform /\ ran[c] = 0
    BY <2>a, <2>b
  <2>1. Top(c) \in saved \/ (Top(c) \in ledger /\ Top(c) \in booked)
    <3>1. CASE c \in Platform
      BY <2>0, <3>1 DEF FlightIsSound, LedgerIsDurable, MemoryIsSound, Idle, Top
    <3>2. CASE c \in Inner
      <4>1. ran[Owner[c]] > 0
        BY <2>b, <3>2
      <4>2. Owner[c] \in Booking /\ Top(c) = Owner[c] /\ Top(Owner[c]) = Owner[c]
        BY <3>2 DEF Top, Booking
      <4>3. CASE Owner[c] \in saved
        BY <4>2, <4>3
      <4>4. CASE Owner[c] \notin saved
        <5>1. InDoubt(Owner[c])
          BY <4>1, <4>2, <4>4 DEF InDoubt
        <5>2. Owner[c] \in booked
          BY <5>1, <4>2 DEF EffectInDoubtIsBooked
        <5>3. Owner[c] \in ledger
          BY <5>1, <4>2, <2>0 DEF DoubtIsTracked, MemoryIsSound, Idle
        <5> QED
          BY <5>2, <5>3, <4>2
      <4> QED
        BY <4>3, <4>4
    <3> QED
      BY <2>0, <3>1, <3>2 DEF Booking
  <2>2. EffectInDoubtIsBooked'
    <3> SUFFICES ASSUME NEW d \in Booking, InDoubt(d)' PROVE Top(d) \in booked
      BY DEF EffectInDoubtIsBooked, Top, Booking
    <3>1. CASE d = c
      BY <2>1, <3>1 DEF InDoubt, Top
    <3>2. CASE d # c
      BY <3>2 DEF EffectInDoubtIsBooked, InDoubt, Top, Booking
    <3> QED
      BY <3>1, <3>2
  <2>3. EffectRunsOnce'
    BY <2>0 DEF EffectRunsOnce, Booking
  <2>4. LedgerIsDurable'
    BY DEF LedgerIsDurable
  <2>5. MemoryIsSound'
    BY DEF MemoryIsSound, Idle
  <2>6. DoubtIsTracked'
    <3> SUFFICES ASSUME NEW d \in Booking, InDoubt(d)'
                 PROVE  st'[d] # "none" /\ Top(d) \in ledger
      BY DEF DoubtIsTracked, Top, Booking
    <3>1. CASE d = c
      BY <2>1, <3>1 DEF InDoubt, Top, Booking
    <3>2. CASE d # c
      BY <3>2, <2>0 DEF DoubtIsTracked, InDoubt, Top, Booking, MemoryIsSound, Idle
    <3> QED
      BY <3>1, <3>2
  <2>7. FlightIsSound'
    BY <2>0 DEF FlightIsSound, Booking, Early
  <2> QED
    BY <2>2, <2>3, <2>4, <2>5, <2>6, <2>7 DEF Safe
<1> QED
  BY <1>a, <1>b

\* A result changes no booking; what it may take out later is an inner call.
LEMMA FinishStep ==
    ASSUME LedgerInv, TypeOK', NEW c \in Calls, Finish(c)
    PROVE  Safe'
<1> USE ToolLedgerConstants DEF LedgerInv, TypeOK, Calls, Alive, Finish, durable, Push
<1>1. EffectInDoubtIsBooked'
  BY DEF EffectInDoubtIsBooked, InDoubt, Booking, Top, MemoryIsSound
<1>2. EffectRunsOnce'
  BY DEF EffectRunsOnce, Booking, MemoryIsSound
<1>3. LedgerIsDurable'
  BY DEF LedgerIsDurable, MemoryIsSound
<1>4. MemoryIsSound'
  <2>1. \A k \in 1..Len(ops') :
           \/ k \in 1..Len(ops) /\ ops'[k] = ops[k]
           \/ ops'[k] = [kind |-> "unmark", ids |-> {c}] /\ c \in Inner
    <3>1. CASE c \in Inner
      BY <3>1
    <3>2. CASE c \notin Inner
      BY <3>2
    <3> QED
      BY <3>1, <3>2
  <2>2. pc # "down" /\ pc' = pc
    BY DEF MemoryIsSound, Idle
  <2>3. \A k \in 1..Len(ops') :
           /\ ops'[k].kind = "unmark" => ops'[k].ids \subseteq Inner
           /\ ops'[k].kind = "accept" => ops'[k].ids \subseteq saved
    <3> TAKE k \in 1..Len(ops')
    <3>1. CASE k \in 1..Len(ops) /\ ops'[k] = ops[k]
      <4> HIDE DEF Finish
      <4> QED
        BY <3>1 DEF MemoryIsSound
    <3>2. CASE ops'[k] = [kind |-> "unmark", ids |-> {c}] /\ c \in Inner
      BY <3>2
    <3> QED
      BY <2>1, <3>1, <3>2
  <2> QED
    BY <2>2, <2>3 DEF MemoryIsSound
<1>5. DoubtIsTracked'
  BY DEF DoubtIsTracked, InDoubt, Booking, Idle, Top, MemoryIsSound
<1>6. FlightIsSound'
  BY DEF FlightIsSound, Booking, Early, MemoryIsSound
<1> QED
  BY <1>1, <1>2, <1>3, <1>4, <1>5, <1>6 DEF Safe

\* A late booking of a native call touches no call of the platform.
LEMMA ProjectStep ==
    ASSUME LedgerInv, TypeOK', NEW c \in Calls, Project(c)
    PROVE  Safe'
<1> USE ToolLedgerConstants DEF LedgerInv, TypeOK, Calls, Alive, Project, durable, Push
<1>1. EffectInDoubtIsBooked'
  BY DEF EffectInDoubtIsBooked, InDoubt, Booking, Top, MemoryIsSound
<1>2. EffectRunsOnce'
  BY DEF EffectRunsOnce, Booking, MemoryIsSound
<1>3. LedgerIsDurable'
  BY DEF LedgerIsDurable, MemoryIsSound
<1>4. MemoryIsSound'
  BY DEF MemoryIsSound, Idle
<1>5. DoubtIsTracked'
  BY DEF DoubtIsTracked, InDoubt, Booking, Idle, Top, MemoryIsSound
<1>6. FlightIsSound'
  BY DEF FlightIsSound, Booking, Early, MemoryIsSound
<1> QED
  BY <1>1, <1>2, <1>3, <1>4, <1>5, <1>6 DEF Safe

\* An operation writes the whole set in memory, which has every call in doubt.
LEMMA ApplyStep ==
    ASSUME LedgerInv, TypeOK', Apply
    PROVE  Safe'
<1> USE ToolLedgerConstants DEF LedgerInv, TypeOK, Calls, Alive, Apply, After, Writes,
         Resumed
<1>1. EffectInDoubtIsBooked'
  <2> SUFFICES ASSUME NEW d \in Booking, InDoubt(d) PROVE Top(d) \in booked'
    BY DEF EffectInDoubtIsBooked, InDoubt, Booking, Top
  <2>1. Top(d) \in booked /\ Top(d) \in Platform
    BY DEF EffectInDoubtIsBooked, Booking, Top
  <2>2. Top(d) \in ledger /\ Top(d) \notin saved
    BY DEF DoubtIsTracked, InDoubt, Idle
  <2> QED
    BY <2>1, <2>2, HeadIsSound DEF Writes
<1>2. EffectRunsOnce'
  BY DEF EffectRunsOnce, Booking, MemoryIsSound
<1>3. LedgerIsDurable'
  BY HeadIsSound DEF LedgerIsDurable, Writes
<1>4. MemoryIsSound'
  BY HeadIsSound DEF MemoryIsSound, Idle
<1>5. DoubtIsTracked'
  <2> SUFFICES ASSUME NEW d \in Booking, InDoubt(d)
               PROVE  st'[d] # "none" /\ Top(d) \in ledger'
    BY DEF DoubtIsTracked, InDoubt, Booking, Top
  <2>1. st[d] # "none" /\ Top(d) \in ledger /\ Top(d) \in Platform /\ Top(d) \notin saved
    BY DEF DoubtIsTracked, InDoubt, Idle, Booking, Top
  <2>2. st'[d] # "none"
    BY <2>1 DEF Booking
  <2> QED
    BY <2>1, <2>2, HeadIsSound
<1>6. FlightIsSound'
  <2>1. \A d \in Calls :
           \/ st'[d] = st[d]
           \/ st'[d] = "ended"
           \/ st[d] = "booking" /\ st'[d] = "booked" /\ d \in ledger'
    <3> TAKE d \in Calls
    <3>1. CASE d \notin Head(ops).ids
      BY <3>1
    <3>2. CASE d \in Head(ops).ids /\ st[d] = "booking" /\ Head(ops).kind = "mark"
      BY <3>2
    <3>3. CASE d \in Head(ops).ids /\ ~(st[d] = "booking" /\ Head(ops).kind = "mark")
      BY <3>3
    <3> QED
      BY <3>1, <3>2, <3>3
  <2>2. ledger \cap Platform \subseteq ledger' \cup saved
    BY HeadIsSound
  <2> QED
    BY <2>1, <2>2 DEF FlightIsSound, Booking, Early
<1> QED
  BY <1>1, <1>2, <1>3, <1>4, <1>5, <1>6 DEF Safe

\* A failed write leaves either the old set or the whole new one.
LEMMA WriteFailsStep ==
    ASSUME LedgerInv, TypeOK', WriteFails
    PROVE  Safe'
<1> USE ToolLedgerConstants DEF LedgerInv, TypeOK, Calls, Alive, WriteFails, After,
         Writes, Resumed
<1>1. EffectInDoubtIsBooked'
  <2> SUFFICES ASSUME NEW d \in Booking, InDoubt(d) PROVE Top(d) \in booked'
    BY DEF EffectInDoubtIsBooked, InDoubt, Booking, Top
  <2>1. Top(d) \in booked /\ Top(d) \in Platform
    BY DEF EffectInDoubtIsBooked, Booking, Top
  <2>2. Top(d) \in ledger /\ Top(d) \notin saved
    BY DEF DoubtIsTracked, InDoubt, Idle
  <2> QED
    BY <2>1, <2>2, HeadIsSound DEF Writes
<1>2. EffectRunsOnce'
  BY DEF EffectRunsOnce, Booking, MemoryIsSound
<1>3. LedgerIsDurable'
  BY HeadIsSound DEF LedgerIsDurable, Writes
<1>4. MemoryIsSound'
  BY HeadIsSound DEF MemoryIsSound, Idle
<1>5. DoubtIsTracked'
  <2> SUFFICES ASSUME NEW d \in Booking, InDoubt(d)
               PROVE  st'[d] # "none" /\ Top(d) \in ledger'
    BY DEF DoubtIsTracked, InDoubt, Booking, Top
  <2>1. st[d] # "none" /\ Top(d) \in ledger /\ Top(d) \in Platform /\ Top(d) \notin saved
    BY DEF DoubtIsTracked, InDoubt, Idle, Booking, Top
  <2>2. st'[d] # "none"
    BY <2>1 DEF Booking
  <2> QED
    BY <2>1, <2>2, HeadIsSound
<1>6. FlightIsSound'
  <2>1. \A d \in Calls :
           \/ st'[d] = st[d]
           \/ st'[d] = "ended"
           \/ st[d] = "booking" /\ st'[d] = "booked" /\ d \in ledger'
    <3> TAKE d \in Calls
    <3>1. CASE d \notin Head(ops).ids
      BY <3>1
    <3>2. CASE d \in Head(ops).ids /\ st[d] = "booking" /\ Head(ops).kind = "mark"
      BY <3>2
    <3>3. CASE d \in Head(ops).ids /\ ~(st[d] = "booking" /\ Head(ops).kind = "mark")
      BY <3>3
    <3> QED
      BY <3>1, <3>2, <3>3
  <2>2. ledger \cap Platform \subseteq ledger' \cup saved
    BY HeadIsSound
  <2> QED
    BY <2>1, <2>2 DEF FlightIsSound, Booking, Early
<1> QED
  BY <1>1, <1>2, <1>3, <1>4, <1>5, <1>6 DEF Safe

\* A crash empties the memory and leaves what is durable.
LEMMA CrashStep ==
    ASSUME LedgerInv, TypeOK', Crash
    PROVE  Safe'
<1> USE ToolLedgerConstants DEF LedgerInv, TypeOK, Calls, Alive, Crash, durable
<1>1. EffectInDoubtIsBooked'
  BY DEF EffectInDoubtIsBooked, InDoubt, Booking, Top, MemoryIsSound
<1>2. EffectRunsOnce'
  BY DEF EffectRunsOnce, Booking, MemoryIsSound
<1>3. LedgerIsDurable'
  BY DEF LedgerIsDurable, MemoryIsSound
<1>4. MemoryIsSound'
  BY DEF MemoryIsSound, Idle
<1>5. DoubtIsTracked'
  BY DEF DoubtIsTracked, InDoubt, Booking, Idle, Top, MemoryIsSound
<1>6. FlightIsSound'
  BY DEF FlightIsSound, Booking, Early, MemoryIsSound
<1> QED
  BY <1>1, <1>2, <1>3, <1>4, <1>5, <1>6 DEF Safe

\* Recovery only writes the status.
LEMMA RestartStep ==
    ASSUME LedgerInv, TypeOK', Restart
    PROVE  Safe'
<1> USE ToolLedgerConstants DEF LedgerInv, TypeOK, Calls, Alive, Restart, chain, calls
<1>1. EffectInDoubtIsBooked'
  BY DEF EffectInDoubtIsBooked, InDoubt, Booking, Top, MemoryIsSound
<1>2. EffectRunsOnce'
  BY DEF EffectRunsOnce, Booking, MemoryIsSound
<1>3. LedgerIsDurable'
  BY DEF LedgerIsDurable, MemoryIsSound
<1>4. MemoryIsSound'
  BY DEF MemoryIsSound, Idle
<1>5. DoubtIsTracked'
  BY DEF DoubtIsTracked, InDoubt, Booking, Idle, Top, MemoryIsSound
<1>6. FlightIsSound'
  BY DEF FlightIsSound, Booking, Early, MemoryIsSound
<1> QED
  BY <1>1, <1>2, <1>3, <1>4, <1>5, <1>6 DEF Safe

\* An empty ledger in the row means that no call of the platform is in doubt.
LEMMA ResumeStep ==
    ASSUME LedgerInv, TypeOK', Resume
    PROVE  Safe'
<1> USE ToolLedgerConstants DEF LedgerInv, TypeOK, Calls, Alive, Resume
<1>1. EffectInDoubtIsBooked'
  BY DEF EffectInDoubtIsBooked, InDoubt, Booking, Top, MemoryIsSound
<1>2. EffectRunsOnce'
  BY DEF EffectRunsOnce, Booking, MemoryIsSound
<1>3. LedgerIsDurable'
  BY DEF LedgerIsDurable, MemoryIsSound
<1>4. MemoryIsSound'
  BY DEF MemoryIsSound, Idle
<1>5. DoubtIsTracked'
  <2>1. \A d \in Booking : ~InDoubt(d)
    BY DEF EffectInDoubtIsBooked
  <2> QED
    BY <2>1 DEF DoubtIsTracked, InDoubt, Booking, Top
<1>6. FlightIsSound'
  BY DEF FlightIsSound, Booking, Early, MemoryIsSound
<1> QED
  BY <1>1, <1>2, <1>3, <1>4, <1>5, <1>6 DEF Safe

\* The invariant of the ledger holds for every set of calls and owners.
THEOREM LedgerInductive == Spec => []LedgerInv
<1>1. LedgerInv /\ [Next]_vars => LedgerInv'
  <2> SUFFICES ASSUME LedgerInv, [Next]_vars PROVE LedgerInv'
    OBVIOUS
  <2>t. TypeOK'
    BY TypeStep DEF LedgerInv
  <2> SUFFICES Safe'
    BY <2>t DEF LedgerInv, Safe
  <2>1. CASE Checkpoint
    BY <2>t, <2>1, CheckpointStep
  <2>2. CASE Ask
    BY <2>t, <2>2, AskStep
  <2>3. CASE Answer
    BY <2>t, <2>3, AnswerStep
  <2>4. CASE EndTurn
    BY <2>t, <2>4, EndTurnStep
  <2>5. CASE Settle
    BY <2>t, <2>5, SettleStep
  <2>6. CASE Fail
    BY <2>t, <2>6, FailStep
  <2>7. ASSUME NEW c \in Calls, AskInner(c) PROVE Safe'
    BY <2>t, <2>7, AskInnerStep
  <2>8. ASSUME NEW c \in Calls, Dispatch(c) PROVE Safe'
    BY <2>t, <2>8, DispatchStep
  <2>9. ASSUME NEW c \in Calls, Refuse(c) PROVE Safe'
    BY <2>t, <2>9, RefuseStep
  <2>10. ASSUME NEW c \in Calls, Start(c) PROVE Safe'
    BY <2>t, <2>10, StartStep
  <2>11. ASSUME NEW c \in Calls, Finish(c) PROVE Safe'
    BY <2>t, <2>11, FinishStep
  <2>12. ASSUME NEW c \in Calls, Project(c) PROVE Safe'
    BY <2>t, <2>12, ProjectStep
  <2>13. CASE Apply
    BY <2>t, <2>13, ApplyStep
  <2>14. CASE WriteFails
    BY <2>t, <2>14, WriteFailsStep
  <2>15. CASE Crash
    BY <2>t, <2>15, CrashStep
  <2>16. CASE Restart
    BY <2>t, <2>16, RestartStep
  <2>17. CASE Resume
    BY <2>t, <2>17, ResumeStep
  <2>18. CASE UNCHANGED vars
    BY <2>18 DEF vars, durable, chain, calls, LedgerInv, Safe, EffectInDoubtIsBooked,
       EffectRunsOnce, LedgerIsDurable, MemoryIsSound, DoubtIsTracked, FlightIsSound,
       InDoubt, Idle
  <2> QED
    BY <2>1, <2>2, <2>3, <2>4, <2>5, <2>6, <2>7, <2>8, <2>9, <2>10, <2>11, <2>12,
       <2>13, <2>14, <2>15, <2>16, <2>17, <2>18 DEF Next
<1> QED
  BY InitInv, <1>1, PTL DEF Spec

\* A platform call whose effect no checkpoint knows of is booked in the row, in
\* whatever order the chain, the checkpoints and a crash come.
THEOREM DoubtIsBookedTheorem == Spec => []EffectInDoubtIsBooked
<1>1. LedgerInv => EffectInDoubtIsBooked
  BY DEF LedgerInv
<1> QED
  BY <1>1, LedgerInductive, PTL

\* No platform call is dispatched twice, across any number of crashes and resumes.
THEOREM RunsOnceTheorem == Spec => []EffectRunsOnce
<1>1. LedgerInv => EffectRunsOnce
  BY DEF LedgerInv
<1> QED
  BY <1>1, LedgerInductive, PTL

\* What the process believes to be pending is pending in the row.
THEOREM LedgerIsDurableTheorem == Spec => []LedgerIsDurable
<1>1. LedgerInv => LedgerIsDurable
  BY DEF LedgerInv
<1> QED
  BY <1>1, LedgerInductive, PTL


-----------------------------------------------------------------------------
(* A completed run is quiet.                                               *)

\* The executor of a fresh run has no call at all.
LEMMA InitQuiet == Init => QuietInv
BY DEF Init, QuietInv, TurnsAreOver, InnerIsBooked, AcceptedLast, OverIsOver,
         CompletedIsQuiet,
       Alive, Idle, Booking, Calls

\* What an operation that joins the chain leaves of the chain.
LEMMA Pushed ==
    ASSUME TypeOK, NEW kind, NEW ids, Push(kind, ids)
    PROVE  /\ Len(ops') = Len(ops) + 1 /\ Len(ops) \in Nat
           /\ \A k \in 1..Len(ops) : ops'[k] = ops[k] /\ k \in 1..Len(ops')
           /\ ops'[Len(ops')].kind = kind /\ ops'[Len(ops')].ids = ids
           /\ Len(ops') \in 1..Len(ops')
           /\ \A k \in 1..Len(ops') : k \in 1..Len(ops) \/ (k = Len(ops') /\ k \notin 1..Len(ops))
BY DEF TypeOK, Push

\* What the first operation leaves of the chain when it is done.
LEMMA Popped ==
    ASSUME TypeOK, ops # << >>, ops' = Tail(ops)
    PROVE  /\ Head(ops) = ops[1] /\ Head(ops) \in Op /\ 1 \in 1..Len(ops)
           /\ \A k \in 1..Len(ops') : ops'[k] = ops[k + 1] /\ k + 1 \in 1..Len(ops) /\ k + 1 # 1
           /\ \A k \in 1..Len(ops) : k = 1 \/ (k - 1 \in 1..Len(ops') /\ ops'[k - 1] = ops[k])
BY DEF TypeOK

\* The chain of calls inside sub-agents when an operation joins it.
LEMMA PushedInner ==
    ASSUME TypeOK, InnerIsBooked, NEW kind, NEW ids, Push(kind, ids), UNCHANGED ledger,
           \A c \in Inner : c \in booked => c \in booked',
           \A c \in Inner \ ids : st'[c] = st[c],
           \A c \in Inner \cap ids :
               \/ kind = "mark" /\ st[c] = "asked" /\ st'[c] = "booking"
               \/ kind = "unmark" /\ st[c] = "running" /\ st'[c] = "closing"
    PROVE  InnerIsBooked'
<1>1. /\ \A k \in 1..Len(ops) : ops'[k] = ops[k] /\ k \in 1..Len(ops')
      /\ ops'[Len(ops')].kind = kind /\ ops'[Len(ops')].ids = ids
      /\ Len(ops') \in 1..Len(ops')
      /\ \A k \in 1..Len(ops') : k \in 1..Len(ops) \/ (k = Len(ops') /\ k \notin 1..Len(ops))
  BY Pushed
<1>2. \A c \in Inner \cap ids : \A k \in 1..Len(ops) : c \notin ops[k].ids
  BY DEF InnerIsBooked
<1>3. ASSUME NEW c \in Inner
      PROVE  /\ st'[c] \in {"none", "asked", "booking"} => c \notin ledger'
             /\ st'[c] \in {"booked", "running"} => c \in ledger' \cap booked'
             /\ st'[c] = "booking" => \E k \in 1..Len(ops') : c \in ops'[k].ids
  <2>1. CASE c \in ids
    BY <1>1, <2>1 DEF InnerIsBooked
  <2>2. CASE c \notin ids
    BY <1>1, <2>2 DEF InnerIsBooked
  <2> QED
    BY <2>1, <2>2
<1>4. ASSUME NEW k \in 1..Len(ops'), NEW c \in Inner \cap ops'[k].ids
      PROVE  /\ \/ ops'[k].kind = "mark" /\ st'[c] = "booking"
                \/ ops'[k].kind = "unmark" /\ st'[c] = "closing"
             /\ \A j \in 1..Len(ops') : c \in ops'[j].ids => j = k
  <2>1. CASE c \in ids
    <3>1. k = Len(ops')
      BY <1>1, <1>2, <1>4, <2>1
    <3>2. \A j \in 1..Len(ops') : c \in ops'[j].ids => j = k
      BY <1>1, <1>2, <1>4, <2>1, <3>1
    <3> QED
      BY <1>1, <2>1, <3>1, <3>2
  <2>2. CASE c \notin ids
    <3>1. \A j \in 1..Len(ops') : c \in ops'[j].ids => j \in 1..Len(ops) /\ ops'[j] = ops[j]
      BY <1>1, <2>2
    <3>2. k \in 1..Len(ops) /\ ops'[k] = ops[k]
      BY <1>4, <3>1
    <3> QED
      BY <2>2, <3>1, <3>2 DEF InnerIsBooked
  <2> QED
    BY <2>1, <2>2
<1> QED
  BY <1>3, <1>4 DEF InnerIsBooked

\* The same, when its first operation is done or has failed.
LEMMA PoppedInner ==
    ASSUME TypeOK, InnerIsBooked, ops # << >>, ops' = Tail(ops),
           \A c \in Inner \ Head(ops).ids :
               /\ st'[c] = st[c] /\ (c \in ledger' <=> c \in ledger)
               /\ c \in ledger \cap booked => c \in booked',
           \A c \in Inner \cap Head(ops).ids :
               st'[c] = "ended" \/ (st'[c] = "booked" /\ c \in ledger' \cap booked')
    PROVE  InnerIsBooked'
<1>1. /\ Head(ops) = ops[1] /\ 1 \in 1..Len(ops)
      /\ \A k \in 1..Len(ops') : ops'[k] = ops[k + 1] /\ k + 1 \in 1..Len(ops) /\ k + 1 # 1
      /\ \A k \in 1..Len(ops) : k = 1 \/ (k - 1 \in 1..Len(ops') /\ ops'[k - 1] = ops[k])
  BY Popped
<1>2. \A c \in Inner \cap Head(ops).ids : \A k \in 1..Len(ops') : c \notin ops'[k].ids
  BY <1>1 DEF InnerIsBooked
<1>3. ASSUME NEW c \in Inner
      PROVE  /\ st'[c] \in {"none", "asked", "booking"} => c \notin ledger'
             /\ st'[c] \in {"booked", "running"} => c \in ledger' \cap booked'
             /\ st'[c] = "booking" => \E k \in 1..Len(ops') : c \in ops'[k].ids
  <2>1. CASE c \in Head(ops).ids
    BY <2>1
  <2>2. CASE c \notin Head(ops).ids
    <3>1. st[c] = "booking" => \E k \in 1..Len(ops) : c \in ops[k].ids /\ k # 1
      BY <1>1, <2>2 DEF InnerIsBooked
    <3>2. st[c] = "booking" => \E k \in 1..Len(ops') : c \in ops'[k].ids
      BY <1>1, <3>1
    <3> QED
      BY <2>2, <3>2 DEF InnerIsBooked
  <2> QED
    BY <2>1, <2>2
<1>4. ASSUME NEW k \in 1..Len(ops'), NEW c \in Inner \cap ops'[k].ids
      PROVE  /\ \/ ops'[k].kind = "mark" /\ st'[c] = "booking"
                \/ ops'[k].kind = "unmark" /\ st'[c] = "closing"
             /\ \A j \in 1..Len(ops') : c \in ops'[j].ids => j = k
  <2>1. c \notin Head(ops).ids
    BY <1>2, <1>4
  <2>2. ops'[k] = ops[k + 1] /\ k + 1 \in 1..Len(ops) /\ c \in ops[k + 1].ids
    BY <1>1, <1>4
  <2>3. \A j \in 1..Len(ops') : c \in ops'[j].ids => j + 1 = k + 1
    BY <1>1, <2>2 DEF InnerIsBooked
  <2> QED
    BY <2>1, <2>2, <2>3 DEF InnerIsBooked
<1> QED
  BY <1>3, <1>4 DEF InnerIsBooked

\* An operation that is no acceptance leaves the acceptances where they are.
LEMMA PushedOrder ==
    ASSUME TypeOK, AcceptedLast, NEW kind, NEW ids, Push(kind, ids), UNCHANGED pc,
           kind # "accept", pc = "last" => kind # "mark" \/ ids \cap Inner = {},
           pc = "settle" => \A c \in Inner : st'[c] # "booking"
    PROVE  AcceptedLast'
<1>1. /\ \A k \in 1..Len(ops) : ops'[k] = ops[k] /\ k \in 1..Len(ops')
      /\ ops'[Len(ops')].kind = kind /\ ops'[Len(ops')].ids = ids
      /\ \A k \in 1..Len(ops') : k \in 1..Len(ops) \/ k = Len(ops')
  BY Pushed
<1>2. ASSUME NEW k \in 1..Len(ops'), ops'[k].kind = "accept"
      PROVE  /\ pc \in Alive => pc \in {"sync", "last"}
             /\ \A j \in 1..Len(ops') :
                   /\ pc \in Alive /\ ops'[j].kind = "accept" => j = k
                   /\ pc = "last" /\ ops'[j].kind = "mark" /\ ops'[j].ids \cap Inner # {} => j < k
  <2>1. k \in 1..Len(ops) /\ ops'[k] = ops[k]
    BY <1>1, <1>2
  <2>2. ASSUME NEW j \in 1..Len(ops')
        PROVE  /\ pc \in Alive /\ ops'[j].kind = "accept" => j = k
               /\ pc = "last" /\ ops'[j].kind = "mark" /\ ops'[j].ids \cap Inner # {} => j < k
    <3>1. CASE j \in 1..Len(ops)
      BY <1>1, <1>2, <2>1, <3>1 DEF AcceptedLast
    <3>2. CASE j = Len(ops')
      BY <1>1, <1>2, <2>1, <3>2
    <3> QED
      BY <1>1, <3>1, <3>2
  <2>3. pc \in Alive => pc \in {"sync", "last"}
    BY <1>2, <2>1 DEF AcceptedLast
  <2> QED
    BY <2>2, <2>3
<1> QED
  BY <1>2 DEF AcceptedLast

\* A checkpoint joins its acceptance to the chain, behind every booking.
LEMMA CheckpointQuiet ==
    ASSUME LedgerInv, TypeOK', QuietInv, Checkpoint
    PROVE  QuietInv'
<1> USE ToolLedgerConstants DEF LedgerInv, QuietInv, TypeOK, Calls, Alive, Booking,
         Checkpoint, calls
<1>1. TurnsAreOver'
  BY DEF TurnsAreOver
<1>2. InnerIsBooked'
  <2>1. history \cap Inner = {}
    BY DEF TurnsAreOver, Outer
  <2>2. CASE history = {}
    BY <2>2 DEF InnerIsBooked
  <2>3. CASE history # {}
    <3>1. /\ Push("accept", history) /\ UNCHANGED <<ledger, st>>
          /\ \A c \in Inner : c \in booked => c \in booked'
      BY <2>1, <2>3
    <3> HIDE DEF Checkpoint
    <3> QED
      BY <2>1, <3>1, PushedInner
  <2> QED
    BY <2>2, <2>3
<1>3. AcceptedLast'
  <2>1. pc \in {"filter", "drain"} /\ \A k \in 1..Len(ops) : ops[k].kind # "accept"
    BY DEF AcceptedLast
  <2>2. CASE history = {}
    <3>1. ops' = ops /\ st' = st /\ pc' \in {"request", "settle"}
      BY <2>2
    <3>2. \A c \in Inner : st[c] = "none"
      BY <2>1, <2>2 DEF TurnsAreOver
    <3> QED
      BY <2>1, <3>1, <3>2 DEF AcceptedLast
  <2>3. CASE history # {}
    <3>1. Push("accept", history) /\ pc' \in {"sync", "last"} /\ history \cap Inner = {}
      BY <2>3 DEF TurnsAreOver, Outer
    <3>2. /\ \A k \in 1..Len(ops) : ops'[k] = ops[k]
          /\ ops'[Len(ops')].kind = "accept"
          /\ \A k \in 1..Len(ops') : k \in 1..Len(ops) \/ k = Len(ops')
          /\ Len(ops') = Len(ops) + 1 /\ Len(ops) \in Nat
      BY <3>1, Pushed
    <3>3. \A k \in 1..Len(ops') : ops'[k].kind = "accept" => k = Len(ops')
      BY <2>1, <3>2
    <3>4. \A j \in 1..Len(ops') : ops'[j].kind # "accept" => j < Len(ops')
      BY <3>2
    <3> HIDE DEF Checkpoint, TypeOK
    <3>5. \A j \in 1..Len(ops') : ops'[j].kind = "mark" => j < Len(ops')
      BY <3>4
    <3> QED
      BY <3>1, <3>3, <3>5 DEF AcceptedLast
  <2> QED
    BY <2>2, <2>3
<1>4. OverIsOver'
  BY DEF OverIsOver, Idle
<1>5. CompletedIsQuiet'
  BY DEF OverIsOver, CompletedIsQuiet
<1> QED
  BY <1>1, <1>2, <1>3, <1>4, <1>5 DEF QuietInv

\* The model asks for calls: a turn begins.
LEMMA AskQuiet ==
    ASSUME LedgerInv, TypeOK', QuietInv, Ask
    PROVE  QuietInv'
<1> USE ToolLedgerConstants DEF LedgerInv, QuietInv, TypeOK, Calls, Alive, Booking, Ask,
         durable, chain, Outer
<1>1. TurnsAreOver'
  BY DEF TurnsAreOver
<1>2. InnerIsBooked'
  BY DEF InnerIsBooked
<1>3. AcceptedLast'
  BY DEF AcceptedLast
<1>4. OverIsOver'
  BY DEF OverIsOver, Idle
<1>5. CompletedIsQuiet'
  BY DEF OverIsOver, CompletedIsQuiet
<1> QED
  BY <1>1, <1>2, <1>3, <1>4, <1>5 DEF QuietInv

\* The model answers.
LEMMA AnswerQuiet ==
    ASSUME LedgerInv, TypeOK', QuietInv, Answer
    PROVE  QuietInv'
<1> USE ToolLedgerConstants DEF LedgerInv, QuietInv, TypeOK, Calls, Alive, Booking,
         Answer, durable, chain, calls
<1>1. TurnsAreOver'
  BY DEF TurnsAreOver
<1>2. InnerIsBooked'
  BY DEF InnerIsBooked
<1>3. AcceptedLast'
  BY DEF AcceptedLast
<1>4. OverIsOver'
  BY DEF OverIsOver, Idle
<1>5. CompletedIsQuiet'
  BY DEF OverIsOver, CompletedIsQuiet
<1> QED
  BY <1>1, <1>2, <1>3, <1>4, <1>5 DEF QuietInv

\* The turn is over once each of its calls has a result.
LEMMA EndTurnQuiet ==
    ASSUME LedgerInv, TypeOK', QuietInv, EndTurn
    PROVE  QuietInv'
<1> USE ToolLedgerConstants DEF LedgerInv, QuietInv, TypeOK, Calls, Alive, Booking,
         EndTurn, durable, chain, Turn, Outer
<1>1. TurnsAreOver'
  BY DEF TurnsAreOver
<1>2. InnerIsBooked'
  BY DEF InnerIsBooked
<1>3. AcceptedLast'
  BY DEF AcceptedLast
<1>4. OverIsOver'
  BY DEF OverIsOver, Idle
<1>5. CompletedIsQuiet'
  BY DEF OverIsOver, CompletedIsQuiet
<1> QED
  BY <1>1, <1>2, <1>3, <1>4, <1>5 DEF QuietInv

\* The run completes only with nothing booked: no call is on its way.
LEMMA SettleQuiet ==
    ASSUME LedgerInv, TypeOK', QuietInv, Settle
    PROVE  QuietInv'
<1> USE ToolLedgerConstants DEF LedgerInv, QuietInv, TypeOK, Calls, Alive, Booking,
         Settle, chain, calls
<1>1. TurnsAreOver'
  BY DEF TurnsAreOver
<1>2. InnerIsBooked'
  BY DEF InnerIsBooked
<1>3. AcceptedLast'
  BY DEF AcceptedLast
<1>4. OverIsOver'
  BY DEF OverIsOver, TurnsAreOver, FlightIsSound, Early
<1>5. CompletedIsQuiet'
  BY DEF CompletedIsQuiet, TurnsAreOver, FlightIsSound, Early, InnerIsBooked, AcceptedLast
<1> QED
  BY <1>1, <1>2, <1>3, <1>4, <1>5 DEF QuietInv

\* The executor is gone.
LEMMA FailQuiet ==
    ASSUME LedgerInv, TypeOK', QuietInv, Fail
    PROVE  QuietInv'
<1> USE ToolLedgerConstants DEF LedgerInv, QuietInv, TypeOK, Calls, Alive, Booking, Fail,
         chain, calls
<1>1. TurnsAreOver'
  BY DEF TurnsAreOver
<1>2. InnerIsBooked'
  BY DEF InnerIsBooked
<1>3. AcceptedLast'
  BY DEF AcceptedLast
<1>4. OverIsOver'
  BY DEF OverIsOver, Idle
<1>5. CompletedIsQuiet'
  BY DEF OverIsOver, CompletedIsQuiet
<1> QED
  BY <1>1, <1>2, <1>3, <1>4, <1>5 DEF QuietInv

\* A running sub-agent asks for a tool.
LEMMA AskInnerQuiet ==
    ASSUME LedgerInv, TypeOK', QuietInv, NEW c \in Calls, AskInner(c)
    PROVE  QuietInv'
<1> USE ToolLedgerConstants DEF LedgerInv, QuietInv, TypeOK, Calls, Alive, Booking,
         AskInner, durable, chain
<1>1. TurnsAreOver'
  BY DEF TurnsAreOver
<1>2. InnerIsBooked'
  BY DEF InnerIsBooked
<1>3. AcceptedLast'
  BY DEF AcceptedLast
<1>4. OverIsOver'
  BY DEF OverIsOver, Idle
<1>5. CompletedIsQuiet'
  BY DEF OverIsOver, CompletedIsQuiet
<1> QED
  BY <1>1, <1>2, <1>3, <1>4, <1>5 DEF QuietInv

\* A booking joins the chain only while a turn is under way.
LEMMA DispatchQuiet ==
    ASSUME LedgerInv, TypeOK', QuietInv, NEW c \in Calls, Dispatch(c)
    PROVE  QuietInv'
<1> USE ToolLedgerConstants DEF LedgerInv, QuietInv, TypeOK, Calls, Alive, Booking,
         Dispatch, durable
<1>1. TurnsAreOver'
  BY DEF TurnsAreOver
<1>2. InnerIsBooked'
  <2>1. /\ Push("mark", {c}) /\ UNCHANGED <<ledger, booked>>
        /\ st[c] = "asked" /\ st'[c] = "booking" /\ \A d \in Inner \ {c} : st'[d] = st[d]
    OBVIOUS
  <2> HIDE DEF Dispatch
  <2> QED
    BY <2>1, PushedInner
<1>3. AcceptedLast'
  <2>1. Push("mark", {c}) /\ UNCHANGED pc /\ \A d \in Inner \ {c} : st'[d] = st[d]
    OBVIOUS
  <2>2. c \in Inner => pc \notin {"last", "settle"}
    BY DEF TurnsAreOver, FlightIsSound
  <2>3. pc = "settle" => \A d \in Inner : st'[d] # "booking"
    BY <2>1, <2>2 DEF AcceptedLast
  <2> HIDE DEF Dispatch
  <2> QED
    BY <2>1, <2>2, <2>3, PushedOrder
<1>4. OverIsOver'
  BY DEF OverIsOver, Idle
<1>5. CompletedIsQuiet'
  BY DEF OverIsOver, CompletedIsQuiet
<1> QED
  BY <1>1, <1>2, <1>3, <1>4, <1>5 DEF QuietInv

\* A refused call has ended.
LEMMA RefuseQuiet ==
    ASSUME LedgerInv, TypeOK', QuietInv, NEW c \in Calls, Refuse(c)
    PROVE  QuietInv'
<1> USE ToolLedgerConstants DEF LedgerInv, QuietInv, TypeOK, Calls, Alive, Booking,
         Refuse, durable, chain
<1>1. TurnsAreOver'
  BY DEF TurnsAreOver
<1>2. InnerIsBooked'
  BY DEF InnerIsBooked
<1>3. AcceptedLast'
  BY DEF AcceptedLast
<1>4. OverIsOver'
  BY DEF OverIsOver, Idle
<1>5. CompletedIsQuiet'
  BY DEF OverIsOver, CompletedIsQuiet
<1> QED
  BY <1>1, <1>2, <1>3, <1>4, <1>5 DEF QuietInv

\* A call that is booked begins.
LEMMA StartQuiet ==
    ASSUME LedgerInv, TypeOK', QuietInv, NEW c \in Calls, Start(c)
    PROVE  QuietInv'
<1> USE ToolLedgerConstants DEF LedgerInv, QuietInv, TypeOK, Calls, Alive, Booking,
         Start, durable, chain
<1>1. TurnsAreOver'
  BY DEF TurnsAreOver
<1>2. InnerIsBooked'
  BY DEF InnerIsBooked
<1>3. AcceptedLast'
  BY DEF AcceptedLast
<1>4. OverIsOver'
  BY DEF OverIsOver, Idle
<1>5. CompletedIsQuiet'
  BY DEF OverIsOver, CompletedIsQuiet
<1> QED
  BY <1>1, <1>2, <1>3, <1>4, <1>5 DEF QuietInv

\* A call inside a sub-agent stays booked until the chain has taken it out.
LEMMA FinishQuiet ==
    ASSUME LedgerInv, TypeOK', QuietInv, NEW c \in Calls, Finish(c)
    PROVE  QuietInv'
<1> USE ToolLedgerConstants DEF LedgerInv, QuietInv, TypeOK, Calls, Alive, Booking,
         Finish, durable
<1>1. TurnsAreOver'
  BY DEF TurnsAreOver
<1>2. InnerIsBooked'
  <2>1. CASE c \in Inner
    <3>1. /\ Push("unmark", {c}) /\ UNCHANGED <<ledger, booked>>
          /\ st[c] = "running" /\ st'[c] = "closing" /\ \A d \in Inner \ {c} : st'[d] = st[d]
      BY <2>1
    <3> HIDE DEF Finish
    <3> QED
      BY <3>1, PushedInner
  <2>2. CASE c \notin Inner
    <3>1. ops' = ops /\ UNCHANGED <<ledger, booked>> /\ \A d \in Inner : st'[d] = st[d]
      BY <2>2
    <3> QED
      BY <3>1 DEF InnerIsBooked
  <2> QED
    BY <2>1, <2>2
<1>3. AcceptedLast'
  <2>1. CASE c \in Inner
    <3>1. /\ Push("unmark", {c}) /\ UNCHANGED pc
          /\ \A d \in Inner : st'[d] = st[d] \/ st'[d] = "closing"
      BY <2>1
    <3>2. pc = "settle" => \A d \in Inner : st'[d] # "booking"
      BY <3>1 DEF AcceptedLast
    <3> HIDE DEF Finish
    <3> QED
      BY <3>1, <3>2, PushedOrder
  <2>2. CASE c \notin Inner
    <3>1. ops' = ops /\ UNCHANGED pc /\ \A d \in Inner : st'[d] = st[d]
      BY <2>2
    <3> QED
      BY <3>1 DEF AcceptedLast
  <2> QED
    BY <2>1, <2>2
<1>4. OverIsOver'
  BY DEF OverIsOver, Idle
<1>5. CompletedIsQuiet'
  BY DEF OverIsOver, CompletedIsQuiet
<1> QED
  BY <1>1, <1>2, <1>3, <1>4, <1>5 DEF QuietInv

\* A native call is booked late.
LEMMA ProjectQuiet ==
    ASSUME LedgerInv, TypeOK', QuietInv, NEW c \in Calls, Project(c)
    PROVE  QuietInv'
<1> USE ToolLedgerConstants DEF LedgerInv, QuietInv, TypeOK, Calls, Alive, Booking,
         Project, durable
<1>1. TurnsAreOver'
  BY DEF TurnsAreOver
<1>2. InnerIsBooked'
  <2>1. /\ Push("mark", {c}) /\ UNCHANGED <<ledger, booked, st>> /\ c \notin Inner
    BY DEF TurnsAreOver
  <2> HIDE DEF Project
  <2> QED
    BY <2>1, PushedInner
<1>3. AcceptedLast'
  <2>1. Push("mark", {c}) /\ UNCHANGED <<pc, st>> /\ c \notin Inner
    BY DEF TurnsAreOver
  <2>2. pc = "settle" => \A d \in Inner : st'[d] # "booking"
    BY <2>1 DEF AcceptedLast
  <2> HIDE DEF Project
  <2> QED
    BY <2>1, <2>2, PushedOrder
<1>4. OverIsOver'
  BY DEF OverIsOver, Idle
<1>5. CompletedIsQuiet'
  BY DEF OverIsOver, CompletedIsQuiet
<1> QED
  BY <1>1, <1>2, <1>3, <1>4, <1>5 DEF QuietInv

\* The first operation of the chain is done.
LEMMA ApplyQuiet ==
    ASSUME LedgerInv, TypeOK', QuietInv, Apply
    PROVE  QuietInv'
<1> USE ToolLedgerConstants DEF LedgerInv, QuietInv, TypeOK, Calls, Alive, Booking,
         Apply, After, Writes, Resumed
<1>1. TurnsAreOver'
  BY DEF TurnsAreOver
<1>2. InnerIsBooked'
  <2>1. /\ Head(ops) = ops[1] /\ Head(ops) \in Op /\ 1 \in 1..Len(ops)
    BY Popped
  <2>2. \A c \in Inner \cap Head(ops).ids :
           \/ Head(ops).kind = "mark" /\ st[c] = "booking" /\ c \notin ledger
           \/ Head(ops).kind = "unmark" /\ st[c] = "closing"
    BY <2>1 DEF InnerIsBooked
  <2>3. \A c \in Inner \ Head(ops).ids :
           /\ st'[c] = st[c] /\ (c \in ledger' <=> c \in ledger)
           /\ c \in ledger \cap booked => c \in booked'
    BY <2>1 DEF Op
  <2>4. \A c \in Inner \cap Head(ops).ids :
           st'[c] = "ended" \/ (st'[c] = "booked" /\ c \in ledger' \cap booked')
    BY <2>1, <2>2 DEF Op
  <2>5. ops # << >> /\ ops' = Tail(ops)
    OBVIOUS
  <2> HIDE DEF Apply, LedgerInv
  <2> QED
    BY <2>3, <2>4, <2>5, PoppedInner DEF LedgerInv
<1>3. AcceptedLast'
  <2>1. /\ Head(ops) = ops[1] /\ 1 \in 1..Len(ops)
        /\ \A k \in 1..Len(ops') : ops'[k] = ops[k + 1] /\ k + 1 \in 1..Len(ops) /\ k + 1 # 1
    BY Popped
  <2>2. \A c \in Inner : st'[c] = "booking" => st[c] = "booking"
    OBVIOUS
  <2>3. CASE ops[1].kind # "accept"
    <3>1. pc' = pc
      BY <2>1, <2>3
    <3> HIDE DEF Apply, LedgerInv, TypeOK
    <3>2. pc' = "settle" => \A c \in Inner : st'[c] # "booking"
      BY <2>2, <3>1 DEF AcceptedLast
    <3>3. ASSUME NEW k \in 1..Len(ops'), ops'[k].kind = "accept"
          PROVE  /\ (pc \in Alive => pc \in {"sync", "last"})
                 /\ \A j \in 1..Len(ops') :
                       /\ pc \in Alive /\ ops'[j].kind = "accept" => j = k
                       /\ (pc = "last" /\ ops'[j].kind = "mark" /\ ops'[j].ids \cap Inner # {}) => j < k
      <4>1. ops[k + 1].kind = "accept" /\ k + 1 \in 1..Len(ops) /\ k \in Int
        BY <2>1, <3>3
      <4>2. pc \in Alive => pc \in {"sync", "last"}
        BY <4>1 DEF AcceptedLast
      <4>3. ASSUME NEW j \in 1..Len(ops')
            PROVE  /\ (pc \in Alive /\ ops'[j].kind = "accept") => j = k
                   /\ (pc = "last" /\ ops'[j].kind = "mark" /\ ops'[j].ids \cap Inner # {}) => j < k
        <5>1. ops'[j] = ops[j + 1] /\ j + 1 \in 1..Len(ops) /\ j \in Int
          BY <2>1
        <5>2. /\ (pc \in Alive /\ ops[j + 1].kind = "accept") => j + 1 = k + 1
              /\ (pc = "last" /\ ops[j + 1].kind = "mark" /\ ops[j + 1].ids \cap Inner # {}) => j + 1 < k + 1
          BY <4>1, <5>1 DEF AcceptedLast
        <5> QED
          BY <4>1, <5>1, <5>2
      <4> QED
        BY <4>2, <4>3
    <3> QED
      BY <3>1, <3>2, <3>3 DEF AcceptedLast
  <2>4. CASE ops[1].kind = "accept"
    <3>1. ASSUME pc \in Alive
          PROVE  /\ \A k \in 1..Len(ops') : ops'[k].kind # "accept"
                 /\ pc \in {"sync", "last"} /\ pc' \in {"request", "settle"}
                 /\ (pc' = "settle" => pc = "last")
      <4>1. \A j \in 1..Len(ops) : ops[j].kind = "accept" => j = 1
        BY <2>1, <2>4, <3>1 DEF AcceptedLast
      <4>2. pc \in {"sync", "last"}
        BY <2>1, <2>4, <3>1 DEF AcceptedLast
      <4>3. pc' \in {"request", "settle"} /\ (pc' = "settle" => pc = "last")
        BY <2>1, <2>4, <4>2
      <4> HIDE DEF Apply, LedgerInv, TypeOK
      <4> QED
        BY <2>1, <4>1, <4>2, <4>3
    <3>2. pc \notin Alive => pc' = pc
      OBVIOUS
    <3>3. pc = "last" => \A c \in Inner : st[c] # "booking"
      BY <2>1, <2>4 DEF AcceptedLast, InnerIsBooked
    <3> HIDE DEF Apply, LedgerInv, TypeOK
    <3>4. CASE pc \in Alive
      <4>1. pc' = "settle" => \A c \in Inner : st'[c] # "booking"
        BY <2>2, <3>1, <3>3, <3>4
      <4>2. \A k \in 1..Len(ops') : ops'[k].kind # "accept"
        BY <3>1, <3>4
      <4> QED
        BY <4>1, <4>2 DEF AcceptedLast
    <3>5. CASE pc \notin Alive
      BY <3>2, <3>5 DEF AcceptedLast
    <3> QED
      BY <3>4, <3>5
  <2> QED
    BY <2>3, <2>4
<1>4. OverIsOver'
  BY DEF OverIsOver, Idle
<1>5. CompletedIsQuiet'
  BY DEF OverIsOver, CompletedIsQuiet
<1> QED
  BY <1>1, <1>2, <1>3, <1>4, <1>5 DEF QuietInv

\* The first operation of the chain fails.
LEMMA WriteFailsQuiet ==
    ASSUME LedgerInv, TypeOK', QuietInv, WriteFails
    PROVE  QuietInv'
<1> USE ToolLedgerConstants DEF LedgerInv, QuietInv, TypeOK, Calls, Alive, Booking,
         WriteFails, After, Writes, Resumed
<1>1. TurnsAreOver'
  BY DEF TurnsAreOver
<1>2. InnerIsBooked'
  <2>1. /\ Head(ops) = ops[1] /\ Head(ops) \in Op /\ 1 \in 1..Len(ops)
    BY Popped
  <2>2. \A c \in Inner \cap Head(ops).ids :
           \/ Head(ops).kind = "mark" /\ st[c] = "booking" /\ c \notin ledger
           \/ Head(ops).kind = "unmark" /\ st[c] = "closing"
    BY <2>1 DEF InnerIsBooked
  <2>3. \A c \in Inner \ Head(ops).ids :
           /\ st'[c] = st[c] /\ (c \in ledger' <=> c \in ledger)
           /\ c \in ledger \cap booked => c \in booked'
    BY <2>1 DEF Op
  <2>4. \A c \in Inner \cap Head(ops).ids :
           st'[c] = "ended" \/ (st'[c] = "booked" /\ c \in ledger' \cap booked')
    BY <2>1, <2>2 DEF Op
  <2>5. ops # << >> /\ ops' = Tail(ops)
    OBVIOUS
  <2> HIDE DEF WriteFails, LedgerInv
  <2> QED
    BY <2>3, <2>4, <2>5, PoppedInner DEF LedgerInv
<1>3. AcceptedLast'
  BY DEF AcceptedLast
<1>4. OverIsOver'
  BY DEF OverIsOver, Idle
<1>5. CompletedIsQuiet'
  BY DEF OverIsOver, CompletedIsQuiet
<1> QED
  BY <1>1, <1>2, <1>3, <1>4, <1>5 DEF QuietInv

\* Nothing survives in memory.
LEMMA CrashQuiet ==
    ASSUME LedgerInv, TypeOK', QuietInv, Crash
    PROVE  QuietInv'
<1> USE ToolLedgerConstants DEF LedgerInv, QuietInv, TypeOK, Calls, Alive, Booking,
         Crash, durable
<1>1. TurnsAreOver'
  BY DEF TurnsAreOver
<1>2. InnerIsBooked'
  BY DEF InnerIsBooked
<1>3. AcceptedLast'
  BY DEF AcceptedLast
<1>4. OverIsOver'
  BY DEF OverIsOver, Idle
<1>5. CompletedIsQuiet'
  BY DEF OverIsOver, CompletedIsQuiet
<1> QED
  BY <1>1, <1>2, <1>3, <1>4, <1>5 DEF QuietInv

\* Recovery finds no call.
LEMMA RestartQuiet ==
    ASSUME LedgerInv, TypeOK', QuietInv, Restart
    PROVE  QuietInv'
<1> USE ToolLedgerConstants DEF LedgerInv, QuietInv, TypeOK, Calls, Alive, Booking,
         Restart, chain, calls
<1>1. TurnsAreOver'
  BY DEF TurnsAreOver
<1>2. InnerIsBooked'
  BY DEF InnerIsBooked
<1>3. AcceptedLast'
  BY DEF AcceptedLast
<1>4. OverIsOver'
  BY DEF OverIsOver, MemoryIsSound, Idle
<1>5. CompletedIsQuiet'
  BY DEF OverIsOver, CompletedIsQuiet
<1> QED
  BY <1>1, <1>2, <1>3, <1>4, <1>5 DEF QuietInv

\* A resumed run starts from the calls of the checkpoint.
LEMMA ResumeQuiet ==
    ASSUME LedgerInv, TypeOK', QuietInv, Resume
    PROVE  QuietInv'
<1> USE ToolLedgerConstants DEF LedgerInv, QuietInv, TypeOK, Calls, Alive, Booking, Resume
<1>1. TurnsAreOver'
  <2>1. /\ history' = saved /\ saved \subseteq Outer /\ UNCHANGED saved
        /\ st' = [c \in Calls |-> IF Top(c) \in saved THEN "ended" ELSE "none"]
    BY DEF TurnsAreOver
  <2>2. /\ \A c \in Platform : Top(c) = c
        /\ \A c \in Inner : Top(c) = Owner[c] /\ Owner[c] \in Platform
    BY DEF Top
  <2>3. \A c \in Platform : st'[c] # "none" => c \in history'
    BY <2>1, <2>2
  <2>4. \A c \in Inner : st'[c] # "none" => st'[Owner[c]] # "none"
    BY <2>1, <2>2
  <2> QED
    BY <2>1, <2>3, <2>4 DEF TurnsAreOver
<1>2. InnerIsBooked'
  <2>1. /\ ops' = << >> /\ ledger' = {}
        /\ \A c \in Calls : st'[c] \in {"none", "ended"}
    BY DEF OverIsOver, Idle
  <2> HIDE DEF Resume
  <2> QED
    BY <2>1 DEF InnerIsBooked
<1>3. AcceptedLast'
  <2>1. ops' = << >> /\ pc' = "filter"
    BY DEF OverIsOver, Idle
  <2> HIDE DEF Resume
  <2> QED
    BY <2>1 DEF AcceptedLast
<1>4. OverIsOver'
  BY DEF OverIsOver, Idle
<1>5. CompletedIsQuiet'
  BY DEF OverIsOver, CompletedIsQuiet
<1> QED
  BY <1>1, <1>2, <1>3, <1>4, <1>5 DEF QuietInv

\* Every step keeps it.
LEMMA QuietStep == LedgerInv /\ TypeOK' /\ QuietInv /\ [Next]_vars => QuietInv'
<1> SUFFICES ASSUME LedgerInv, TypeOK', QuietInv, [Next]_vars
             PROVE  QuietInv'
  OBVIOUS
<1>1. CASE Next
  BY <1>1, CheckpointQuiet, AskQuiet, AnswerQuiet, EndTurnQuiet, SettleQuiet, FailQuiet,
     AskInnerQuiet, DispatchQuiet, RefuseQuiet, StartQuiet, FinishQuiet, ProjectQuiet,
     ApplyQuiet, WriteFailsQuiet, CrashQuiet, RestartQuiet, ResumeQuiet DEF Next
<1>2. CASE UNCHANGED vars
  BY <1>2 DEF vars, durable, chain, calls, QuietInv, TurnsAreOver, InnerIsBooked,
         AcceptedLast,
     OverIsOver, CompletedIsQuiet, Idle
<1> QED
  BY <1>1, <1>2

\* A run never completes while a tool call of it is still on its way, in whatever
\* order the chain, the checkpoints and the calls of its sub-agents come
\* (persistCleanCheckpoint, over the durable set the ledger has written).
THEOREM QuietTheorem == Spec => []CompletedIsQuiet
<1>1. QuietInv => CompletedIsQuiet
  BY DEF QuietInv
<1>2. LedgerInv => TypeOK
  BY DEF LedgerInv
<1> QED
  BY InitQuiet, QuietStep, LedgerInductive, <1>1, <1>2, PTL DEF Spec
==============================================================================
