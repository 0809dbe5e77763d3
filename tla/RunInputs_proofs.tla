-------------------------- MODULE RunInputs_proofs --------------------------
(***************************************************************************)
(* What RunInputs guarantees for every set of message identities, every    *)
(* recheck bound and every length of run: its types, its input ledger, and *)
(* through the inductive invariant IInv the absence of double delivery and *)
(* the coverage of accepted messages by an answer; on top of IInv, the     *)
(* revision a goal verdict belongs to and what the checkpoint and the      *)
(* model request hold; and that every step of a run is a step of the       *)
(* mailbox of RunMailbox or leaves it as it is.                            *)
(***************************************************************************)
EXTENDS RunInputs, Sequences, SequenceTheorems, TLAPS

\* What a transaction does to the rows: it marks some of them, or appends one.
LEMMA MarkType ==
    ASSUME TypeOK, NEW S, NEW st \in {"queued", "leased", "acked"}
    PROVE  /\ Mark(S, st) \in [Seqs -> Row]
           /\ \A s \in Seqs : /\ Mark(S, st)[s].id = rows[s].id
                              /\ Mark(S, st)[s].st = (IF s \in S THEN st ELSE rows[s].st)
<1>1. \A s \in Seqs : rows[s] \in Row /\ [rows[s] EXCEPT !.st = st] \in Row
  BY DEF TypeOK, Row
<1>2. Mark(S, st) \in [Seqs -> Row]
  BY <1>1 DEF Mark
<1>3. \A s \in Seqs : [rows[s] EXCEPT !.st = st].id = rows[s].id
                      /\ [rows[s] EXCEPT !.st = st].st = st
  BY <1>1 DEF Row
<1> QED
  BY <1>2, <1>3 DEF Mark

LEMMA AppendType ==
    ASSUME TypeOK, NEW i \in Inputs, Enqueue(i)
    PROVE  /\ next' \in Nat \ {0}
           /\ rows' \in [1..(next' - 1) -> Row]
<1>1. CASE Stored(i)
  BY <1>1 DEF Enqueue, TypeOK, Seqs
<1>2. CASE ~Stored(i)
  <2>1. [id |-> i, st |-> "queued"] \in Row
    BY DEF Row
  <2>2. \A s \in 1..next : s # next => rows[s] \in Row
    BY DEF TypeOK, Seqs
  <2>3. next' = next + 1 /\ (next + 1) - 1 = next
    BY <1>2 DEF Enqueue, TypeOK
  <2> QED
    BY <1>2, <2>1, <2>2, <2>3 DEF Enqueue, TypeOK
<1> QED
  BY <1>1, <1>2

\* The synchronisation of the objective keeps goal and revision well formed.
LEMMA SyncType ==
    ASSUME TypeOK
    PROVE  SyncedGoal \in Goals
BY DEF TypeOK, SyncedGoal, Advance, Goals

\* The Boolean variables, apart from the rest: they need another prover.
LEMMA InitFlags == Init => Flags
BY Zenon DEF Init, Flags

LEMMA NextFlags == Flags /\ [Next]_vars => Flags'
<1> SUFFICES ASSUME Flags, [Next]_vars PROVE Flags'
  OBVIOUS
<1> USE DEF Flags, saved, volatile, window, stop
<1>1. CASE UNCHANGED vars
  BY <1>1, Zenon DEF vars
<1>2. CASE Clients
  BY <1>2, Zenon DEF Clients, SteerIdle, Enqueue, EnqueueDone, EnqueueFails, SteerClosed
<1>3. CASE MarkRunning \/ Open \/ Checkpoint \/ LeaseInputs \/ Stage \/ CallTools \/ EndStream
  BY <1>3, Zenon DEF MarkRunning, Open, Checkpoint, SaveState, LeaseInputs, Stage,
     CallTools, EndStream
<1>4. CASE Interrupt \/ Snapshot \/ Repair \/ BeginJudge \/ VerdictIncomplete \/ Settle
  BY <1>4, Zenon DEF Interrupt, Snapshot, Repair, BeginJudge, VerdictIncomplete, Settle
<1>5. CASE \E target \in Executing : Claim(target)
  BY <1>5, Zenon DEF Claim
<1>6. CASE Complete \/ ExtractMemories \/ Abandon \/ Close
  BY <1>6, Zenon DEF Complete, ExtractMemories, Abandon, Close, Forget
<1>7. CASE Environment
  BY <1>7, Zenon DEF Environment, Launch, Cancel, CancelGoal, Decide, Crash, Restart, Forget
<1> QED
  BY <1>1, <1>2, <1>3, <1>4, <1>5, <1>6, <1>7
  DEF Next, Executor, ClaimClarification, ClaimRefusal, ClaimAnswer, VerdictSatisfied,
      VerdictRefused, Executing

LEMMA InitType == Init => TypeOK
<1> SUFFICES ASSUME Init PROVE TypeOK
  OBVIOUS
<1>1. Seqs = {}
  BY DEF Init, Seqs
<1>2. rows \in [Seqs -> Row]
  BY <1>1 DEF Init
<1> QED
  BY <1>2, InitFlags, RunInputsConstants DEF Init, TypeOK, Goals, Status, NoLease

LEMMA NextType == TypeOK /\ [Next]_vars => TypeOK'
<1> SUFFICES ASSUME TypeOK, [Next]_vars PROVE TypeOK'
  OBVIOUS
<1> Flags'
  BY NextFlags DEF TypeOK
<1> USE DEF TypeOK, ledger, saved, aim, volatile, window, input, bound, stop, Executing
<1>1. CASE UNCHANGED vars
  BY <1>1 DEF vars, Seqs
<1>2. ASSUME NEW i \in Inputs, SteerIdle(i) \/ SteerClosed(i) PROVE TypeOK'
  BY <1>2 DEF SteerIdle, SteerClosed, Seqs
<1>3. ASSUME NEW i \in Inputs, Enqueue(i) PROVE TypeOK'
  BY <1>3, AppendType DEF Enqueue, Seqs
<1>4. ASSUME NEW i \in Inputs, EnqueueDone(i) \/ EnqueueFails(i) PROVE TypeOK'
  BY <1>4, SyncType DEF EnqueueDone, EnqueueFails, Sync, Seqs
<1>5. CASE Open
  <2>1. rows' \in [Seqs -> Row]'
    <3>1. next' = next
      BY <1>5 DEF Open
    <3>2. CASE UNCHANGED rows
      BY <3>1, <3>2 DEF Seqs
    <3>3. CASE ~UNCHANGED rows
      <4>1. PICK S : rows' = Mark(S, "queued")
        BY <1>5, <3>3 DEF Open, Requeue
      <4> QED
        BY <3>1, <4>1, MarkType DEF Seqs
    <3> QED
      BY <3>2, <3>3
  <2> QED
    BY <1>5, <2>1, SyncType DEF Open, Requeue, Sync, NoLease
<1>6. CASE Checkpoint
  <2>1. rows' \in [Seqs -> Row]'
    <3>1. CASE pending = NoLease
      BY <1>6, <3>1 DEF Checkpoint, SaveState, Seqs
    <3>2. CASE pending # NoLease
      <4>1. rows' = Mark(Span(lease), "acked") /\ next' = next
        BY <1>6, <3>2 DEF Checkpoint, SaveState
      <4> QED
        BY <4>1, MarkType DEF Seqs
    <3> QED
      BY <3>1, <3>2
  <2> QED
    BY <1>6, <2>1 DEF Checkpoint, SaveState, NoLease
<1>7. CASE LeaseInputs
  <2>1. rows' \in [Seqs -> Row]'
    <3>1. CASE QueuedInputs = {}
      BY <1>7, <3>1 DEF LeaseInputs, Seqs
    <3>2. CASE QueuedInputs # {}
      <4>1. rows' = Mark(QueuedInputs, "leased") /\ next' = next
        BY <1>7, <3>2 DEF LeaseInputs
      <4> QED
        BY <4>1, MarkType DEF Seqs
    <3> QED
      BY <3>1, <3>2
  <2>2. lease' \in [from : Nat, to : Nat]
    BY <1>7 DEF LeaseInputs
  <2> QED
    BY <1>7, <2>1, <2>2 DEF LeaseInputs
<1>8. CASE Stage
  <2>1. LeasedNow \in SUBSET Nat
    BY DEF LeasedNow, Span
  <2> QED
    BY <1>8, <2>1, SyncType DEF Stage, Sync, Seqs
<1>9. CASE Launch \/ MarkRunning \/ CallTools \/ EndStream
  BY <1>9 DEF Launch, MarkRunning, CallTools, EndStream, Seqs, Status
<1>17. CASE Interrupt
  <2>1. asked' \in 0..Approvals /\ status' \in Status /\ pc' = "closing"
    BY <1>17 DEF Interrupt, Status
  <2> QED
    BY <1>17, <2>1 DEF Interrupt, Seqs
<1>10. CASE Snapshot \/ Repair
  <2>1. mem' \in {mem, session} /\ pc' \in {"judge", "deliver", "filter"} /\ cand' \in Nat
        /\ lost' \in {lost, since}
    BY <1>10 DEF Snapshot, Repair, NewSegment
  <2>2. goal' \in Goals /\ objRev' \in Nat
    BY <1>10, SyncType DEF Snapshot, Repair, Sync
  <2> QED
    BY <1>10, <2>1, <2>2 DEF Snapshot, Repair, Seqs
<1>11. ASSUME NEW target \in Executing, Claim(target) PROVE TypeOK'
  BY <1>11, SyncType DEF Claim, NewSegment, Sync, Seqs
<1>12. CASE BeginJudge \/ VerdictIncomplete
  <2>1. goal' \in Goals
    <3>1. [SyncedGoal EXCEPT !.st = "evaluating", !.rev = cand] \in Goals
      BY SyncType DEF Goals
    <3>2. [SyncedGoal EXCEPT !.st = "active", !.n = goal.n + 1] \in Goals
      <4>1. goal.n + 1 \in Nat
        BY DEF Goals
      <4> QED
        BY <4>1, SyncType DEF Goals
    <3> QED
      BY <1>12, <3>1, <3>2, SyncType DEF BeginJudge, VerdictIncomplete
  <2> QED
    BY <1>12, <2>1 DEF BeginJudge, VerdictIncomplete, NewSegment, Seqs
<1>13. CASE Settle \/ Complete \/ ExtractMemories
  <2>1. goal' \in Goals /\ status' \in Status
    <3>1. [st |-> "satisfied", rev |-> cand, n |-> goal.n] \in Goals
          /\ [goal EXCEPT !.st = "ended"] \in Goals
      BY DEF Goals
    <3> QED
      BY <1>13, <3>1 DEF Settle, Complete, ExtractMemories, Status
  <2>2. CASE Settle
    BY <2>1, <2>2 DEF Settle, Seqs
  <2>3. CASE Complete \/ ExtractMemories
    BY <2>1, <2>3 DEF Complete, ExtractMemories, Seqs
  <2> QED
    BY <1>13, <2>2, <2>3
<1>14. CASE Abandon \/ Close
  <2>1. CASE Abandon
    BY <1>14, <2>1 DEF Abandon, Goals, Seqs, Status
  <2>2. CASE Close
    <3>1. pending' \in [from : Nat, to : Nat] /\ mem' \in SUBSET Nat /\ session' \in SUBSET Nat
          /\ modelRev' \in Nat /\ cand' \in Nat /\ since' \in Nat /\ pc' = "idle"
      BY <2>2 DEF Close, Forget, NoLease
    <3> QED
      BY <2>2, <3>1 DEF Close, Seqs
  <2> QED
    BY <1>14, <2>1, <2>2
<1>15. CASE Cancel \/ CancelGoal \/ Decide
  <2>1. CASE Cancel \/ CancelGoal
    BY <1>15, <2>1 DEF Cancel, CancelGoal, Goals, Seqs, Status
  <2>2. CASE Decide
    <3>1. asked' \in 0..Approvals /\ status' \in Status
      BY <2>2, RunInputsConstants DEF Decide, Status
    <3> QED
      BY <2>2, <3>1 DEF Decide, Seqs
  <2> QED
    BY <1>15, <2>1, <2>2
<1>16. CASE Crash \/ Restart
  <2>1. CASE Crash
    <3>1. pending' \in [from : Nat, to : Nat] /\ mem' \in SUBSET Nat
          /\ session' \in SUBSET Nat /\ modelRev' \in Nat /\ cand' \in Nat /\ since' \in Nat
      BY <2>1 DEF Crash, Forget, NoLease
    <3>2. enq' \in SUBSET Inputs /\ cancelling' \in SUBSET Goals /\ pc' = "down"
      BY <2>1 DEF Crash
    <3> QED
      BY <2>1, <3>1, <3>2 DEF Crash, Seqs
  <2>2. CASE Restart
    BY <2>2 DEF Restart, Seqs, Status
  <2> QED
    BY <1>16, <2>1, <2>2
<1> QED
  BY <1>1, <1>2, <1>3, <1>4, <1>5, <1>6, <1>7, <1>8, <1>9, <1>10, <1>11, <1>12, <1>13,
     <1>14, <1>15, <1>16, <1>17
  DEF Next, Clients, Executor, Environment, ClaimClarification, ClaimRefusal, ClaimAnswer, VerdictSatisfied, VerdictRefused

\* RunInputs never leaves its types.
THEOREM TypeCorrect == Spec => []TypeOK
<1>1. TypeOK /\ UNCHANGED vars => TypeOK'
  BY NextType
<1> QED
  BY InitType, NextType, PTL DEF Spec

-----------------------------------------------------------------------------
(* The ledger: only Enqueue, Open, Checkpoint and LeaseInputs touch it.     *)

Books == LedgerConsistent /\ LeaseFollowsExecutor

LEMMA EnqueueBooks ==
    ASSUME TypeOK, Books, NEW i \in Inputs, Enqueue(i)
    PROVE  Books'
<1>1. CASE Stored(i)
  BY <1>1 DEF Enqueue, TypeOK, Books, LedgerConsistent, LeaseFollowsExecutor, Acked,
     Leased, Seqs, input
<1>2. CASE ~Stored(i)
  <2>1. /\ next' = next + 1 /\ cursor' = cursor /\ lease' = lease /\ pending' = pending
        /\ pc' = pc
    BY <1>2 DEF Enqueue, input
  <2>2. \A s \in 1..next : rows'[s] = (IF s = next THEN [id |-> i, st |-> "queued"] ELSE rows[s])
    BY <1>2 DEF Enqueue
  <2>3. Seqs' = 1..next
    BY <2>1 DEF Seqs, TypeOK
  <2>4. LeaseFollowsExecutor'
    BY <2>1 DEF Books, LeaseFollowsExecutor
  <2>5. LedgerConsistent'
    BY <2>1, <2>2, <2>3 DEF TypeOK, Books, LedgerConsistent, Acked, Leased, Seqs, Span
  <2> QED
    BY <2>4, <2>5 DEF Books
<1> QED
  BY <1>1, <1>2

LEMMA OpenBooks ==
    ASSUME TypeOK, Books, Open
    PROVE  Books'
<1>1. next' = next /\ cursor' = cursor /\ lease' = NoLease /\ pending' = NoLease /\ pc' = "filter"
  BY DEF Open, Requeue
<1>2. LeaseFollowsExecutor'
  BY <1>1 DEF LeaseFollowsExecutor, Between, Claimed, Staging
<1>3. CASE lease = NoLease
  <2>1. rows' = rows
    BY <1>3 DEF Open, Requeue
  <2> QED
    BY <1>1, <1>2, <1>3, <2>1 DEF TypeOK, Books, LedgerConsistent, Acked, Leased, Seqs
<1>4. CASE lease # NoLease
  <2>1. rows' = Mark({s \in Span(lease) : rows[s].st = "leased"}, "queued")
    BY <1>4 DEF Open, Requeue
  <2>2. \A s \in Seqs : rows'[s].st = IF s \in Span(lease) /\ rows[s].st = "leased"
                                    THEN "queued" ELSE rows[s].st
    BY <2>1, MarkType
  <2> QED
    BY <1>1, <1>2, <1>4, <2>2 DEF TypeOK, Books, LedgerConsistent, Acked, Leased, Seqs
<1> QED
  BY <1>3, <1>4

LEMMA CheckpointBooks ==
    ASSUME TypeOK, Books, Checkpoint
    PROVE  Books'
<1>1. next' = next /\ lease' = NoLease /\ pending' = NoLease /\ pc' \in {"consume", "candidate"}
      /\ pc \in Staging /\ pending = lease
  BY DEF Checkpoint, SaveState, Books, LeaseFollowsExecutor, Staging
<1>2. LeaseFollowsExecutor'
  BY <1>1 DEF LeaseFollowsExecutor, Staging
<1>3. CASE pending = NoLease
  <2>1. rows' = rows /\ cursor' = cursor
    BY <1>3 DEF Checkpoint, SaveState
  <2> QED
    BY <1>1, <1>2, <1>3, <2>1 DEF TypeOK, Books, LedgerConsistent, Acked, Leased, Seqs
<1>4. CASE pending # NoLease
  <2>1. rows' = Mark(Span(lease), "acked") /\ cursor' = lease.to
    BY <1>4 DEF Checkpoint, SaveState
  <2>2. \A s \in Seqs : rows'[s].st = IF s \in Span(lease) THEN "acked" ELSE rows[s].st
    BY <2>1, MarkType
  <2>3. lease.from = cursor + 1 /\ lease.to \in Nat /\ lease.from <= lease.to /\ lease.to < next
    BY <1>1, <1>4 DEF TypeOK, Books, LedgerConsistent
  <2>4. \A s \in Seqs : (s \in Span(lease) <=> cursor < s /\ s <= lease.to)
    BY <2>3 DEF Span, Seqs, TypeOK
  <2> QED
    BY <1>1, <1>2, <1>4, <2>1, <2>2, <2>3, <2>4
    DEF TypeOK, Books, LedgerConsistent, Acked, Leased, Seqs
<1> QED
  BY <1>3, <1>4

LEMMA LeaseBooks ==
    ASSUME TypeOK, Books, LeaseInputs
    PROVE  Books'
<1>1. next' = next /\ cursor' = cursor /\ lease = NoLease /\ pending' = pending /\ pc' = "stage"
      /\ QueuedInputs = (cursor + 1)..(next - 1)
  BY DEF LeaseInputs, volatile, input
<1>2. LeaseFollowsExecutor' /\ pending = NoLease
  BY <1>1 DEF LeaseFollowsExecutor, Staging, Between, Claimed, Books, LedgerConsistent
<1>3. CASE QueuedInputs = {}
  <2>1. rows' = rows /\ lease' = NoLease
    BY <1>1, <1>3 DEF LeaseInputs
  <2> QED
    BY <1>1, <1>2, <2>1 DEF TypeOK, Books, LedgerConsistent, Acked, Leased, Seqs
<1>4. CASE QueuedInputs # {}
  <2>1. rows' = Mark(QueuedInputs, "leased") /\ lease' = [from |-> cursor + 1, to |-> next - 1]
    BY <1>4 DEF LeaseInputs
  <2>2. \A s \in Seqs : rows'[s].st = IF s \in QueuedInputs THEN "leased" ELSE rows[s].st
    BY <2>1, MarkType
  <2>3. cursor + 1 <= next - 1 /\ lease'.from = cursor + 1 /\ lease'.to = next - 1
    BY <1>1, <1>4, <2>1 DEF TypeOK
  <2>4. \A s \in Seqs : s \in QueuedInputs <=> s > cursor
    BY <1>1 DEF TypeOK, Seqs
  <2>5. \A s \in Seqs : s \in QueuedInputs <=> s \in Span(lease')
    BY <1>1, <2>3 DEF Span
  <2>6. lease' # NoLease
    BY <2>3 DEF NoLease, TypeOK
  <2> QED
    BY <1>1, <1>2, <2>2, <2>3, <2>4, <2>5, <2>6 DEF TypeOK, Books, LedgerConsistent, Acked, Leased, Seqs
<1> QED
  BY <1>3, <1>4

\* The executor reaches a stage that needs a settled lease only from one that has it.
LEMMA NextBooks == TypeOK /\ Books /\ [Next]_vars => Books'
<1> SUFFICES ASSUME TypeOK, Books, [Next]_vars PROVE Books'
  OBVIOUS
<1>1. ASSUME UNCHANGED <<ledger, pending>>, LeaseFollowsExecutor' PROVE Books'
  BY <1>1 DEF Books, LedgerConsistent, Acked, Leased, Seqs, ledger
<1> USE DEF Books, LeaseFollowsExecutor, Between, Claimed, Staging
<1>2. CASE UNCHANGED vars
  BY <1>1, <1>2 DEF vars, ledger, volatile, input
<1>3. ASSUME NEW i \in Inputs,
             SteerIdle(i) \/ SteerClosed(i) \/ EnqueueDone(i) \/ EnqueueFails(i)
      PROVE  Books'
  BY <1>1, <1>3 DEF SteerIdle, SteerClosed, EnqueueDone, EnqueueFails, ledger, volatile, input
<1>4. CASE Stage
  <2>1. pending' = lease /\ UNCHANGED ledger /\ pc' = "model"
    BY <1>4 DEF Stage
  <2>2. LedgerConsistent'
    BY <2>1 DEF LedgerConsistent, Acked, Leased, Seqs, ledger
  <2> QED
    BY <2>1, <2>2 DEF ledger
<1>5. CASE Launch \/ MarkRunning \/ CallTools \/ EndStream \/ Interrupt
  BY <1>1, <1>5 DEF Launch, MarkRunning, CallTools, EndStream, Interrupt, ledger, volatile, input
<1>6. CASE Snapshot \/ Repair \/ BeginJudge \/ VerdictIncomplete
  <2>1. lease = NoLease /\ pc \in Between /\ UNCHANGED <<ledger, pending>>
        /\ pc' \in {"judge", "deliver", "judging", "filter"}
    BY <1>6 DEF Snapshot, Repair, BeginJudge, VerdictIncomplete, NewSegment, ledger
  <2>2. pending = NoLease
    BY <2>1 DEF LedgerConsistent
  <2> QED
    BY <1>1, <2>1, <2>2 DEF ledger
<1>7. ASSUME NEW target \in Claimed, pc \in Between, Claim(target) PROVE Books'
  <2>1. lease = NoLease /\ UNCHANGED <<ledger, pending>> /\ pc' \in {target, "filter"}
    BY <1>7 DEF Claim, NewSegment
  <2>2. pending = NoLease
    BY <2>1 DEF LedgerConsistent
  <2> QED
    BY <1>1, <2>1, <2>2 DEF ledger
<1>8. CASE Settle \/ Complete \/ ExtractMemories \/ Abandon
  BY <1>1, <1>8 DEF Settle, Complete, ExtractMemories, Abandon, ledger, volatile, input
<1>9. CASE Cancel \/ CancelGoal \/ Decide \/ Restart
  BY <1>1, <1>9 DEF Cancel, CancelGoal, Decide, Restart, ledger, volatile, input
<1>10. CASE Crash \/ Close
  <2>1. pending' = NoLease /\ UNCHANGED ledger /\ pc' \in {"down", "idle"}
    BY <1>10 DEF Crash, Close, Forget
  <2> QED
    BY <2>1 DEF LedgerConsistent, Acked, Leased, Seqs, ledger
<1> QED
  BY <1>2, <1>3, <1>4, <1>5, <1>6, <1>7, <1>8, <1>9, <1>10, EnqueueBooks, OpenBooks,
     CheckpointBooks, LeaseBooks
  DEF Next, Clients, Executor, Environment, ClaimClarification, ClaimRefusal, ClaimAnswer,
      VerdictSatisfied, VerdictRefused

LEMMA InitBooks == Init => Books
BY DEF Init, Books, LedgerConsistent, LeaseFollowsExecutor, Staging, Between, Claimed, Seqs

\* The cursor, the lease and the rows of the input ledger agree in every
\* reachable state, whatever crashes, retries and recoveries interleave.
THEOREM LedgerTheorem == Spec => []LedgerConsistent
<1>1. TypeOK /\ Books /\ [Next]_vars => TypeOK' /\ Books'
  BY NextType, NextBooks
<1>2. Books => LedgerConsistent
  BY DEF Books
<1> QED
  BY InitType, InitBooks, <1>1, <1>2, PTL DEF Spec

-----------------------------------------------------------------------------
(* What the executor's memories hold while inputs are staged.              *)

Memory == NoDoubleDelivery /\ MemoryFollowsLease

\* Where the memories are kept, a step that leaves the ledger and the blob alone
\* has only to bound the two memories by the cursor.
LEMMA KeptMemory ==
    ASSUME TypeOK, Books, Memory, UNCHANGED <<cursor, lease, blob>>,
           mem' \in {mem, session}, session' = session, lease = NoLease,
           pc \in Between, pc' # "stage"
    PROVE  Memory'
BY DEF Memory, NoDoubleDelivery, MemoryFollowsLease, Staged

LEMMA NextMemory == TypeOK /\ Books /\ Memory /\ [Next]_vars => Memory'
<1> SUFFICES ASSUME TypeOK, Books, Memory, [Next]_vars PROVE Memory'
  OBVIOUS
<1>0. LedgerConsistent /\ LeaseFollowsExecutor /\ NoDoubleDelivery /\ MemoryFollowsLease
  BY DEF Books, Memory
<1>1. ASSUME UNCHANGED <<cursor, lease, blob, mem, session>>,
             \/ pc' = pc
             \/ pc' \notin Staging \cup Between \cup {"stage"}
             \/ pc \in Staging /\ pc' \in Staging
             \/ pc \in Between /\ pc' \in Between
      PROVE  Memory'
  BY <1>0, <1>1 DEF Memory, NoDoubleDelivery, MemoryFollowsLease, Staged, Between, Claimed, Staging, Span
<1> USE DEF Between, Claimed, Staging
<1>2. CASE UNCHANGED vars
  BY <1>1, <1>2 DEF vars, ledger, saved, volatile, input
<1>3. ASSUME NEW i \in Inputs, SteerIdle(i) \/ SteerClosed(i) \/ EnqueueDone(i) \/ EnqueueFails(i)
                               \/ Enqueue(i)
      PROVE  Memory'
  BY <1>1, <1>3 DEF SteerIdle, SteerClosed, EnqueueDone, EnqueueFails, Enqueue, ledger, saved, volatile, input
<1>4. CASE Open
  <2>1. /\ cursor' = cursor /\ lease' = NoLease /\ blob' = blob /\ pc' = "filter"
        /\ mem' \in {blob, {}} /\ session' \in {blob, {}}
    BY <1>4 DEF Open, Requeue, saved
  <2> QED
    BY <1>0, <2>1 DEF Memory, NoDoubleDelivery, MemoryFollowsLease, Staged
<1>5. CASE Checkpoint
  <2>1. blob' = mem /\ UNCHANGED <<mem, session>> /\ lease' = NoLease
        /\ pc \in Staging /\ pc' \in {"consume", "candidate"}
    BY <1>5 DEF Checkpoint, SaveState
  <2>2. cursor' = Staged
    BY <1>0, <1>5, <2>1 DEF Checkpoint, SaveState, Staged, LeaseFollowsExecutor
  <2> QED
    BY <1>0, <2>1, <2>2 DEF Memory, NoDoubleDelivery, MemoryFollowsLease
<1>6. CASE LeaseInputs
  <2>1. UNCHANGED <<cursor, blob, mem, session>> /\ pc = "consume" /\ pc' = "stage"
        /\ lease' \in {NoLease, [from |-> cursor + 1, to |-> next - 1]}
    BY <1>6 DEF LeaseInputs, saved, volatile, input
  <2>2. mem \subseteq 1..cursor /\ session \subseteq 1..cursor /\ blob \subseteq 1..cursor
    BY <1>0, <2>1 DEF MemoryFollowsLease, NoDoubleDelivery
  <2>3. lease' # NoLease => (1..cursor) \cap Span(lease)' = {}
    BY <2>1 DEF TypeOK, Span
  <2> QED
    BY <2>1, <2>2, <2>3 DEF Memory, NoDoubleDelivery, MemoryFollowsLease
<1>7. CASE Stage
  <2>1. UNCHANGED <<cursor, lease, blob>> /\ pc = "stage" /\ pc' = "model"
        /\ mem' = mem \cup LeasedNow /\ session' = session \cup LeasedNow
    BY <1>7 DEF Stage, ledger, saved
  <2>2. mem \subseteq 1..cursor /\ session \subseteq 1..cursor /\ blob \subseteq 1..cursor
    BY <1>0, <2>1 DEF MemoryFollowsLease, NoDoubleDelivery
  <2>3. LeasedNow \subseteq 1..Staged /\ 1..cursor \subseteq 1..Staged
    <3>1. CASE lease = NoLease
      BY <3>1 DEF LeasedNow, Staged
    <3>2. CASE lease # NoLease
      <4>1. lease.from = cursor + 1 /\ lease.from <= lease.to
            /\ lease.to \in Nat /\ cursor \in Nat
        BY <1>0, <3>2 DEF LedgerConsistent, TypeOK
      <4> QED
        BY <3>2, <4>1 DEF LeasedNow, Staged, Span
    <3> QED
      BY <3>1, <3>2
  <2>4. mem' \subseteq 1..Staged /\ session' \subseteq 1..Staged
    BY <2>1, <2>2, <2>3
  <2>5. Staged' = Staged
    BY <2>1 DEF Staged
  <2> QED
    BY <2>1, <2>2, <2>4, <2>5 DEF Memory, NoDoubleDelivery, MemoryFollowsLease
<1>8. CASE Launch \/ MarkRunning \/ CallTools \/ EndStream \/ Interrupt
  BY <1>1, <1>8 DEF Launch, MarkRunning, CallTools, EndStream, Interrupt, ledger, saved, volatile, input
<1>9. CASE Snapshot \/ Repair \/ BeginJudge \/ VerdictIncomplete
  BY <1>0, <1>9, KeptMemory DEF Snapshot, Repair, BeginJudge, VerdictIncomplete, NewSegment, ledger, saved,
     LeaseFollowsExecutor
<1>10. ASSUME NEW target \in Claimed, pc \in Between, Claim(target) PROVE Memory'
  BY <1>0, <1>10, KeptMemory DEF Claim, NewSegment, ledger, saved, LeaseFollowsExecutor
<1>11. CASE Settle \/ Complete \/ ExtractMemories \/ Abandon
  BY <1>1, <1>11 DEF Settle, Complete, ExtractMemories, Abandon, ledger, saved, volatile, input
<1>12. CASE Cancel \/ CancelGoal \/ Decide \/ Restart
  BY <1>1, <1>12 DEF Cancel, CancelGoal, Decide, Restart, ledger, saved, volatile, input
<1>13. CASE Crash \/ Close
  <2>1. UNCHANGED <<cursor, blob>> /\ pc' \in {"down", "idle"}
    BY <1>13 DEF Crash, Close, ledger, saved
  <2> QED
    BY <1>0, <2>1 DEF Memory, NoDoubleDelivery, MemoryFollowsLease
<1> QED
  BY <1>2, <1>3, <1>4, <1>5, <1>6, <1>7, <1>8, <1>9, <1>10, <1>11, <1>12, <1>13
  DEF Next, Clients, Executor, Environment, ClaimClarification, ClaimRefusal, ClaimAnswer,
      VerdictSatisfied, VerdictRefused

LEMMA InitMemory == Init => Memory
BY DEF Init, Memory, NoDoubleDelivery, MemoryFollowsLease, Staging, Between, Claimed

\* No message the client was promised is put before the model twice.
THEOREM NoDoubleDeliveryTheorem == Spec => []NoDoubleDelivery
<1>1. TypeOK /\ Books /\ Memory /\ [Next]_vars => TypeOK' /\ Books' /\ Memory'
  BY NextType, NextBooks, NextMemory
<1>2. Memory => NoDoubleDelivery
  BY DEF Memory
<1> QED
  BY InitType, InitBooks, InitMemory, <1>1, <1>2, PTL DEF Spec

-----------------------------------------------------------------------------
(* What a terminal claim fixes until the run is answered.                  *)

LEMMA NextClaim == TypeOK /\ Books /\ ClaimIsFinal /\ [Next]_vars => ClaimIsFinal'
<1> SUFFICES ASSUME TypeOK, Books, ClaimIsFinal, [Next]_vars PROVE ClaimIsFinal'
  OBVIOUS
<1> DEFINE Rest == {"memory", "closing", "idle", "down"}
<1>1. ASSUME UNCHANGED <<next, cursor, accepting, asked>>, lease' = lease, status' = status,
             \/ pc' = pc
             \/ /\ pc' \notin {"deliver", "judge", "judging"} \cup Claimed
                /\ status \notin Answered \/ pc' \in Rest
      PROVE  ClaimIsFinal'
  BY <1>1 DEF ClaimIsFinal
<1> USE DEF Claimed, Answered, Over, saved
<1>2. CASE UNCHANGED vars
  BY <1>1, <1>2 DEF vars, ledger, volatile, window
<1>3. ASSUME NEW i \in Inputs, SteerIdle(i) \/ SteerClosed(i) \/ EnqueueDone(i) \/ EnqueueFails(i)
      PROVE  ClaimIsFinal'
  BY <1>1, <1>3 DEF SteerIdle, SteerClosed, EnqueueDone, EnqueueFails, ledger, volatile, window
<1>4. ASSUME NEW i \in Inputs, Enqueue(i) PROVE ClaimIsFinal'
  BY <1>4 DEF Enqueue, ClaimIsFinal
<1>5. CASE Launch \/ MarkRunning \/ Open \/ Checkpoint \/ LeaseInputs \/ Stage
  BY <1>5 DEF Launch, MarkRunning, Open, Checkpoint, LeaseInputs, Stage, ClaimIsFinal, ledger
<1>6. CASE CallTools \/ EndStream \/ Interrupt \/ Snapshot \/ Repair \/ BeginJudge \/ VerdictIncomplete
  BY <1>6 DEF CallTools, EndStream, Interrupt, Snapshot, Repair, BeginJudge, VerdictIncomplete,
     NewSegment, ClaimIsFinal
<1>7. ASSUME NEW target \in Claimed, pc \in {"deliver", "judge", "judging"}, Claim(target)
      PROVE  ClaimIsFinal'
  <2>1. status' = status /\ status \notin Answered
    BY <1>7 DEF Claim, ClaimIsFinal
  <2>2. CASE RevisionMatches(cand)
    BY <1>7, <2>1, <2>2 DEF Claim, RevisionMatches, ClaimIsFinal, ledger, TypeOK
  <2>3. CASE ~RevisionMatches(cand)
    BY <1>7, <2>1, <2>3 DEF Claim, NewSegment, ClaimIsFinal
  <2> QED
    BY <2>2, <2>3
<1>8. CASE Settle
  BY <1>8 DEF Settle, ClaimIsFinal, ledger, volatile, window
<1>9. CASE Complete
  <2>1. pc \in Claimed /\ lease = NoLease /\ cursor = next - 1
    BY <1>9 DEF Complete, Books, LeaseFollowsExecutor, Between, ClaimIsFinal
  <2> QED
    BY <1>9, <2>1 DEF Complete, ClaimIsFinal, ledger
<1>10. CASE ExtractMemories \/ Abandon \/ Close
  BY <1>10 DEF ExtractMemories, Abandon, Unfinished, Executing, Close, ClaimIsFinal, ledger
<1>11. CASE Cancel \/ CancelGoal \/ Decide
  BY <1>11 DEF Cancel, CancelGoal, Decide, ClaimIsFinal, ledger, window
<1>12. CASE Crash \/ Restart
  BY <1>12 DEF Crash, Restart, ClaimIsFinal, ledger
<1> QED
  BY <1>2, <1>3, <1>4, <1>5, <1>6, <1>7, <1>8, <1>9, <1>10, <1>11, <1>12
  DEF Next, Clients, Executor, Environment, ClaimClarification, ClaimRefusal, ClaimAnswer,
      VerdictSatisfied, VerdictRefused

LEMMA InitClaim == Init => ClaimIsFinal
BY DEF Init, ClaimIsFinal, Claimed, Answered

\* The conjunction is inductive, so every part of it holds.
THEOREM Inductive == Spec => []IInv
<1>1. Init => IInv
  BY InitType, InitBooks, InitMemory, InitClaim DEF IInv, Books, Memory
<1>2. IInv /\ [Next]_vars => IInv'
  BY NextType, NextBooks, NextMemory, NextClaim DEF IInv, Books, Memory
<1> QED
  BY <1>1, <1>2, PTL DEF Spec

\* A run that ended with an answer had taken every message it accepted.
THEOREM AnswerTheorem == Spec => []AnswerCoversInputs
<1>1. IInv => AnswerCoversInputs
  BY DEF IInv, ClaimIsFinal, AnswerCoversInputs
<1> QED
  BY <1>1, Inductive, PTL

-----------------------------------------------------------------------------
(* Verdicts.  A goal that is settled, or that the executor found settled    *)
(* before the claim, was read at the newest revision.                      *)

Verdicts ==
    /\ goal.rev <= objRev /\ objRev <= next
    /\ goal.st = "satisfied" /\ objRev = next => goal.rev = next
    /\ \A g \in cancelling : g.rev <= objRev
    /\ pc \in {"deliver", "judge", "judging"} => cand <= next
    /\ pc = "deliver" /\ cand = next => objRev = next /\ ~LiveGoal(goal)
    /\ pc = "satisfy" => cand = next /\ objRev = next
    /\ pc = "finish" => objRev = next /\ ~LiveGoal(goal)
    /\ status = "completed" => objRev = next /\ ~LiveGoal(goal)

LEMMA SyncVerdict ==
    ASSUME TypeOK, Verdicts
    PROVE  /\ SyncedGoal.rev <= next
           /\ SyncedGoal.st = "satisfied" => SyncedGoal.rev = next
           /\ objRev = next => SyncedGoal = goal
<1>1. CASE objRev = next
  BY <1>1 DEF SyncedGoal, Verdicts
<1>2. CASE objRev # next
  <2>1. goal.rev < next /\ goal \in Goals /\ next \in Nat
    BY <1>2 DEF Verdicts, TypeOK, Goals
  <2> QED
    BY <1>2, <2>1 DEF SyncedGoal, Advance, Goals
<1> QED
  BY <1>1, <1>2

\* A step that only synchronises the objective keeps the books of the verdicts.
LEMMA SyncKeepsVerdicts ==
    ASSUME TypeOK, Verdicts, Sync, UNCHANGED <<next, cand, cancelling, pc, status>>
    PROVE  Verdicts'
BY SyncVerdict DEF Sync, Verdicts, TypeOK, Goals

LEMMA KeptVerdicts ==
    ASSUME TypeOK, Verdicts, UNCHANGED <<next, cand, cancelling, objRev, goal>>,
           pc' \notin {"satisfy", "finish"} \/ pc' = pc,
           pc' \notin {"deliver", "judge", "judging"} \/ pc' = pc,
           status' # "completed" \/ status' = status
    PROVE  Verdicts'
BY DEF Verdicts

LEMMA NextVerdicts == TypeOK /\ ClaimIsFinal /\ Verdicts /\ [Next]_vars => Verdicts'
<1> SUFFICES ASSUME TypeOK, ClaimIsFinal, Verdicts, [Next]_vars PROVE Verdicts'
  OBVIOUS
<1> USE DEF ledger, saved, aim, volatile, bound, stop
<1>1. CASE UNCHANGED vars
  BY <1>1, KeptVerdicts DEF vars
<1>2. ASSUME NEW i \in Inputs, SteerIdle(i) \/ SteerClosed(i) \/ EnqueueFails(i) PROVE Verdicts'
  BY <1>2, KeptVerdicts DEF SteerIdle, SteerClosed, EnqueueFails
<1>3. ASSUME NEW i \in Inputs, Enqueue(i) PROVE Verdicts'
  <2>1. CASE Stored(i)
    BY <1>3, <2>1, KeptVerdicts DEF Enqueue
  <2>2. CASE ~Stored(i)
    <3>1. next' = next + 1 /\ UNCHANGED <<aim, bound, stop, pc, status>>
          /\ accepting /\ status = "running"
      BY <1>3, <2>2 DEF Enqueue
    <3>2. pc \notin Claimed
      BY <3>1 DEF ClaimIsFinal
    <3> QED
      BY <3>1, <3>2 DEF Verdicts, TypeOK, Goals, Claimed
  <2> QED
    BY <2>1, <2>2
<1>4. ASSUME NEW i \in Inputs, EnqueueDone(i) PROVE Verdicts'
  BY <1>4, SyncKeepsVerdicts DEF EnqueueDone
<1>5. CASE Open \/ Stage
  <2>1. Sync /\ UNCHANGED <<next, cand, cancelling, status>> /\ pc' \in {"filter", "model"}
        /\ pc \in {"opening", "stage"}
    BY <1>5 DEF Open, Stage
  <2>2. status # "completed"
    BY <2>1 DEF ClaimIsFinal, Answered
  <2> QED
    BY <2>1, <2>2, SyncVerdict DEF Sync, Verdicts, TypeOK, Goals
<1>6. CASE Launch \/ MarkRunning \/ Checkpoint \/ LeaseInputs \/ CallTools \/ EndStream \/ Interrupt
  BY <1>6, KeptVerdicts DEF Launch, MarkRunning, Checkpoint, SaveState, LeaseInputs, CallTools,
     EndStream, Interrupt
<1>7. CASE Snapshot
  <2>1. /\ Sync /\ UNCHANGED <<next, cancelling, status>> /\ status # "completed"
        /\ cand' = cursor + 1
        /\ pc' # "filter" => /\ cand' = next
                             /\ pc' = (IF LiveGoal(SyncedGoal) THEN "judge" ELSE "deliver")
    BY <1>7 DEF Snapshot, RevisionMatches, NewSegment, ClaimIsFinal, Answered
  <2>2. pc' \in {"filter", "judge", "deliver"}
    BY <1>7 DEF Snapshot, NewSegment
  <2> QED
    BY <2>1, <2>2, SyncVerdict DEF Sync, Verdicts, TypeOK, Goals, LiveGoal
<1>8. CASE Repair
  BY <1>8, KeptVerdicts DEF Repair, NewSegment
<1>9. ASSUME NEW target \in {"clarify", "refuse"}, pc \in {"deliver", "judge", "judging"},
             Claim(target)
      PROVE  Verdicts'
  <2>1. Sync /\ UNCHANGED <<next, cand, cancelling, status>> /\ pc' \in {target, "filter"}
        /\ status # "completed"
    BY <1>9 DEF Claim, NewSegment, ClaimIsFinal, Answered
  <2> QED
    BY <2>1, SyncVerdict DEF Sync, Verdicts, TypeOK, Goals
<1>10. CASE VerdictSatisfied
  <2>1. Sync /\ UNCHANGED <<next, cand, cancelling, status>> /\ pc' \in {"satisfy", "filter"}
        /\ status # "completed" /\ (pc' = "satisfy" => cand = next)
    BY <1>10 DEF VerdictSatisfied, Claim, RevisionMatches, NewSegment, ClaimIsFinal, Answered
  <2> QED
    BY <2>1, SyncVerdict DEF Sync, Verdicts, TypeOK, Goals
<1>11. CASE ClaimAnswer
  <2>1. Sync /\ UNCHANGED <<next, cand, cancelling, status>> /\ pc' \in {"finish", "filter"}
        /\ pc = "deliver" /\ status # "completed" /\ (pc' = "finish" => cand = next)
    BY <1>11 DEF ClaimAnswer, Claim, RevisionMatches, NewSegment, ClaimIsFinal, Answered
  <2>2. pc' = "finish" => ~LiveGoal(SyncedGoal)
    BY <2>1, SyncVerdict DEF Verdicts
  <2> QED
    BY <2>1, <2>2, SyncVerdict DEF Sync, Verdicts, TypeOK, Goals
<1>12. CASE BeginJudge \/ VerdictIncomplete
  <2>1. /\ objRev' = next /\ UNCHANGED <<next, cand, cancelling, status>>
        /\ pc' \in {"judging", "filter"} /\ status # "completed"
        /\ pc' = "judging" => cand = next
    BY <1>12 DEF BeginJudge, VerdictIncomplete, RevisionMatches, NewSegment, ClaimIsFinal, Answered
  <2>2. goal'.rev <= next /\ (goal'.st = "satisfied" => goal'.rev = next)
    <3>1. CASE goal' = SyncedGoal
      BY <3>1, SyncVerdict
    <3>2. CASE goal' = [SyncedGoal EXCEPT !.st = "evaluating", !.rev = cand] /\ cand = next
      <4>1. goal'.rev = next /\ goal'.st = "evaluating"
        BY <3>2, SyncType DEF Goals
      <4> QED
        BY <4>1 DEF TypeOK
    <3>3. CASE goal' = [SyncedGoal EXCEPT !.st = "active", !.n = goal.n + 1]
      <4>1. goal'.rev = SyncedGoal.rev /\ goal'.st = "active"
        BY <3>3, SyncType DEF Goals
      <4> QED
        BY <4>1, SyncVerdict
    <3> QED
      BY <1>12, <3>1, <3>2, <3>3 DEF BeginJudge, VerdictIncomplete, RevisionMatches
  <2> QED
    BY <2>1, <2>2 DEF Verdicts, TypeOK, Goals
<1>13. CASE Settle
  <2>1. CASE pc = "satisfy"
    BY <1>13, <2>1 DEF Settle, Verdicts, ClaimIsFinal, Answered, TypeOK, LiveGoal
  <2>2. CASE pc \in {"clarify", "refuse"}
    <3>1. goal' = [goal EXCEPT !.st = "ended"] /\ UNCHANGED <<next, cand, cancelling, objRev, pc, status>>
      BY <1>13, <2>2 DEF Settle
    <3>2. goal'.rev = goal.rev /\ goal'.st = "ended"
      BY <3>1 DEF TypeOK, Goals
    <3> QED
      BY <3>1, <3>2 DEF Verdicts, LiveGoal
  <2> QED
    BY <1>13, <2>1, <2>2 DEF Settle
<1>14. CASE Complete
  BY <1>14 DEF Complete, Verdicts
<1>15. CASE ExtractMemories \/ Close
  BY <1>15 DEF ExtractMemories, Close, Verdicts
<1>16. CASE Abandon
  <2>1. UNCHANGED <<next, cand, cancelling, objRev>> /\ pc' = "closing" /\ status # "completed"
        /\ status' # "completed"
    BY <1>16 DEF Abandon, ClaimIsFinal, Answered, Unfinished, Executing
  <2>2. goal'.rev = goal.rev /\ (goal' = goal \/ goal'.st = "ended")
    BY <1>16 DEF Abandon, TypeOK, Goals
  <2> QED
    BY <2>1, <2>2 DEF Verdicts
<1>17. CASE Cancel
  BY <1>17 DEF Cancel, Verdicts
<1>18. CASE CancelGoal
  <2>1. PICK g \in cancelling : goal' = [g EXCEPT !.st = "ended"]
    BY <1>18 DEF CancelGoal
  <2>2. goal'.rev = g.rev /\ goal'.st = "ended"
    BY <2>1 DEF TypeOK, Goals
  <2> QED
    BY <1>18, <2>2 DEF CancelGoal, Verdicts, LiveGoal
<1>19. CASE Decide \/ Restart
  BY <1>19, KeptVerdicts DEF Decide, Restart
<1>20. CASE Crash
  BY <1>20 DEF Crash, Verdicts
<1> QED
  BY <1>1, <1>2, <1>3, <1>4, <1>5, <1>6, <1>7, <1>8, <1>9, <1>10, <1>11, <1>12, <1>13, <1>14,
     <1>15, <1>16, <1>17, <1>18, <1>19, <1>20
  DEF Next, Clients, Executor, Environment, ClaimClarification, ClaimRefusal, VerdictRefused

\* A goal is satisfied only at the newest revision, and a run that completes
\* with a goal was judged on everything it had accepted.
THEOREM VerdictTheorem == Spec => []VerdictIsCurrent
<1>1. Init => Verdicts
  BY DEF Init, Verdicts, LiveGoal
<1>2. IInv /\ Verdicts /\ [Next]_vars => Verdicts'
  BY NextVerdicts DEF IInv
<1>3. Verdicts => VerdictIsCurrent
  BY DEF Verdicts, VerdictIsCurrent
<1> QED
  BY <1>1, <1>2, <1>3, Inductive, PTL DEF Spec

-----------------------------------------------------------------------------
(* Replay.  What the executor's memories and the checkpoint hold beyond the *)
(* gap a resume with an empty session may leave.                            *)

Gap == IF since > lost THEN since ELSE lost

Holds(s) == (lost + 1)..s \subseteq mem /\ (Gap + 1)..s \subseteq session

Replay ==
    /\ IF hasBlob THEN (lost + 1)..cursor \subseteq blob ELSE cursor = 0
    /\ pc \in {"starting", "opening"} => (resume <=> hasBlob)
    /\ pc \in Staging => Holds(Staged)
    /\ pc \in Between \cup {"stage"} => Holds(cursor)
    /\ pc = "model" => modelRev = Staged + 1

\* A later start asks for no more, and one past the end for nothing.
LEMMA Later ==
    ASSUME NEW a \in Nat, NEW b \in Nat, NEW c \in Nat, NEW S
    PROVE  /\ (a + 1)..c \subseteq S /\ a <= b => (b + 1)..c \subseteq S
           /\ c <= b => (b + 1)..c \subseteq S
OBVIOUS

LEMMA StagedMemory ==
    ASSUME TypeOK, LedgerConsistent
    PROVE  (1..cursor) \cup LeasedNow = 1..Staged
<1>1. CASE lease = NoLease
  BY <1>1 DEF LeasedNow, Staged
<1>2. CASE lease # NoLease
  <2>1. lease.from = cursor + 1 /\ lease.from <= lease.to /\ lease.to \in Nat /\ cursor \in Nat
    BY <1>2 DEF TypeOK, LedgerConsistent
  <2> QED
    BY <1>2, <2>1 DEF LeasedNow, Staged, Span
<1> QED
  BY <1>1, <1>2

\* A new segment hands the session over and accounts for the gap.
LEMMA SegmentHolds ==
    ASSUME TypeOK, NEW s \in Nat, Holds(s), NewSegment, UNCHANGED <<session, since>>
    PROVE  (lost' + 1)..s \subseteq mem' /\ (Gap' + 1)..s \subseteq session'
<1>1. mem' = session /\ lost' = Gap /\ session' = session /\ Gap' = Gap
  BY DEF NewSegment, Gap, TypeOK
<1> QED
  BY <1>1 DEF Holds

LEMMA NextReplay ==
    ASSUME TypeOK, Books, Replay, [Next]_vars
    PROVE  Replay'
<1>0. LedgerConsistent /\ LeaseFollowsExecutor
  BY DEF Books
<1>1. ASSUME UNCHANGED <<cursor, lease, hasBlob, blob, mem, session, since, lost, modelRev, resume>>,
             \/ pc' = pc
             \/ pc' \notin Staging \cup Between \cup {"stage", "starting", "opening"}
             \/ pc = "starting" /\ pc' = "opening"
             \/ pc \in Staging /\ pc' \in Staging \ {"model"}
             \/ pc \in Between /\ pc' \in Between
      PROVE  Replay'
  BY <1>1 DEF Replay, Holds, Gap, Staged, Between, Claimed, Staging
<1> USE DEF Between, Claimed, Staging
<1>2. CASE UNCHANGED vars
  BY <1>1, <1>2 DEF vars, ledger, saved, volatile, input, bound
<1>3. ASSUME NEW i \in Inputs, SteerIdle(i) \/ SteerClosed(i) \/ EnqueueDone(i) \/ EnqueueFails(i)
                               \/ Enqueue(i)
      PROVE  Replay'
  BY <1>1, <1>3 DEF SteerIdle, SteerClosed, EnqueueDone, EnqueueFails, Enqueue, ledger, saved,
     volatile, input, bound
<1>4. CASE Launch
  BY <1>4 DEF Launch, Replay, ledger, saved, input
<1>5. CASE Open
  <2>1. /\ cursor' = cursor /\ lease' = NoLease /\ pc' = "filter" /\ UNCHANGED <<hasBlob, blob, lost>>
        /\ pc = "opening"
    BY <1>5 DEF Open, Requeue, saved
  <2>2. (lost' + 1)..cursor \subseteq mem' /\ (Gap' + 1)..cursor \subseteq session'
    <3>1. CASE resume
      <4>1. hasBlob /\ (lost + 1)..cursor \subseteq blob /\ mem' = blob
        BY <1>5, <2>1, <3>1 DEF Open, Replay
      <4>2. \/ session' = blob /\ since' = 0
            \/ session' = {} /\ since' = cursor
        BY <1>5, <3>1 DEF Open
      <4>3. cursor \in Nat /\ lost \in Nat /\ since' \in Nat /\ lost' = lost
        BY <2>1, <4>2 DEF TypeOK
      <4>4. /\ Gap' \in Nat /\ lost <= Gap' /\ since' <= Gap'
        BY <4>3 DEF Gap
      <4>5. (Gap' + 1)..cursor \subseteq session'
        BY <4>1, <4>2, <4>3, <4>4, Later
      <4> QED
        BY <2>1, <4>1, <4>5
    <3>2. CASE ~resume
      <4>1. cursor = 0
        BY <2>1, <3>2 DEF Replay
      <4>2. lost' \in Nat /\ since' = 0
        BY <1>5, <2>1, <3>2 DEF TypeOK, Open
      <4>3. Gap' \in Nat
        BY <4>2 DEF Gap
      <4>4. \A n \in Nat : (n + 1)..0 = {}
        OBVIOUS
      <4> QED
        BY <4>1, <4>2, <4>3, <4>4
    <3> QED
      BY <3>1, <3>2
  <2>3. Replay' <=> /\ IF hasBlob THEN (lost + 1)..cursor \subseteq blob ELSE cursor = 0
                    /\ (lost' + 1)..cursor \subseteq mem' /\ (Gap' + 1)..cursor \subseteq session'
    BY <2>1 DEF Replay, Holds, Staged
  <2> QED
    BY <2>2, <2>3 DEF Replay
<1>6. CASE Checkpoint
  <2>1. /\ blob' = mem /\ hasBlob' = TRUE /\ UNCHANGED <<mem, session, since, lost>> /\ lease' = NoLease
        /\ pc \in Staging /\ pc' \in {"consume", "candidate"}
    BY <1>6 DEF Checkpoint, SaveState
  <2>2. cursor' = Staged
    BY <1>0, <1>6, <2>1 DEF Checkpoint, SaveState, Staged, LeaseFollowsExecutor
  <2> QED
    BY <2>1, <2>2 DEF Replay, Holds, Gap
<1>7. CASE LeaseInputs
  BY <1>7 DEF LeaseInputs, Replay, Holds, Gap, saved, volatile, input, bound
<1>8. CASE Stage
  <2>1. /\ UNCHANGED <<cursor, lease, hasBlob, blob, since, lost>> /\ pc' = "model" /\ pc = "stage"
        /\ mem' = mem \cup LeasedNow /\ session' = session \cup LeasedNow
        /\ modelRev' = Staged + 1
    BY <1>8 DEF Stage, ledger, saved, Staged
  <2>2. Holds(cursor) /\ Staged' = Staged /\ Gap' = Gap /\ Gap \in Nat
    BY <2>1 DEF Replay, Staged, Gap, TypeOK
  <2>3. \A k \in Nat : k \in 1..Staged => k \in 1..cursor \/ k \in LeasedNow
    BY <1>0, StagedMemory
  <2>4. Staged \in Nat
    BY DEF Staged, TypeOK
  <2>5. (lost + 1)..Staged \subseteq mem' /\ (Gap + 1)..Staged \subseteq session'
    BY <2>1, <2>2, <2>3, <2>4 DEF Holds, TypeOK
  <2> QED
    BY <2>1, <2>2, <2>5 DEF Replay, Holds
<1>9. CASE MarkRunning \/ CallTools \/ EndStream \/ Interrupt
  BY <1>1, <1>9 DEF MarkRunning, CallTools, EndStream, Interrupt, ledger, saved, volatile, input, bound
<1>10. ASSUME pc \in Between, NewSegment, UNCHANGED <<cursor, lease, hasBlob, blob, session, since>>
       PROVE  Replay'
  <2>1. lease = NoLease /\ Holds(cursor) /\ cursor \in Nat /\ pc' = "filter"
    BY <1>0, <1>10 DEF LeaseFollowsExecutor, Replay, TypeOK, NewSegment
  <2>2. Holds(cursor)' /\ Staged' = cursor'
    BY <1>10, <2>1, SegmentHolds DEF Staged, Holds
  <2>3. lost <= lost' /\ lost' \in Nat /\ lost \in Nat
    BY <1>10 DEF NewSegment, TypeOK
  <2>4. (lost + 1)..cursor \subseteq blob => (lost' + 1)..cursor \subseteq blob
    BY <2>1, <2>3, Later
  <2>5. IF hasBlob THEN (lost' + 1)..cursor \subseteq blob ELSE cursor = 0
    BY <2>4 DEF Replay
  <2> QED
    BY <1>10, <2>1, <2>2, <2>5 DEF Replay
<1>11. CASE Snapshot \/ Repair \/ BeginJudge \/ VerdictIncomplete
  <2>1. pc \in Between /\ UNCHANGED <<cursor, lease, hasBlob, blob, session, since>>
    BY <1>11 DEF Snapshot, Repair, BeginJudge, VerdictIncomplete, ledger, saved
  <2>2. CASE NewSegment
    BY <1>10, <2>1, <2>2
  <2>3. CASE ~NewSegment
    <3>1. UNCHANGED <<mem, lost>> /\ pc' \in {"judge", "deliver", "judging"}
      BY <1>11, <2>3 DEF Snapshot, Repair, BeginJudge, VerdictIncomplete
    <3> QED
      BY <2>1, <3>1 DEF Replay, Holds, Gap
  <2> QED
    BY <2>2, <2>3
<1>12. ASSUME NEW target \in Claimed, pc \in Between, Claim(target) PROVE Replay'
  <2>1. UNCHANGED <<cursor, lease, hasBlob, blob, session, since>>
    BY <1>12 DEF Claim, ledger, saved
  <2>2. CASE NewSegment
    BY <1>10, <1>12, <2>1, <2>2
  <2>3. CASE ~NewSegment
    <3>1. UNCHANGED <<mem, lost>> /\ pc' = target
      BY <1>12, <2>3 DEF Claim
    <3> QED
      BY <1>12, <2>1, <3>1 DEF Replay, Holds, Gap
  <2> QED
    BY <2>2, <2>3
<1>13. CASE Settle \/ Complete \/ ExtractMemories \/ Abandon
  BY <1>1, <1>13 DEF Settle, Complete, ExtractMemories, Abandon, ledger, saved, volatile, input, bound
<1>14. CASE Cancel \/ CancelGoal \/ Decide \/ Restart
  BY <1>1, <1>14 DEF Cancel, CancelGoal, Decide, Restart, ledger, saved, volatile, input, bound
<1>15. CASE Close \/ Crash
  <2>1. UNCHANGED <<cursor, hasBlob, blob, lost>> /\ pc' \in {"idle", "down"}
    BY <1>15 DEF Close, Crash, ledger, saved
  <2> QED
    BY <2>1 DEF Replay
<1> QED
  BY <1>2, <1>3, <1>4, <1>5, <1>6, <1>7, <1>8, <1>9, <1>11, <1>12, <1>13, <1>14, <1>15
  DEF Next, Clients, Executor, Environment, ClaimClarification, ClaimRefusal, ClaimAnswer,
      VerdictSatisfied, VerdictRefused

\* Together with the bounds of the memories, for either answer of the SDK.
LEMMA ReplayHolds == Spec => [](TypeOK /\ Memory /\ Replay)
<1>1. Init => Replay
  BY DEF Init, Replay, Staging, Between, Claimed
<1>2. /\ TypeOK /\ Books /\ Memory /\ Replay /\ [Next]_vars
      => TypeOK' /\ Books' /\ Memory' /\ Replay'
  BY NextType, NextBooks, NextMemory, NextReplay
<1> QED
  BY <1>1, <1>2, InitType, InitBooks, InitMemory, PTL DEF Spec

\* No checkpoint forgets an acknowledged message, but those from before a resume
\* that a new segment on an empty session followed.
THEOREM ReplayTheorem == Spec => []AckedInputsDurable
<1>1. Replay => AckedInputsDurable
  BY DEF Replay, AckedInputsDurable
<1> QED
  BY <1>1, ReplayHolds, PTL

\* A model request holds exactly the messages its tool calls are booked on, but
\* for the same gap.
THEOREM ObjectiveTheorem == Spec => []RequestHoldsItsObjective
<1>1. TypeOK /\ Memory /\ Replay => RequestHoldsItsObjective
  <2> SUFFICES ASSUME TypeOK, Memory, Replay, pc = "model"
               PROVE  mem \subseteq 1..(modelRev - 1) /\ (lost + 1)..(modelRev - 1) \subseteq mem
    BY DEF RequestHoldsItsObjective
  <2>1. Staged \in Nat
    BY DEF Staged, TypeOK
  <2>2. modelRev - 1 = Staged
    BY <2>1 DEF Replay
  <2> QED
    BY <2>2 DEF Replay, Holds, Memory, MemoryFollowsLease, Staging
<1> QED
  BY <1>1, ReplayHolds, PTL

-----------------------------------------------------------------------------
\* The mapping to RunMailbox.
Taken == [s \in Seqs |-> rows[s].id]
Phase == IF status \in Answered THEN "answered"
         ELSE IF status \in Over /\ pc \in {"idle", "down", "memory", "closing"}
         THEN "dropped" ELSE "open"

LEMMA TakenType ==
    ASSUME TypeOK
    PROVE  Taken \in Seq(Inputs) /\ Len(Taken) = next - 1
<1>1. next - 1 \in Nat /\ Seqs = 1..(next - 1)
  BY DEF TypeOK, Seqs
<1>2. \A s \in Seqs : rows[s].id \in Inputs
  BY DEF TypeOK, Row
<1>3. Taken \in [1..(next - 1) -> Inputs]
  BY <1>1, <1>2 DEF Taken
<1> QED
  BY <1>1, <1>3

\* A step that keeps the identities of the rows keeps the accepted messages.
LEMMA TakenKept ==
    ASSUME TypeOK, next' = next, \A s \in Seqs : rows'[s].id = rows[s].id
    PROVE  Taken' = Taken
BY DEF Taken, Seqs

LEMMA RowsKept == ASSUME TypeOK, Next, next' = next PROVE Taken' = Taken
<1>1. CASE UNCHANGED rows
  BY <1>1, TakenKept
<1>2. ASSUME NEW S, NEW st \in {"queued", "leased", "acked"}, rows' = Mark(S, st)
      PROVE  Taken' = Taken
  BY <1>2, MarkType, TakenKept
<1>3. ASSUME NEW i \in Inputs, Enqueue(i) PROVE UNCHANGED rows
  BY <1>3 DEF Enqueue, TypeOK
<1>4. CASE Open \/ Checkpoint \/ LeaseInputs
  BY <1>1, <1>2, <1>4 DEF Open, Requeue, Checkpoint, SaveState, LeaseInputs
<1> USE DEF ledger
<1>5. CASE Clients
  BY <1>1, <1>3, <1>5 DEF Clients, SteerIdle, SteerClosed, EnqueueDone, EnqueueFails
<1>6. CASE Stage \/ MarkRunning \/ CallTools \/ EndStream \/ Interrupt \/ Snapshot \/ Repair
           \/ BeginJudge \/ VerdictIncomplete \/ Settle \/ Complete \/ ExtractMemories
           \/ Abandon \/ Close
  BY <1>1, <1>6 DEF Stage, MarkRunning, CallTools, EndStream, Interrupt, Snapshot, Repair, BeginJudge,
     VerdictIncomplete, Settle, Complete, ExtractMemories, Abandon, Close
<1>7. ASSUME NEW target, Claim(target) PROVE Taken' = Taken
  BY <1>1, <1>7 DEF Claim
<1>8. CASE Environment
  BY <1>1, <1>8 DEF Environment, Launch, Cancel, CancelGoal, Decide, Crash, Restart
<1> QED
  BY <1>4, <1>5, <1>6, <1>7, <1>8
  DEF Next, Executor, ClaimClarification, ClaimRefusal, ClaimAnswer, VerdictSatisfied, VerdictRefused

-----------------------------------------------------------------------------
Step == \/ \E i \in Inputs : /\ Phase = "open" /\ ~Stored(i)
                             /\ Taken' = Append(Taken, i)
                             /\ UNCHANGED <<cursor, Phase>>
        \/ /\ Phase = "open" /\ UNCHANGED <<Taken, Phase>>
           /\ cursor' \in (cursor + 1)..(next - 1)
        \/ /\ Phase = "open" /\ cursor = next - 1 /\ Phase' = "answered"
           /\ UNCHANGED <<Taken, cursor>>
        \/ Phase # "dropped" /\ Phase' = "dropped" /\ UNCHANGED <<Taken, cursor>>
        \/ Phase = "dropped" /\ Phase' = "open" /\ UNCHANGED <<Taken, cursor>>
        \/ UNCHANGED <<Taken, cursor, Phase>>

LEMMA EnqueueStep == ASSUME TypeOK, NEW i \in Inputs, Enqueue(i) PROVE Step
<1>1. status' = status /\ status = "running" /\ Phase = "open" /\ Phase' = "open" /\ cursor' = cursor
  BY DEF Enqueue, Phase, Answered, Over
<1>2. CASE Stored(i)
  BY <1>1, <1>2, RowsKept DEF Enqueue, Step, Next, Clients
<1>3. CASE ~Stored(i)
  <2>1. /\ next' = next + 1 /\ next \in Nat \ {0} /\ Seqs = 1..(next - 1) /\ Seqs' = 1..next
        /\ rows' = [s \in 1..next |-> IF s = next THEN [id |-> i, st |-> "queued"] ELSE rows[s]]
    BY <1>3 DEF Enqueue, TypeOK, Seqs
  <2>2. \A s \in 1..next : rows'[s].id = IF s = next THEN i ELSE rows[s].id
    BY <2>1
  <2>3. Taken' = [s \in 1..next |-> IF s = next THEN i ELSE rows[s].id]
    BY <2>1, <2>2 DEF Taken
  <2>4. Append(Taken, i) = [s \in 1..next |-> IF s = next THEN i ELSE rows[s].id]
    <3>1. Taken \in Seq(Inputs) /\ Len(Taken) = next - 1
      BY TakenType
    <3>2. (next - 1) + 1 = next
      BY <2>1
    <3> DEFINE longer == Append(Taken, i)
    <3>3. /\ longer \in Seq(Inputs) /\ Len(longer) = next
          /\ \A s \in 1..(next - 1) : longer[s] = Taken[s]
          /\ longer[next] = i
      BY <3>1, <3>2, AppendProperties
    <3>4. longer \in [1..next -> Inputs]
      BY <3>3, LenProperties
    <3>5. \A s \in 1..next : longer[s] = IF s = next THEN i ELSE rows[s].id
      BY <2>1, <3>3 DEF Taken
    <3> HIDE DEF longer
    <3>6. longer = [s \in 1..next |-> IF s = next THEN i ELSE rows[s].id]
      BY <3>4, <3>5
    <3> QED
      BY <3>6 DEF longer
  <2> QED
    BY <1>1, <1>3, <2>3, <2>4 DEF Step
<1> QED
  BY <1>2, <1>3

LEMMA RunStep == IInv /\ [Next]_vars => Step
<1> SUFFICES ASSUME IInv, [Next]_vars PROVE Step
  OBVIOUS
<1>0. TypeOK /\ LedgerConsistent /\ LeaseFollowsExecutor /\ ClaimIsFinal
  BY DEF IInv
<1> DEFINE Rest == {"idle", "down", "memory", "closing"}
<1>1. CASE UNCHANGED vars
  BY <1>1 DEF vars, ledger, Step, Phase, Taken, Seqs
<1>2. ASSUME Next, UNCHANGED <<next, cursor>>, Phase' = Phase PROVE Step
  BY <1>0, <1>2, RowsKept DEF Step
<1>3. ASSUME Next, UNCHANGED <<next, cursor, status>>, pc \in Rest <=> pc' \in Rest PROVE Step
  BY <1>2, <1>3 DEF Phase
<1>4. ASSUME Next, UNCHANGED <<next, cursor>>, Phase' = "dropped" PROVE Step
  BY <1>0, <1>4, RowsKept DEF Step
<1> USE DEF ledger
<1>5. ASSUME NEW i \in Inputs, SteerIdle(i) \/ SteerClosed(i) \/ EnqueueDone(i) \/ EnqueueFails(i)
      PROVE  Step
  BY <1>3, <1>5 DEF SteerIdle, SteerClosed, EnqueueDone, EnqueueFails, Next, Clients
<1>6. CASE Open \/ LeaseInputs \/ Stage \/ CallTools \/ EndStream
  BY <1>3, <1>6 DEF Open, LeaseInputs, Stage, CallTools, EndStream, Next, Executor
<1>7. CASE Launch
  <2>1. Phase = "open" /\ Phase' = "open"
    BY <1>7 DEF Launch, Phase, Answered, Over
  <2> QED
    BY <1>2, <1>7, <2>1 DEF Launch, Next, Environment
<1>8. CASE MarkRunning \/ Interrupt
  <2>1. Phase = "open" /\ Phase' = "open"
    BY <1>0, <1>8 DEF MarkRunning, Interrupt, Phase, Answered, Over, ClaimIsFinal
  <2> QED
    BY <1>2, <1>8, <2>1 DEF MarkRunning, Interrupt, Next, Executor
<1>9. CASE Checkpoint
  <2>1. next' = next /\ Phase = "open" /\ Phase' = "open" /\ Taken' = Taken
    BY <1>0, <1>9, RowsKept DEF Checkpoint, Phase, Answered, Over, ClaimIsFinal, Next, Executor
  <2>2. cursor' = cursor \/ cursor' \in (cursor + 1)..(next - 1)
    BY <1>0, <1>9 DEF Checkpoint, SaveState, LedgerConsistent, TypeOK
  <2> QED
    BY <2>1, <2>2 DEF Step
<1>10. CASE Snapshot \/ Repair \/ BeginJudge \/ VerdictIncomplete
  BY <1>3, <1>10 DEF Snapshot, Repair, BeginJudge, VerdictIncomplete, NewSegment, Next, Executor
<1>11. ASSUME Next, NEW target \in Claimed, pc \in {"deliver", "judge", "judging"}, Claim(target)
       PROVE  Step
  BY <1>3, <1>11 DEF Claim, NewSegment, Claimed
<1>12. CASE Settle
  BY <1>3, <1>12 DEF Settle, Next, Executor
<1>13. CASE Complete
  <2>1. /\ UNCHANGED <<next, cursor>> /\ Phase = "open" /\ Phase' = "answered" /\ Taken' = Taken
        /\ cursor = next - 1
    BY <1>0, <1>13, RowsKept DEF Complete, Phase, Answered, Over, ClaimIsFinal, Claimed, Next, Executor
  <2> QED
    BY <2>1 DEF Step
<1>14. CASE ExtractMemories \/ Close
  BY <1>3, <1>14 DEF ExtractMemories, Close, Next, Executor
<1>15. CASE Abandon
  <2>1. UNCHANGED <<next, cursor>> /\ Phase = "open" /\ Phase' \in {"open", "dropped"}
    BY <1>0, <1>15 DEF Abandon, Phase, Answered, Over, ClaimIsFinal, Unfinished, Executing
  <2> QED
    BY <1>2, <1>4, <1>15, <2>1 DEF Next, Executor
<1>16. CASE Cancel
  <2>1. UNCHANGED <<next, cursor>> /\ (Phase' = Phase \/ Phase' = "dropped")
    BY <1>0, <1>16 DEF Cancel, Phase, Answered, Over, ClaimIsFinal
  <2> QED
    BY <1>2, <1>4, <1>16, <2>1 DEF Next, Environment
<1>17. CASE CancelGoal
  BY <1>3, <1>17 DEF CancelGoal, Next, Environment
<1>18. CASE Restart
  <2>1. UNCHANGED <<next, cursor>> /\ Phase' = Phase
    BY <1>18 DEF Restart, Phase, Answered, Over
  <2> QED
    BY <1>2, <1>18, <2>1 DEF Next, Environment
<1>19. CASE Crash
  <2>1. UNCHANGED <<next, cursor, status>> /\ (Phase' = Phase \/ Phase' = "dropped")
    BY <1>19 DEF Crash, Phase
  <2> QED
    BY <1>2, <1>4, <1>19, <2>1 DEF Next, Environment
<1>22. CASE Decide
  <2>1. UNCHANGED <<next, cursor>> /\ Phase' = "open" /\ Phase \in {"open", "dropped"}
    BY <1>0, <1>22 DEF Decide, Phase, Answered, Over, ClaimIsFinal, TypeOK
  <2>2. Taken' = Taken
    BY <1>0, <1>22, <2>1, RowsKept DEF Next, Environment
  <2> QED
    BY <2>1, <2>2 DEF Step
<1>20. ASSUME NEW i \in Inputs, Enqueue(i) PROVE Step
  BY <1>0, <1>20, EnqueueStep
<1>21. CASE ClaimClarification \/ ClaimRefusal \/ ClaimAnswer \/ VerdictSatisfied \/ VerdictRefused
  BY <1>11, <1>21 DEF ClaimClarification, ClaimRefusal, ClaimAnswer, VerdictSatisfied, VerdictRefused,
     Claimed, Next, Executor
<1> QED
  BY <1>1, <1>5, <1>6, <1>7, <1>8, <1>9, <1>10, <1>12, <1>13, <1>14, <1>15, <1>16,
     <1>17, <1>18, <1>19, <1>20, <1>21, <1>22
  DEF Next, Clients, Executor, Environment

-----------------------------------------------------------------------------
\* The run keeps the promise of the mailbox: what is accepted is delivered in
\* order, at most once, and an answered run has delivered all of it.
THEOREM Refinement == Spec => MailboxSpec
<1>1. Init => Mailbox!Init
  <2> SUFFICES ASSUME Init PROVE Mailbox!Init
    OBVIOUS
  <2>1. Seqs = {}
    BY DEF Init, Seqs
  <2>2. [s \in Seqs |-> rows[s].id] = << >>
    BY <2>1
  <2> QED
    BY <2>2 DEF Init, Mailbox!Init, Answered, Over
<1>2. IInv /\ [Next]_vars => [Mailbox!Next]_(Mailbox!mailbox)
  <2> SUFFICES ASSUME IInv, [Next]_vars PROVE [Mailbox!Next]_(Mailbox!mailbox)
    OBVIOUS
  <2>1. Step
    BY RunStep
  <2>2. /\ Taken = [s \in Seqs |-> rows[s].id]
        /\ Taken' = [s \in Seqs' |-> rows'[s].id]
    BY DEF Taken
  <2>3. Len(Taken) = next - 1 /\ Seqs = 1..(next - 1)
    BY TakenType DEF IInv, Seqs
  <2>4. \A i \in Inputs : ~Stored(i) => \A s \in 1..Len(Taken) : Taken[s] # i
    BY <2>3 DEF Stored, Taken
  <2> QED
    BY <2>1, <2>2, <2>3, <2>4
    DEF Step, Phase, Mailbox!Next, Mailbox!Accept, Mailbox!Deliver, Mailbox!Answer,
        Mailbox!Drop, Mailbox!Reopen, Mailbox!mailbox
<1> QED
  BY <1>1, <1>2, Inductive, PTL DEF Spec, MailboxSpec, Mailbox!Spec
=============================================================================
