-------------------------- MODULE FileLifecycle_proofs --------------------------
(***************************************************************************)
(* The section of ObjectPublication is exclusive and loses no wake-up, for *)
(* any finite set of publishers and any set of collectors.                 *)
(*                                                                         *)
(* Ready files stay readable, and data sets keep their objects, for any    *)
(* sets of threads, files and attempts.  Only a step that touches the      *)
(* section can disturb its invariant, so GateStep is all that is needed of *)
(* the section.                                                            *)
(***************************************************************************)
EXTENDS FileLifecycle, FiniteSetTheorems, TLAPS

-----------------------------------------------------------------------------
(* The section                                                              *)

LEMMA GateInitInv == GateInit => GateInv
  BY FS_EmptySet DEF GateInit, GateInv, GateTypeOK, Exclusion, NoLostWakeup, WaitOnce

\* What the counter says of the publishers inside, and how it follows them.
LEMMA Counting ==
  ASSUME GateInv
  PROVE  /\ IsFiniteSet(publishing) /\ IsFiniteSet(waitingPublishers)
         /\ activePublishers = 0 <=> publishing = {}
         /\ \A p \in publishing :
              /\ Cardinality(publishing \ {p}) = activePublishers - 1
              /\ activePublishers = 1 <=> publishing \ {p} = {}
         /\ \A p \in Publishers \ publishing :
              Cardinality(publishing \cup {p}) = activePublishers + 1
<1> USE DEF GateInv, GateTypeOK
<1>1. IsFiniteSet(publishing) /\ IsFiniteSet(waitingPublishers)
  BY FS_Subset, ObjectPublicationConstants
<1>2. activePublishers = 0 <=> publishing = {}
  BY <1>1, FS_EmptySet
<1>3. ASSUME NEW p \in publishing
      PROVE  /\ Cardinality(publishing \ {p}) = activePublishers - 1
             /\ activePublishers = 1 <=> publishing \ {p} = {}
  <2>1. /\ IsFiniteSet(publishing \ {p})
        /\ Cardinality(publishing \ {p}) = activePublishers - 1
    BY <1>1, FS_RemoveElement
  <2>2. Cardinality(publishing \ {p}) = 0 <=> publishing \ {p} = {}
    BY <2>1, FS_EmptySet
  <2> QED
    BY <2>1, <2>2
<1>4. ASSUME NEW p \in Publishers \ publishing
      PROVE  Cardinality(publishing \cup {p}) = activePublishers + 1
  BY <1>1, FS_AddElement
<1> QED
  BY <1>1, <1>2, <1>3, <1>4

\* Every publisher that waits is counted once when the last collector leaves.
LEMMA CountingAll ==
  ASSUME GateInv
  PROVE  Cardinality(publishing \cup waitingPublishers)
           = activePublishers + Cardinality(waitingPublishers)
<1>1. IsFiniteSet(publishing) /\ IsFiniteSet(waitingPublishers)
  BY Counting
<1>2. Cardinality(publishing \cap waitingPublishers) = 0
  BY FS_EmptySet DEF GateInv
<1>3. Cardinality(publishing) \in Nat /\ Cardinality(waitingPublishers) \in Nat
  BY <1>1, FS_CardinalityType
<1>4. Cardinality(publishing \cup waitingPublishers)
        = Cardinality(publishing) + Cardinality(waitingPublishers)
          - Cardinality(publishing \cap waitingPublishers)
  BY <1>1, FS_Union
<1> QED
  BY <1>2, <1>3, <1>4 DEF GateInv

\* A collector that comes queues up once, and is gone from the queue when inside.
LEMMA WaitOnceStep ==
  ASSUME GateInv, [GateNext]_gate
  PROVE  WaitOnce'
<1> USE DEF GateInv, GateTypeOK, WaitOnce
<1>0. ASSUME waitingCollectors # << >>,
             waitingCollectors' = Tail(waitingCollectors),
             sweeping' \subseteq sweeping \cup {Head(waitingCollectors)}
      PROVE  WaitOnce'
  <2>1. /\ DOMAIN waitingCollectors' = 1 .. Len(waitingCollectors) - 1
        /\ \A k \in DOMAIN waitingCollectors' :
              /\ k + 1 \in DOMAIN waitingCollectors
              /\ waitingCollectors'[k] = waitingCollectors[k + 1]
        /\ 1 \in DOMAIN waitingCollectors /\ Head(waitingCollectors) = waitingCollectors[1]
    BY <1>0
  <2> QED
    BY <1>0, <2>1
<1>1. ASSUME NEW p \in Publishers, AcquirePublisher(p)
      PROVE  WaitOnce'
  BY <1>1 DEF AcquirePublisher
<1>2. ASSUME NEW p \in Publishers, ReleasePublisher(p)
      PROVE  WaitOnce'
  BY <1>0, <1>2 DEF ReleasePublisher
<1>3. ASSUME NEW c \in Collectors, AcquireCollector(c)
      PROVE  WaitOnce'
  <2>1. CASE waitingCollectors' = Append(waitingCollectors, c) /\ sweeping' = sweeping
    <3>1. /\ DOMAIN waitingCollectors' = DOMAIN waitingCollectors \cup {Len(waitingCollectors) + 1}
          /\ waitingCollectors'[Len(waitingCollectors) + 1] = c
          /\ \A k \in DOMAIN waitingCollectors : waitingCollectors'[k] = waitingCollectors[k]
      BY <2>1
    <3> QED
      BY <1>3, <2>1, <3>1 DEF AcquireCollector
  <2>2. CASE sweeping' = sweeping \cup {c} /\ waitingCollectors' = waitingCollectors
    BY <1>3, <2>2 DEF AcquireCollector
  <2> QED
    BY <1>3, <2>1, <2>2 DEF AcquireCollector
<1>4. ASSUME NEW c \in Collectors, ReleaseCollector(c)
      PROVE  WaitOnce'
  BY <1>0, <1>4 DEF ReleaseCollector
<1>5. CASE GateRestart
  BY <1>5 DEF GateRestart
<1>6. CASE UNCHANGED gate
  BY <1>6 DEF gate
<1> QED
  BY <1>1, <1>2, <1>3, <1>4, <1>5, <1>6 DEF GateNext

\* A step of the section keeps its invariant.
LEMMA GateStep ==
  ASSUME GateInv, [GateNext]_gate
  PROVE  GateInv'
<1>0. WaitOnce'
  BY WaitOnceStep
<1> USE <1>0 DEF GateInv, GateTypeOK, Exclusion, NoLostWakeup
<1>1. ASSUME NEW p \in Publishers, AcquirePublisher(p)
      PROVE  GateInv'
  BY <1>1, Counting DEF AcquirePublisher
<1>2. ASSUME NEW p \in Publishers, ReleasePublisher(p)
      PROVE  GateInv'
  <2>1. CASE activePublishers = 1 /\ collecting = "no" /\ waitingCollectors # << >>
    <3>1. Head(waitingCollectors) \in Collectors /\ Tail(waitingCollectors) \in Seq(Collectors)
      BY <2>1
    <3>2. publishing' = {} /\ activePublishers' = 0 /\ activePublishers' = Cardinality(publishing')
      BY <1>2, <2>1, Counting DEF ReleasePublisher
    <3>3. sweeping = {} /\ sweeping' = {Head(waitingCollectors)}
      BY <1>2, <2>1 DEF ReleasePublisher
    <3> QED
      BY <1>2, <2>1, <3>1, <3>2, <3>3 DEF ReleasePublisher
  <2>2. CASE ~(activePublishers = 1 /\ collecting = "no" /\ waitingCollectors # << >>)
    <3>1. activePublishers' = Cardinality(publishing') /\ activePublishers' \in Nat
      BY <1>2, <2>2, Counting DEF ReleasePublisher
    <3>2. waitingCollectors # << >> => publishing' # {}
      BY <1>2, <2>2, Counting DEF ReleasePublisher
    <3> QED
      BY <1>2, <2>2, <3>1, <3>2 DEF ReleasePublisher
  <2> QED
    BY <2>1, <2>2
<1>3. ASSUME NEW c \in Collectors, AcquireCollector(c)
      PROVE  GateInv'
  BY <1>3, Counting DEF AcquireCollector
<1>4. ASSUME NEW c \in Collectors, ReleaseCollector(c)
      PROVE  GateInv'
  <2>1. CASE waitingCollectors # << >>
    <3>1. Head(waitingCollectors) \in Collectors /\ Tail(waitingCollectors) \in Seq(Collectors)
      BY <2>1
    <3> QED
      BY <1>4, <2>1, <3>1 DEF ReleaseCollector
  <2>2. CASE waitingCollectors = << >>
    <3>1. Cardinality(waitingPublishers) \in Nat
      BY Counting, FS_CardinalityType
    <3>2. activePublishers' = Cardinality(publishing') /\ activePublishers' \in Nat
      BY <1>4, <2>2, <3>1, CountingAll DEF ReleaseCollector
    <3> QED
      BY <1>4, <2>2, <3>2 DEF ReleaseCollector
  <2> QED
    BY <2>1, <2>2
<1>5. CASE GateRestart
  BY <1>5, FS_EmptySet DEF GateRestart
<1>6. CASE UNCHANGED gate
  BY <1>6 DEF gate
<1> QED
  BY <1>1, <1>2, <1>3, <1>4, <1>5, <1>6 DEF GateNext

\* The counter, the flag and the two queues of the coordinator agree with who
\* is inside, in every reachable state.
THEOREM GateInductive == GateSpec => []GateInv
<1>1. GateInit => GateInv
  BY GateInitInv
<1>2. GateInv /\ [GateNext]_gate => GateInv'
  BY GateStep
<1> QED
  BY <1>1, <1>2, PTL DEF GateSpec

\* A publisher that gets in finds no collector waiting, at any step.
THEOREM NoOvertakingTheorem == GateSpec => NoOvertaking
<1>1. GateInv /\ [GateNext]_gate
        => [publishing' \subseteq publishing \/ waitingCollectors = << >>]_gate
  BY DEF GateNext, AcquirePublisher, ReleasePublisher, AcquireCollector,
         ReleaseCollector, GateRestart
<1> QED
  BY <1>1, GateInductive, PTL DEF GateSpec, NoOvertaking

-----------------------------------------------------------------------------
(* The files                                                                *)

\* The section is used as ObjectPublication says, one operation at a time.
LEMMA GateRespected ==
  ASSUME [Next]_vars
  PROVE  [GateNext]_gate
<1> USE DEF Attempts, Threads, GateNext
<1>1. ASSUME NEW a \in Attempts, Admit(a) \/ Attempt(a)
      PROVE  [GateNext]_gate
  BY <1>1 DEF Attempt, Admit, Reserve, ReserveFails, Enter, Publish, PublishFails, Promote,
     PromoteFails, Leave, Clean, CleanEnds, Index, IndexFails, Undo
<1>2. ASSUME NEW f \in Files, Delete(f) \/ Unlink(f)
      PROVE  [GateNext]_gate
  BY <1>2 DEF Delete, Unlink
<1>3. ASSUME NEW t \in Threads, Trash(t) \/ Restore(t) \/ PurgeRows(t) \/ Purge(t)
      PROVE  [GateNext]_gate
  BY <1>3 DEF Trash, Restore, PurgeRows, Purge, EnterCollector, PurgeFiles, ListFiles,
     ListDatasets, Sweep, PurgeFails
<1>4. CASE Crash
  BY <1>4 DEF Crash
<1>5. CASE UNCHANGED vars
  BY <1>5 DEF vars
<1> QED
  BY <1>1, <1>2, <1>3, <1>4, <1>5 DEF Next

\* What an operation does to the types.
LEMMA AttemptTypes ==
  ASSUME TypeOK, GateTypeOK', NEW a \in Attempts, Admit(a) \/ Attempt(a)
  PROVE  TypeOK'
<1> USE FileLifecycleConstants DEF TypeOK, Go, db, store, try, purge, Steps
<1>1. CASE Admit(a)
  BY <1>1 DEF Admit
<1>2. CASE Reserve(a)
  BY <1>2 DEF Reserve
<1>3. CASE ReserveFails(a)
  BY <1>3 DEF ReserveFails
<1>4. CASE Enter(a)
  BY <1>4 DEF Enter
<1>5. CASE Publish(a)
  BY <1>5 DEF Publish
<1>6. CASE PublishFails(a)
  BY <1>6 DEF PublishFails
<1>7. CASE Promote(a)
  BY <1>7 DEF Promote, Promoted, Others
<1>8. CASE PromoteFails(a)
  BY <1>8 DEF PromoteFails, Promoted
<1>9. CASE Clean(a)
  BY <1>9 DEF Clean
<1>10. CASE CleanEnds(a)
  BY <1>10 DEF CleanEnds
<1>11. CASE Index(a)
  BY <1>11 DEF Index
<1>12. CASE IndexFails(a)
  BY <1>12 DEF IndexFails
<1>13. CASE Undo(a)
  BY <1>13 DEF Undo, DeleteRow
<1> QED
  BY <1>1, <1>2, <1>3, <1>4, <1>5, <1>6, <1>7, <1>8, <1>9, <1>10, <1>11, <1>12, <1>13
     DEF Attempt

LEMMA UserTypes ==
  ASSUME TypeOK, GateTypeOK',
         \/ \E f \in Files : Delete(f) \/ Unlink(f)
         \/ \E t \in Threads : Trash(t) \/ Restore(t) \/ PurgeRows(t) \/ Purge(t)
         \/ Crash
  PROVE  TypeOK'
<1> USE FileLifecycleConstants DEF TypeOK, db, store, try, purge, Queries, Forget
<1>1. ASSUME NEW f \in Files, Delete(f)
      PROVE  TypeOK'
  BY <1>1 DEF Delete, DeleteRow
<1>2. ASSUME NEW f \in Files, Unlink(f)
      PROVE  TypeOK'
  BY <1>2 DEF Unlink
<1>3. ASSUME NEW t \in Threads, Trash(t) \/ Restore(t) \/ PurgeRows(t)
      PROVE  TypeOK'
  BY <1>3 DEF Trash, Restore, PurgeRows
<1>4. ASSUME NEW t \in Threads, Purge(t)
      PROVE  TypeOK'
  <2>1. CASE EnterCollector(t)
    BY <2>1 DEF EnterCollector
  <2>2. CASE PurgeFiles(t)
    BY <2>2 DEF PurgeFiles
  <2>3. CASE ListFiles(t)
    BY <2>3 DEF ListFiles
  <2>4. CASE ListDatasets(t)
    BY <2>4 DEF ListDatasets
  <2>5. CASE Sweep(t)
    BY <2>5 DEF Sweep
  <2>6. CASE PurgeFails(t)
    BY <2>6 DEF PurgeFails
  <2> QED
    BY <1>4, <2>1, <2>2, <2>3, <2>4, <2>5, <2>6 DEF Purge
<1>5. CASE Crash
  BY <1>5 DEF Crash, Steps
<1> QED
  BY <1>1, <1>2, <1>3, <1>4, <1>5

LEMMA TypeStep ==
  ASSUME TypeOK, GateTypeOK', [Next]_vars
  PROVE  TypeOK'
<1>1. CASE UNCHANGED vars
  BY <1>1 DEF TypeOK, vars, db, store, try, purge, gate, GateTypeOK
<1> QED
  BY <1>1, AttemptTypes, UserTypes DEF Next

-----------------------------------------------------------------------------
\* Who is inside the section, or waits for it, is where its program counter says.
LEMMA AttemptSection ==
  ASSUME FileInv, TypeOK', NEW a \in Attempts, Admit(a) \/ Attempt(a)
  PROVE  InSection'
<1> USE DEF FileInv, TypeOK, InSection, Go, db, store, try, purge, gate
<1>1. CASE UNCHANGED <<thread, work, seen, gate>> /\ a \notin publishing \cup waitingPublishers
           /\ at'[a] # "written" /\ \A b \in Attempts \ {a} : at'[b] = at[b]
  BY <1>1
<1>2. CASE Enter(a)
  <2>1. at[a] = "reserved" /\ at'[a] = "section" /\ \A b \in Attempts \ {a} : at'[b] = at[b]
    BY <1>2 DEF Enter
  <2>2. /\ publishing' \subseteq publishing \cup {a}
        /\ waitingPublishers' \subseteq waitingPublishers \cup {a}
        /\ publishing \subseteq publishing'
        /\ UNCHANGED <<waitingCollectors, sweeping, thread, work, seen>>
    BY <1>2 DEF Enter, AcquirePublisher
  <2> QED
    BY <2>1, <2>2
<1>3. CASE Publish(a)
  BY <1>3 DEF Publish, GateInv
<1>4. ASSUME ReleasePublisher(a), UNCHANGED <<thread, work, seen>>,
             at'[a] # "written", \A b \in Attempts \ {a} : at'[b] = at[b]
      PROVE  InSection'
  <2>1. publishing' = publishing \ {a} /\ waitingPublishers' = waitingPublishers
    BY <1>4 DEF ReleasePublisher
  <2>2. a \notin waitingPublishers
    BY <1>4 DEF ReleasePublisher, GateInv
  <2>3. CASE UNCHANGED <<sweeping, waitingCollectors>>
    BY <1>4, <2>1, <2>2, <2>3
  <2>4. CASE /\ waitingCollectors # << >> /\ sweeping' = sweeping \cup {Head(waitingCollectors)}
             /\ waitingCollectors' = Tail(waitingCollectors)
    <3>1. /\ work[Head(waitingCollectors)] = "section"
          /\ \A k \in DOMAIN waitingCollectors' : work[waitingCollectors'[k]] = "section"
      BY <2>4 DEF GateTypeOK, Threads
    <3> QED
      BY <1>4, <2>1, <2>2, <2>4, <3>1
  <2> QED
    BY <1>4, <2>3, <2>4 DEF ReleasePublisher
<1>5. CASE PublishFails(a)
  BY <1>4, <1>5 DEF PublishFails
<1>6. CASE Promote(a) \/ PromoteFails(a)
  <2>1. CASE at[a] = "written"
    BY <1>4, <1>6, <2>1 DEF Promote, PromoteFails, Leave
  <2>2. CASE at[a] = "replay"
    BY <1>1, <1>6, <2>2 DEF Promote, PromoteFails, Leave
  <2> QED
    BY <1>6, <2>1, <2>2 DEF Promote, PromoteFails, Leave
<1>7. CASE Admit(a) \/ Reserve(a) \/ ReserveFails(a) \/ Clean(a) \/ CleanEnds(a)
           \/ Index(a) \/ IndexFails(a) \/ Undo(a)
  BY <1>1, <1>7 DEF Admit, Reserve, ReserveFails, Clean, CleanEnds, Index, IndexFails, Undo
<1> QED
  BY <1>2, <1>3, <1>5, <1>6, <1>7 DEF Attempt

\* A collector that leaves lets in one that is at the door.
LEMMA LeavingCollector ==
  ASSUME FileInv, TypeOK', NEW t \in Threads, ReleaseCollector(t),
         work'[t] \in {"done", "failed"}, seen'[t] = {},
         \A u \in Threads \ {t} : work'[u] = work[u] /\ seen'[u] = seen[u],
         UNCHANGED <<thread, at>>
  PROVE  InSection'
<1> USE DEF FileInv, TypeOK, InSection
<1>1. \A u \in sweeping : u = t
  BY DEF GateInv, Exclusion, ReleaseCollector
<1>2. \A k \in DOMAIN waitingCollectors : waitingCollectors[k] \in Threads \ {t}
  BY DEF GateInv, WaitOnce, ReleaseCollector, GateTypeOK, Threads
<1>3. CASE /\ waitingCollectors # << >> /\ sweeping' = (sweeping \ {t}) \cup {Head(waitingCollectors)}
           /\ waitingCollectors' = Tail(waitingCollectors)
           /\ UNCHANGED <<waitingPublishers, publishing>>
  <2>1. /\ Head(waitingCollectors) \in Threads \ {t} /\ work'[Head(waitingCollectors)] = "section"
        /\ \A k \in DOMAIN waitingCollectors' : work'[waitingCollectors'[k]] = "section"
    BY <1>2, <1>3 DEF GateTypeOK, Threads
  <2>2. /\ sweeping' = {Head(waitingCollectors)}
        /\ \A u \in Threads : work'[u] = "listing" => FALSE
        /\ \A u \in Threads : seen'[u] = {}
    BY <1>1, <1>3
  <2>3. \A u \in Threads : work[u] # "none" /\ work'[u] # "none" => thread[u] = "purged"
    OBVIOUS
  <2>4. thread[t] = "purged"
    BY DEF ReleaseCollector
  <2> QED
    BY <1>3, <2>1, <2>2, <2>3, <2>4
<1>4. CASE /\ waitingCollectors = << >> /\ sweeping' = sweeping \ {t}
           /\ publishing' = publishing \cup waitingPublishers /\ waitingPublishers' = {}
           /\ UNCHANGED waitingCollectors
  <2>1. thread[t] = "purged"
    BY DEF ReleaseCollector
  <2>2. sweeping' = {}
    BY <1>1, <1>4
  <2> QED
    BY <1>1, <1>4, <2>1, <2>2
<1> QED
  BY <1>3, <1>4 DEF ReleaseCollector

LEMMA UserSection ==
  ASSUME FileInv, TypeOK',
         \/ \E f \in Files : Delete(f) \/ Unlink(f)
         \/ \E t \in Threads : Trash(t) \/ Restore(t) \/ PurgeRows(t) \/ Purge(t)
         \/ Crash
  PROVE  InSection'
<1> USE DEF FileInv, TypeOK, InSection, db, store, try, purge, gate, Forget
<1>1. ASSUME NEW f \in Files, Delete(f) \/ Unlink(f)
      PROVE  InSection'
  BY <1>1 DEF Delete, Unlink
<1>2. ASSUME NEW t \in Threads, Trash(t) \/ Restore(t) \/ PurgeRows(t)
      PROVE  InSection'
  <2>1. \A k \in DOMAIN waitingCollectors : waitingCollectors[k] \in Threads
    BY DEF GateTypeOK, Threads
  <2>2. CASE Trash(t)
    BY <2>2 DEF Trash
  <2>3. CASE Restore(t)
    BY <2>3 DEF Restore
  <2>4. CASE PurgeRows(t)
    BY <2>1, <2>4 DEF PurgeRows
  <2> QED
    BY <1>2, <2>2, <2>3, <2>4
<1>3. ASSUME NEW t \in Threads, Purge(t)
      PROVE  InSection'
  <2>1. CASE EnterCollector(t)
    <3>1. /\ work[t] = "queue" /\ work'[t] = "section"
          /\ \A u \in Threads \ {t} : work'[u] = work[u]
          /\ UNCHANGED <<thread, at, seen, publishing, waitingPublishers>>
      BY <2>1 DEF EnterCollector, AcquireCollector
    <3>2. CASE sweeping' = sweeping \cup {t} /\ UNCHANGED waitingCollectors
      BY <3>1, <3>2 DEF GateTypeOK, Threads
    <3>3. CASE waitingCollectors' = Append(waitingCollectors, t) /\ UNCHANGED sweeping
      <4>1. \A k \in DOMAIN waitingCollectors' : work'[waitingCollectors'[k]] = "section"
        BY <3>1, <3>3 DEF GateTypeOK, Threads
      <4> QED
        BY <3>1, <3>3, <4>1
    <3> QED
      BY <2>1, <3>2, <3>3 DEF EnterCollector, AcquireCollector
  <2>2. CASE PurgeFiles(t)
    <3>1. \A k \in DOMAIN waitingCollectors : waitingCollectors[k] # t /\ waitingCollectors[k] \in Threads
      BY <2>2 DEF PurgeFiles, GateInv, WaitOnce, GateTypeOK, Threads
    <3> QED
      BY <2>2, <3>1 DEF PurgeFiles
  <2>3. CASE ListFiles(t) \/ ListDatasets(t)
    BY <2>3 DEF ListFiles, ListDatasets
  <2>4. CASE Sweep(t)
    BY <2>4, LeavingCollector DEF Sweep
  <2>5. CASE PurgeFails(t)
    BY <2>5, LeavingCollector DEF PurgeFails
  <2> QED
    BY <1>3, <2>1, <2>2, <2>3, <2>4, <2>5 DEF Purge
<1>4. CASE Crash
  BY <1>4 DEF Crash, GateRestart
<1> QED
  BY <1>1, <1>2, <1>3, <1>4

LEMMA SectionStep ==
  ASSUME FileInv, TypeOK', [Next]_vars
  PROVE  InSection'
<1>1. CASE UNCHANGED vars
  BY <1>1 DEF FileInv, InSection, vars, db, store, try, purge, gate
<1> QED
  BY <1>1, AttemptSection, UserSection DEF Next

-----------------------------------------------------------------------------
(* The rows, and the files they promise.                                   *)

\* What a promotion does to the rows of one thread and key.
LEMMA Promotion ==
  ASSUME FileInv, NEW f \in Files, CanPromote(f)
  PROVE  /\ Promoted(f) \in [Files -> {"none", "pending", "ready", "deleted"}]
         /\ Promoted(f)[f] = "ready"
         /\ \A g \in Others(f) : row[g] \in {"ready", "deleted"} => Promoted(f)[g] = "deleted"
         /\ \A g \in Files \ {f} : Promoted(f)[g] # row[g] => row[g] = "ready" /\ Promoted(f)[g] = "deleted"
         /\ \A g \in Files : Promoted(f)[g] = "ready" => \A h \in Others(g) : Promoted(f)[h] # "ready"
<1> USE FileLifecycleConstants DEF FileInv, TypeOK, CanPromote
<1>1. CASE row[f] = "ready"
  <2>1. Promoted(f) = row
    BY <1>1 DEF Promoted
  <2>2. \A g \in Files : row[g] = "ready" => \A h \in Others(g) : row[h] # "ready"
    BY DEF RowsAreSound, OneReady
  <2>3. Promoted(f) \in [Files -> {"none", "pending", "ready", "deleted"}] /\ Promoted(f)[f] = "ready"
    BY <1>1, <2>1
  <2>4. \A g \in Others(f) : row[g] # "ready"
    BY <1>1, <2>2
  <2>5. \A g \in Others(f) : row[g] \in {"ready", "deleted"} => Promoted(f)[g] = "deleted"
    BY <2>1, <2>4
  <2> QED
    BY <2>1, <2>2, <2>3, <2>5
<1>2. CASE row[f] = "pending"
  <2>1. Promoted(f) = [g \in Files |-> IF g = f THEN "ready"
                          ELSE IF g \in Others(f) /\ row[g] = "ready" THEN "deleted"
                          ELSE row[g]]
    BY <1>2 DEF Promoted
  <2>2. \A g \in Others(f) : f \in Others(g) /\ g # f
    BY DEF Others
  <2>3. \A g \in Files : f \in Others(g) => g \in Others(f)
    BY DEF Others
  <2>4. ASSUME NEW g \in Files, Promoted(f)[g] = "ready", NEW h \in Others(g)
        PROVE  Promoted(f)[h] # "ready"
    <3>1. h \in Files /\ h # g
      BY DEF Others
    <3>2. CASE g = f
      BY <2>1, <2>4, <3>1, <3>2
    <3>3. CASE h = f
      BY <2>1, <2>3, <2>4, <3>1, <3>3
    <3>4. CASE g # f /\ h # f
      BY <2>1, <2>4, <3>1, <3>4 DEF RowsAreSound, OneReady
    <3> QED
      BY <3>2, <3>3, <3>4
  <2>5. /\ Promoted(f) \in [Files -> {"none", "pending", "ready", "deleted"}]
        /\ Promoted(f)[f] = "ready"
    BY <2>1
  <2>6. \A g \in Others(f) : row[g] \in {"ready", "deleted"} => Promoted(f)[g] = "deleted"
    BY <2>1, <2>2 DEF Others
  <2>7. \A g \in Files \ {f} : Promoted(f)[g] # row[g] => row[g] = "ready" /\ Promoted(f)[g] = "deleted"
    BY <2>1
  <2> QED
    BY <2>4, <2>5, <2>6, <2>7
<1> QED
  BY <1>1, <1>2

\* Rows that stay, or become deleted, keep what is gone gone.
LEMMA SoundRows ==
  ASSUME FileInv, TypeOK', NEW f \in Files, CanPromote(f), row' = Promoted(f),
         f \in meta, UNCHANGED <<thread, disk, meta, unlinking>>
  PROVE  /\ OneReady' /\ ReadyIsReadable' /\ MetaHasContent'
         /\ \A g \in Files : Home(g)' = "purged" => row'[g] = "none"
         /\ \A g \in Files : Gone(g) => Gone(g)'
<1> USE FileLifecycleConstants DEF FileInv, TypeOK
<1>1. OneReady'
  BY Promotion DEF OneReady, Others
<1>2. MetaHasContent'
  BY DEF MetaHasContent
<1>3. ReadyIsReadable'
  BY Promotion DEF ReadyIsReadable, MetaHasContent
<1>4. \A g \in Files : Home(g)' = "purged" => row'[g] = "none"
  BY Promotion DEF RowsAreSound, Home, CanPromote
<1>5. \A g \in Files : Gone(g) => Gone(g)'
  BY Promotion DEF Gone, Home, CanPromote
<1> QED
  BY <1>1, <1>2, <1>3, <1>4, <1>5

\* What an attempt that may promote its row knows of its file.
LEMMA PromotableHasMeta ==
  ASSUME FileInv, NEW a \in Attempts, Leave(a), CanPromote(FileOf[a])
  PROVE  FileOf[a] \in meta
  BY FileLifecycleConstants DEF FileInv, Leave, CanPromote, RowsAreSound, ReadyIsReadable, Gone, Home

\* An attempt other than a promotion that does not touch the rows of files that
\* are ready, or gone.
LEMMA AttemptSound ==
  ASSUME FileInv, TypeOK', NEW a \in Attempts, Admit(a) \/ Attempt(a)
  PROVE  RowsAreSound' /\ ReadyIsReadable' /\ MetaHasContent'
<1> USE FileLifecycleConstants DEF FileInv, TypeOK, Go, db, store, try, purge
<1>1. CASE Admit(a) \/ ReserveFails(a) \/ Enter(a) \/ IndexFails(a) \/ Index(a)
  BY <1>1 DEF Admit, ReserveFails, Enter, IndexFails, Index, RowsAreSound, OneReady, Gone, Home,
              ReadyIsReadable, MetaHasContent
<1>2. CASE Reserve(a)
  <2>1. CASE row'[FileOf[a]] = "pending" /\ row[FileOf[a]] \in {"none", "pending"}
             /\ at'[a] = "reserved" /\ \A g \in Files \ {FileOf[a]} : row'[g] = row[g]
    <3>1. \A g \in Files : Gone(g) <=> Gone(g)'
      BY <1>2, <2>1 DEF Reserve, Gone, Home
    <3>2. OneReady' /\ \A g \in Files : Home(g)' = "purged" => row'[g] = "none"
      BY <1>2, <2>1 DEF Reserve, RowsAreSound, OneReady, Others, Home
    <3>3. ReadyIsReadable' /\ MetaHasContent'
      BY <1>2, <2>1 DEF Reserve, ReadyIsReadable, MetaHasContent
    <3>4. \A b \in Attempts : /\ at'[b] = "written" => FileOf[b] \in meta \/ Gone(FileOf[b])
                             /\ at'[b] = "replay" => row'[FileOf[b]] = "ready" \/ Gone(FileOf[b])
      BY <1>2, <2>1 DEF Reserve, RowsAreSound, Gone, Home
    <3> QED
      BY <1>2, <3>1, <3>2, <3>3, <3>4 DEF Reserve, RowsAreSound
  <2>2. CASE row[FileOf[a]] = "ready" /\ at'[a] = "replay" /\ UNCHANGED row
    BY <1>2, <2>2 DEF Reserve, RowsAreSound, OneReady, Gone, Home, ReadyIsReadable, MetaHasContent
  <2> QED
    BY <1>2, <2>1, <2>2 DEF Reserve
<1>3. CASE Publish(a)
  <2>1. ContentOf[FileOf[a]] \in disk' /\ disk \subseteq disk'
    BY <1>3 DEF Publish, MetaHasContent
  <2>2. MetaHasContent' /\ ReadyIsReadable'
    BY <1>3, <2>1 DEF Publish, MetaHasContent, ReadyIsReadable
  <2>3. RowsAreSound'
    BY <1>3 DEF Publish, RowsAreSound, OneReady, Gone, Home
  <2> QED
    BY <2>2, <2>3
<1>4. CASE PublishFails(a)
  BY <1>4 DEF PublishFails, RowsAreSound, OneReady, Gone, Home, ReadyIsReadable, MetaHasContent
<1>5. CASE Promote(a)
  <2>1. FileOf[a] \in meta /\ CanPromote(FileOf[a]) /\ FileOf[a] \in Files
    BY <1>5, PromotableHasMeta DEF Promote
  <2>2. /\ OneReady' /\ ReadyIsReadable' /\ MetaHasContent'
        /\ \A g \in Files : Home(g)' = "purged" => row'[g] = "none"
        /\ \A g \in Files : Gone(g) => Gone(g)'
    BY <1>5, <2>1, SoundRows DEF Promote
  <2>3. \A g \in old'[a] : Gone(g)'
    <3>1. \A g \in old'[a] : g \in Others(FileOf[a]) /\ row[g] \in {"ready", "deleted"} /\ g \in Files
      BY <1>5, <2>1 DEF Promote, Others
    <3> QED
      BY <1>5, <2>1, <3>1, Promotion DEF Promote, Gone
  <2>4. \A b \in Attempts : row[FileOf[b]] = "ready" => row'[FileOf[b]] = "ready" \/ Gone(FileOf[b])'
    BY <1>5, <2>1, Promotion DEF Promote, Gone
  <2> QED
    BY <1>5, <2>2, <2>3, <2>4 DEF Promote, RowsAreSound
<1>6. CASE PromoteFails(a)
  <2>1. CASE row' = row
    BY <1>6, <2>1 DEF PromoteFails, RowsAreSound, OneReady, Gone, Home, ReadyIsReadable,
                      MetaHasContent
  <2>2. CASE CanPromote(FileOf[a]) /\ row' = Promoted(FileOf[a])
    <3>1. FileOf[a] \in meta /\ FileOf[a] \in Files
      BY <1>6, <2>2, PromotableHasMeta DEF PromoteFails
    <3>2. /\ OneReady' /\ ReadyIsReadable' /\ MetaHasContent'
          /\ \A g \in Files : Home(g)' = "purged" => row'[g] = "none"
          /\ \A g \in Files : Gone(g) => Gone(g)'
      BY <1>6, <2>2, <3>1, SoundRows DEF PromoteFails
    <3>3. \A b \in Attempts : row[FileOf[b]] = "ready" => row'[FileOf[b]] = "ready" \/ Gone(FileOf[b])'
      BY <2>2, <3>1, Promotion DEF Gone
    <3> QED
      BY <1>6, <3>2, <3>3 DEF PromoteFails, RowsAreSound
  <2> QED
    BY <1>6, <2>1, <2>2 DEF PromoteFails
<1>7. CASE Clean(a)
  <2>1. PICK g \in old[a] : meta' = meta \ {g}
    BY <1>7 DEF Clean
  <2>2. Gone(g)
    BY <2>1 DEF RowsAreSound
  <2>3. ReadyIsReadable' /\ MetaHasContent'
    BY <1>7, <2>1, <2>2 DEF Clean, ReadyIsReadable, MetaHasContent, Gone, RowsAreSound
  <2>4. RowsAreSound'
    BY <1>7, <2>1, <2>2 DEF Clean, RowsAreSound, OneReady, Gone, Home
  <2> QED
    BY <2>3, <2>4
<1>8. CASE CleanEnds(a)
  BY <1>8 DEF CleanEnds, RowsAreSound, OneReady, Gone, Home, ReadyIsReadable, MetaHasContent
<1>9. CASE Undo(a)
  BY <1>9 DEF Undo, DeleteRow, RowsAreSound, OneReady, Others, Gone, Home, ReadyIsReadable,
              MetaHasContent
<1> QED
  BY <1>1, <1>2, <1>3, <1>4, <1>5, <1>6, <1>7, <1>8, <1>9 DEF Attempt

LEMMA UserSound ==
  ASSUME FileInv, TypeOK',
         \/ \E f \in Files : Delete(f) \/ Unlink(f)
         \/ \E t \in Threads : Trash(t) \/ Restore(t) \/ PurgeRows(t) \/ Purge(t)
         \/ Crash
  PROVE  RowsAreSound' /\ ReadyIsReadable' /\ MetaHasContent'
<1> USE FileLifecycleConstants DEF FileInv, TypeOK, db, store, try, purge
<1>1. ASSUME NEW f \in Files, Delete(f)
      PROVE  RowsAreSound' /\ ReadyIsReadable' /\ MetaHasContent'
  BY <1>1 DEF Delete, DeleteRow, RowsAreSound, OneReady, Others, Gone, Home, ReadyIsReadable,
              MetaHasContent
<1>2. ASSUME NEW f \in Files, Unlink(f)
      PROVE  RowsAreSound' /\ ReadyIsReadable' /\ MetaHasContent'
  <2>1. Gone(f)
    BY <1>2 DEF Unlink, RowsAreSound
  <2>2. ReadyIsReadable' /\ MetaHasContent'
    BY <1>2, <2>1 DEF Unlink, ReadyIsReadable, MetaHasContent, Gone, RowsAreSound
  <2>3. RowsAreSound'
    BY <1>2, <2>1 DEF Unlink, RowsAreSound, OneReady, Gone, Home
  <2> QED
    BY <2>2, <2>3
<1>3. ASSUME NEW t \in Threads, Trash(t) \/ Restore(t)
      PROVE  RowsAreSound' /\ ReadyIsReadable' /\ MetaHasContent'
  <2>1. \A f \in Files : Gone(f) <=> Gone(f)'
    BY <1>3 DEF Trash, Restore, Gone, Home
  <2>2. ReadyIsReadable' /\ MetaHasContent' /\ OneReady'
    BY <1>3 DEF Trash, Restore, ReadyIsReadable, MetaHasContent, RowsAreSound, OneReady
  <2>3. \A f \in Files : Home(f)' = "purged" => row'[f] = "none"
    BY <1>3 DEF Trash, Restore, RowsAreSound, Home
  <2> QED
    BY <1>3, <2>1, <2>2, <2>3 DEF Trash, Restore, RowsAreSound
<1>4. ASSUME NEW t \in Threads, PurgeRows(t)
      PROVE  RowsAreSound' /\ ReadyIsReadable' /\ MetaHasContent'
  <2>1. \A f \in Files : /\ Gone(f) => Gone(f)'
                         /\ row'[f] # row[f] => row'[f] = "none" /\ Gone(f)'
    BY <1>4 DEF PurgeRows, FilesOf, Gone, Home
  <2>2. ReadyIsReadable' /\ MetaHasContent' /\ OneReady'
    <3>1. \A f \in Files : row'[f] = "ready" => row[f] = "ready"
      BY <2>1
    <3>2. ReadyIsReadable' /\ MetaHasContent'
      BY <1>4, <3>1 DEF PurgeRows, ReadyIsReadable, MetaHasContent
    <3>3. OneReady'
      BY <3>1 DEF RowsAreSound, OneReady, Others
    <3> QED
      BY <3>2, <3>3
  <2>3. \A f \in Files : Home(f)' = "purged" => row'[f] = "none"
    BY <1>4 DEF PurgeRows, RowsAreSound, Home, FilesOf
  <2> QED
    BY <1>4, <2>1, <2>2, <2>3 DEF PurgeRows, RowsAreSound
<1>5. ASSUME NEW t \in Threads, PurgeFiles(t)
      PROVE  RowsAreSound' /\ ReadyIsReadable' /\ MetaHasContent'
  <2>1. \A a \in Attempts : at[a] # "written"
    BY <1>5 DEF PurgeFiles, GateInv, Exclusion, InSection
  <2>2. \A f \in FilesOf(t) : row[f] = "none"
    BY <1>5 DEF PurgeFiles, InSection, FilesOf, RowsAreSound, Home
  <2>3. ReadyIsReadable' /\ MetaHasContent'
    BY <1>5, <2>2 DEF PurgeFiles, ReadyIsReadable, MetaHasContent
  <2>4. RowsAreSound'
    BY <1>5, <2>1 DEF PurgeFiles, RowsAreSound, OneReady, Gone, Home
  <2> QED
    BY <2>3, <2>4
<1>6. ASSUME NEW t \in Threads,
             EnterCollector(t) \/ ListFiles(t) \/ ListDatasets(t) \/ PurgeFails(t)
      PROVE  RowsAreSound' /\ ReadyIsReadable' /\ MetaHasContent'
  BY <1>6 DEF EnterCollector, ListFiles, ListDatasets, PurgeFails, RowsAreSound, OneReady, Gone,
              Home, ReadyIsReadable, MetaHasContent
<1>7. ASSUME NEW t \in Threads, Sweep(t)
      PROVE  RowsAreSound' /\ ReadyIsReadable' /\ MetaHasContent'
  <2>1. \A f \in meta : ContentOf[f] \in disk'
    BY <1>7 DEF Sweep, Garbage, MetaHasContent
  <2>2. ReadyIsReadable' /\ MetaHasContent'
    BY <1>7, <2>1 DEF Sweep, ReadyIsReadable, MetaHasContent
  <2>3. RowsAreSound'
    BY <1>7 DEF Sweep, RowsAreSound, OneReady, Gone, Home
  <2> QED
    BY <2>2, <2>3
<1>8. CASE Crash
  BY <1>8 DEF Crash, RowsAreSound, OneReady, Gone, Home, ReadyIsReadable, MetaHasContent
<1> QED
  BY <1>1, <1>2, <1>3, <1>4, <1>5, <1>6, <1>7, <1>8 DEF Purge

-----------------------------------------------------------------------------
LEMMA FileInit ==
  ASSUME Init
  PROVE  FileInv
<1> USE FileLifecycleConstants DEF Init
<1>1. TypeOK
  BY DEF TypeOK, Steps, GateInit, GateTypeOK
<1>2. GateInv
  BY GateInitInv
<1>3. InSection
  BY DEF InSection, GateInit
<1>4. RowsAreSound /\ ReadyIsReadable /\ MetaHasContent
  BY DEF RowsAreSound, OneReady, Others, ReadyIsReadable, MetaHasContent, Home
<1> QED
  BY <1>1, <1>2, <1>3, <1>4 DEF FileInv

LEMMA FileStep ==
  ASSUME FileInv, [Next]_vars
  PROVE  FileInv'
<1>1. GateInv'
  BY GateRespected, GateStep DEF FileInv
<1>2. TypeOK'
  BY <1>1, TypeStep DEF FileInv, GateInv
<1>3. InSection'
  BY <1>2, SectionStep
<1>4. RowsAreSound' /\ ReadyIsReadable' /\ MetaHasContent'
  <2>1. CASE UNCHANGED vars
    BY <2>1 DEF FileInv, vars, db, store, try, purge, RowsAreSound, OneReady, Gone, Home,
                ReadyIsReadable, MetaHasContent
  <2> QED
    BY <1>2, <2>1, AttemptSound, UserSound DEF Next
<1> QED
  BY <1>1, <1>2, <1>3, <1>4 DEF FileInv

\* Section, rows, metadata and objects agree in every reachable state.
THEOREM FileInductive == Spec => []FileInv
  BY FileInit, FileStep, PTL DEF Spec

\* A ready row has its metadata and its object, whatever attempts, deletions,
\* purges and crashes interleave.
THEOREM ReadableTheorem == Spec => []ReadyIsReadable
<1>1. FileInv => ReadyIsReadable
  BY DEF FileInv
<1> QED
  BY <1>1, FileInductive, PTL

\* A collection never takes the object of a metadata file.
THEOREM MetaTheorem == Spec => []MetaHasContent
<1>1. FileInv => MetaHasContent
  BY DEF FileInv
<1> QED
  BY <1>1, FileInductive, PTL

\* No object is put or committed while a collection is at work.
THEOREM SectionTheorem == Spec => []Exclusion
<1>1. FileInv => Exclusion
  BY DEF FileInv, GateInv
<1> QED
  BY <1>1, FileInductive, PTL

\* Whoever waits for the section has somebody inside whose release lets it in.
THEOREM WakeupTheorem == Spec => []NoLostWakeup
<1>1. FileInv => NoLostWakeup
  BY DEF FileInv, GateInv
<1> QED
  BY <1>1, FileInductive, PTL

\* The type invariant, for any sets of threads, files and attempts.
THEOREM FilesTypeCorrect == Spec => []TypeOK
<1>1. FileInv => TypeOK
  BY DEF FileInv
<1> QED
  BY <1>1, FileInductive, PTL

\* The uses of the section are behaviours of the section.
THEOREM SectionRefinement == Spec => GateSpec
<1>1. Init => GateInit
  BY DEF Init
<1>2. [Next]_vars => [GateNext]_gate
  BY GateRespected
<1> QED
  BY <1>1, <1>2, PTL DEF Spec, GateSpec

\* No upload or copy gets in before a collection that waits.
THEOREM FilesNoOvertaking == Spec => NoOvertaking
  BY SectionRefinement, NoOvertakingTheorem

-----------------------------------------------------------------------------
(* A data set pins its object: it stays a row for good, and every purge that *)
(* has read the data sets has seen it.                                       *)

Pinned(f) ==
  /\ f \in dataset
  /\ ContentOf[f] \in disk
  /\ \A t \in sweeping : "datasets" \in seen[t] => ContentOf[f] \in refs[t]

LEMMA PinnedStep ==
  ASSUME FileInv, [Next]_vars, NEW f \in Files, Pinned(f)
  PROVE  Pinned(f)'
<1> USE FileLifecycleConstants DEF FileInv, TypeOK, Pinned, db, store, try, purge, gate
<1>1. ASSUME NEW a \in Attempts, Admit(a) \/ Attempt(a)
      PROVE  Pinned(f)'
  <2>1. dataset \subseteq dataset' /\ disk \subseteq disk' /\ UNCHANGED <<seen, refs>>
    BY <1>1 DEF Attempt, Admit, Reserve, ReserveFails, Enter, Publish, PublishFails, Promote,
       PromoteFails, Leave, Clean, CleanEnds, Index, IndexFails, Undo
  <2>2. \A t \in sweeping' : t \in sweeping \/ seen[t] = {}
    <3>1. sweeping' = sweeping \/ \E b \in Attempts : ReleasePublisher(b)
      BY <1>1 DEF Attempt, Admit, Reserve, ReserveFails, Enter, AcquirePublisher, Publish,
         PublishFails, Promote, PromoteFails, Leave, Clean, CleanEnds, Index, IndexFails, Undo
    <3>2. ASSUME NEW b \in Attempts, ReleasePublisher(b)
          PROVE  \A t \in sweeping' : t \in sweeping \/ seen[t] = {}
      <4>1. waitingCollectors # << >> => /\ Head(waitingCollectors) = waitingCollectors[1]
                                        /\ waitingCollectors[1] \in Threads
                                        /\ waitingCollectors[1] \notin sweeping
        BY DEF GateInv, WaitOnce, GateTypeOK, Threads
      <4> QED
        BY <3>2, <4>1 DEF ReleasePublisher, InSection
    <3> QED
      BY <3>1, <3>2
  <2> QED
    BY <2>1, <2>2
<1>2. ASSUME NEW g \in Files, Delete(g) \/ Unlink(g)
      PROVE  Pinned(f)'
  BY <1>2 DEF Delete, Unlink
<1>3. ASSUME NEW t \in Threads, Trash(t) \/ Restore(t) \/ PurgeRows(t)
      PROVE  Pinned(f)'
  BY <1>3 DEF Trash, Restore, PurgeRows
<1>4. ASSUME NEW t \in Threads, EnterCollector(t)
      PROVE  Pinned(f)'
  <2>1. seen[t] = {}
    BY <1>4 DEF EnterCollector, AcquireCollector, InSection
  <2>2. sweeping' \subseteq sweeping \cup {t}
    BY <1>4 DEF EnterCollector, AcquireCollector
  <2> QED
    BY <1>4, <2>1, <2>2 DEF EnterCollector
<1>5. ASSUME NEW t \in Threads, PurgeFiles(t) \/ ListFiles(t)
      PROVE  Pinned(f)'
  <2>1. CASE PurgeFiles(t)
    BY <2>1 DEF PurgeFiles
  <2>2. CASE ListFiles(t)
    <3>1. \A u \in Threads : /\ refs[u] \subseteq refs'[u]
                            /\ "datasets" \in seen'[u] => "datasets" \in seen[u]
      BY <2>2 DEF ListFiles
    <3> QED
      BY <2>2, <3>1 DEF ListFiles, GateTypeOK, Threads
  <2> QED
    BY <1>5, <2>1, <2>2
<1>6. ASSUME NEW t \in Threads, ListDatasets(t)
      PROVE  Pinned(f)'
  BY <1>6 DEF ListDatasets
<1>7. ASSUME NEW t \in Threads, ReleaseCollector(t), seen'[t] = {},
             \A u \in Threads \ {t} : seen'[u] = seen[u] /\ refs'[u] = refs[u]
      PROVE  \A u \in sweeping' : seen'[u] = {}
  <2>1. \A u \in sweeping : u = t
    BY <1>7 DEF GateInv, Exclusion, ReleaseCollector
  <2>2. waitingCollectors # << >> => /\ Head(waitingCollectors) = waitingCollectors[1]
                                    /\ waitingCollectors[1] \in Threads
                                    /\ waitingCollectors[1] \notin sweeping
    BY DEF GateInv, WaitOnce, GateTypeOK, Threads
  <2> QED
    BY <1>7, <2>1, <2>2 DEF ReleaseCollector, InSection
<1>8. ASSUME NEW t \in Threads, Sweep(t)
      PROVE  Pinned(f)'
  <2>1. ContentOf[f] \in disk'
    BY <1>8 DEF Sweep, Garbage, Queries, ReleaseCollector
  <2>2. \A u \in sweeping' : seen'[u] = {}
    BY <1>7, <1>8 DEF Sweep, Forget
  <2> QED
    BY <1>8, <2>1, <2>2 DEF Sweep
<1>9. ASSUME NEW t \in Threads, PurgeFails(t)
      PROVE  Pinned(f)'
  <2>1. \A u \in sweeping' : seen'[u] = {}
    BY <1>7, <1>9 DEF PurgeFails, Forget
  <2> QED
    BY <1>9, <2>1 DEF PurgeFails
<1>10. CASE Crash
  BY <1>10 DEF Crash, GateRestart
<1>11. CASE UNCHANGED vars
  BY <1>11 DEF vars
<1> QED
  BY <1>1, <1>2, <1>3, <1>4, <1>5, <1>6, <1>8, <1>9, <1>10, <1>11 DEF Next, Purge

\* A data set in place, its file still ready, keeps its object for good.
THEOREM DatasetTheorem == Spec => DatasetKeepsContent
<1>1. ASSUME NEW f \in {FileOf[a] : a \in Indexed}
      PROVE  Spec => [](f \in dataset /\ row[f] = "ready" /\ sweeping = {}
                           => [](ContentOf[f] \in disk))
  <2>1. f \in Files
    BY FileLifecycleConstants
  <2>2. FileInv /\ (f \in dataset /\ row[f] = "ready" /\ sweeping = {}) => Pinned(f)
    BY <2>1 DEF FileInv, ReadyIsReadable, Pinned
  <2>3. FileInv /\ Pinned(f) /\ [Next]_vars => Pinned(f)'
    BY <2>1, PinnedStep
  <2>4. Pinned(f) => ContentOf[f] \in disk
    BY DEF Pinned
  <2> QED
    BY <2>2, <2>3, <2>4, FileInductive, PTL DEF Spec
<1> QED
  BY <1>1 DEF DatasetKeepsContent
=============================================================================
