------------------------------ MODULE ToolGate_proofs ------------------------------
(***************************************************************************)
(* The gate of ToolGate, for any finite set of calls and any set of        *)
(* sub-agents: its counters agree with who holds a lease, nobody is left   *)
(* waiting at a free gate, exclusive operations are alone, and a right     *)
(* taken away is gone for every call that had still to be checked.         *)
(***************************************************************************)
EXTENDS ToolGate, FiniteSetTheorems, FunctionTheorems, TLAPS

LEMMA HoldersFinite == IsFiniteSet(Holders)
<1>1. Holders \in SUBSET Calls
  BY DEF Holders
<1> QED
  BY <1>1, FS_Subset, ToolGateConstants

LEMMA InitInv == Init => LeaseInv
<1> SUFFICES ASSUME Init PROVE LeaseInv
  OBVIOUS
<1>1. TypeOK
  <2>1. /\ 0 \in 0..MaxInner
        /\ << >> \in Seq(Calls)
    BY ToolGateConstants
  <2> QED
    BY <2>1 DEF Init, TypeOK, Phases, Lanes
<1>2. LeasesAreCounted
  <2>1. Holders = {}
    BY DEF Init, Holders
  <2>2. {c \in Holders : lane[c] = "shared"} = {}
    BY <2>1
  <2> QED
    BY <2>1, <2>2, FS_EmptySet DEF Init, LeasesAreCounted
<1>3. NoMissedWakeup /\ QueueInv /\ NestingInv /\ ChainInv
  BY DEF Init, NoMissedWakeup, QueueInv, NestingInv, ChainInv, Outermost, Enqueued, Distinct
<1> QED
  BY <1>1, <1>2, <1>3 DEF LeaseInv

\* The first n members of a queue without repetition are n.
LEMMA PrefixCount ==
  ASSUME NEW q \in Seq(Calls), Distinct(q), NEW n \in 0..Len(q)
  PROVE  Cardinality({q[k] : k \in 1..n}) = n
<1> DEFINE S == {q[k] : k \in 1..n}
           f == [k \in 1..n |-> q[k]]
<1>1. f \in Bijection(1..n, S)
  <2>1. f \in [1..n -> S]
    OBVIOUS
  <2>2. \A j, k \in 1..n : f[j] = f[k] => j = k
    BY DEF Distinct
  <2>3. \A x \in S : \E k \in 1..n : f[k] = x
    OBVIOUS
  <2> HIDE DEF S, f
  <2> QED
    BY <2>1, <2>2, <2>3, Fun_IsBij
<1>2. ExistsBijection(1..n, S)
  BY <1>1 DEF ExistsBijection
<1> QED
  BY <1>2, FS_CountingElements

\* What a pump does: the first n of the queue are gone, and admitted; they are
\* nobody, an exclusive call, or all the shared calls in front.
Pumped(n, lanes, phases, queue, shared, exclusive) ==
    /\ waiting' \in Seq(Calls) /\ Len(waiting') = Len(queue) - n
    /\ \A k \in 1..Len(waiting') : waiting'[k] = queue[n + k]
    /\ Distinct(waiting')
    /\ phase' = [c \in Calls |->
                   IF \E k \in 1..n : queue[k] = c THEN "admitted" ELSE phases[c]]
    /\ \/ /\ n = 0 /\ activeShared' = shared /\ activeExclusive' = exclusive
          /\ queue # << >> =>
               exclusive = "yes" \/ (lanes[queue[1]] = "exclusive" /\ shared > 0)
       \/ /\ n = 1 /\ exclusive = "no" /\ shared = 0 /\ lanes[queue[1]] = "exclusive"
          /\ activeShared' = shared /\ activeExclusive' = "yes"
       \/ /\ n > 0 /\ exclusive = "no"
          /\ \A k \in 1..n : lanes[queue[k]] = "shared"
          /\ n < Len(queue) => lanes[queue[n + 1]] = "exclusive"
          /\ activeShared' = shared + n /\ activeExclusive' = "no"

LEMMA PumpEffect ==
  ASSUME NEW lanes \in [Calls -> Lanes], NEW phases \in [Calls -> Phases],
         NEW queue \in Seq(Calls), Distinct(queue),
         NEW shared \in Nat, NEW exclusive \in {"yes", "no"},
         Pump(lanes, phases, queue, shared, exclusive)
  PROVE  \E n \in 0..Len(queue) : Pumped(n, lanes, phases, queue, shared, exclusive)
<1> USE DEF Pumped
<1>1. PICK n \in 0..Len(queue) :
        /\ Leaves(n, lanes, queue, shared, exclusive)
        /\ waiting' = SubSeq(queue, n + 1, Len(queue))
        /\ phase' = [c \in Calls |->
                       IF \E k \in 1..n : queue[k] = c THEN "admitted" ELSE phases[c]]
        /\ activeExclusive' = IF n > 0 /\ lanes[Head(queue)] = "exclusive" THEN "yes" ELSE exclusive
        /\ activeShared' = IF n > 0 /\ lanes[Head(queue)] = "shared" THEN shared + n ELSE shared
  BY DEF Pump
<1>2. /\ waiting' \in Seq(Calls) /\ Len(waiting') = Len(queue) - n
      /\ \A k \in 1..Len(waiting') : waiting'[k] = queue[n + k]
  <2>1. n \in Nat /\ n <= Len(queue) /\ Len(queue) \in Nat
    OBVIOUS
  <2> QED
    BY <1>1, <2>1
<1>3. Distinct(waiting')
  <2>1. /\ DOMAIN waiting' = 1..Len(waiting') /\ Len(waiting') \in Nat
        /\ DOMAIN queue = 1..Len(queue) /\ n \in Nat /\ Len(queue) \in Nat
    BY <1>2
  <2>2. ASSUME NEW j \in 1..Len(waiting'), NEW k \in 1..Len(waiting'),
               waiting'[j] = waiting'[k]
        PROVE  j = k
    <3>1. n + j \in DOMAIN queue /\ n + k \in DOMAIN queue /\ queue[n + j] = queue[n + k]
      BY <1>2, <2>1, <2>2
    <3> QED
      BY <3>1, <2>1 DEF Distinct
  <2> QED
    BY <2>1, <2>2 DEF Distinct
<1>4. queue # << >> => Head(queue) = queue[1] /\ 1 \in DOMAIN queue /\ lanes[queue[1]] \in Lanes
  OBVIOUS
<1>5. CASE exclusive = "yes" \/ queue = << >>
  <2>1. n = 0
    BY <1>1, <1>5 DEF Leaves
  <2> QED
    BY <1>1, <1>2, <1>3, <1>5, <2>1
<1>6. CASE exclusive = "no" /\ queue # << >> /\ lanes[queue[1]] = "exclusive"
  <2>1. n = (IF shared > 0 THEN 0 ELSE 1)
    BY <1>1, <1>4, <1>6 DEF Leaves
  <2>2. activeShared' = shared
    BY <1>1, <1>4, <1>6
  <2>3. CASE shared > 0
    <3>1. n = 0
      BY <2>1, <2>3
    <3>2. activeExclusive' = exclusive
      BY <1>1, <3>1
    <3> QED
      BY <1>1, <1>2, <1>3, <1>6, <2>2, <2>3, <3>1, <3>2
  <2>4. CASE shared = 0
    <3>1. n = 1
      BY <2>1, <2>4
    <3>2. activeExclusive' = "yes"
      BY <1>1, <1>4, <1>6, <3>1
    <3> QED
      BY <1>1, <1>2, <1>3, <1>6, <2>2, <2>4, <3>1, <3>2
  <2> QED
    BY <2>3, <2>4
<1>7. CASE exclusive = "no" /\ queue # << >> /\ lanes[queue[1]] = "shared"
  <2>1. /\ n >= 1
        /\ \A k \in 1..n : lanes[queue[k]] = "shared"
        /\ n < Len(queue) => lanes[queue[n + 1]] = "exclusive"
    BY <1>1, <1>4, <1>7 DEF Leaves
  <2>2. activeShared' = shared + n /\ activeExclusive' = "no"
    BY <1>1, <1>4, <1>7, <2>1
  <2> WITNESS n \in 0..Len(queue)
  <2>3. n > 0
    BY <2>1
  <2> QED
    BY <1>1, <1>2, <1>3, <1>7, <2>1, <2>2, <2>3
<1> QED
  BY <1>4, <1>5, <1>6, <1>7 DEF Lanes

\* What the invariant says of the members of the queue.
LEMMA QueueFacts ==
  ASSUME LeaseInv
  PROVE  /\ DOMAIN waiting = 1..Len(waiting) /\ Len(waiting) \in Nat
         /\ \A k \in 1..Len(waiting) :
              /\ waiting[k] \in Calls /\ phase[waiting[k]] = "waiting"
              /\ waiting[k] \notin Holders /\ Outermost(waiting[k])
<1>1. DOMAIN waiting = 1..Len(waiting) /\ Len(waiting) \in Nat
  BY DEF LeaseInv, TypeOK
<1>2. ASSUME NEW k \in 1..Len(waiting)
      PROVE  /\ waiting[k] \in Calls /\ phase[waiting[k]] = "waiting"
             /\ waiting[k] \notin Holders /\ Outermost(waiting[k])
  <2>1. waiting[k] \in Calls
    BY DEF LeaseInv, TypeOK
  <2>2. phase[waiting[k]] = "waiting"
    BY <1>1, <2>1 DEF LeaseInv, QueueInv, Enqueued
  <2> QED
    BY <2>1, <2>2 DEF LeaseInv, NestingInv, Holders
<1> QED
  BY <1>1, <1>2

\* A call that cannot be let in stays at the end of the queue: the pump that
\* follows the push lets nobody in.
LEMMA PushOnly ==
  ASSUME LeaseInv, NEW c \in Calls, NEW l \in Lanes, phase[c] = "idle",
         lane' = [lane EXCEPT ![c] = l],
         waiting # << >> \/ ~ CanAcquire(l),
         Pump(lane', [phase EXCEPT ![c] = "waiting"], Append(waiting, c),
              activeShared, activeExclusive)
  PROVE  /\ waiting' = Append(waiting, c) /\ Distinct(waiting')
         /\ phase' = [phase EXCEPT ![c] = "waiting"]
         /\ UNCHANGED <<activeShared, activeExclusive>>
         /\ NoMissedWakeup'
<1> DEFINE queue == Append(waiting, c)
           phases == [phase EXCEPT ![c] = "waiting"]
<1>0. TypeOK
  BY DEF LeaseInv
<1>1. /\ queue \in Seq(Calls) /\ Len(queue) = Len(waiting) + 1 /\ queue # << >>
      /\ \A k \in 1..Len(waiting) : queue[k] = waiting[k]
      /\ queue[Len(waiting) + 1] = c
  <2>1. waiting \in Seq(Calls) /\ Len(waiting) \in Nat
    BY <1>0 DEF TypeOK
  <2>2. /\ queue \in Seq(Calls) /\ Len(queue) = Len(waiting) + 1
        /\ \A k \in 1..Len(waiting) : queue[k] = waiting[k]
        /\ queue[Len(waiting) + 1] = c
    BY <2>1
  <2>3. queue # << >>
    BY <2>1, <2>2
  <2> QED
    BY <2>2, <2>3
<1>2. Distinct(queue)
  <2>1. \A k \in 1..Len(waiting) : waiting[k] # c
    BY QueueFacts
  <2> QED
    BY <1>1, <2>1, QueueFacts DEF LeaseInv, QueueInv, Distinct
<1>3. lane' \in [Calls -> Lanes] /\ phases \in [Calls -> Phases]
  BY <1>0 DEF TypeOK, Phases
<1>4. activeExclusive = "yes" \/ (lane'[queue[1]] = "exclusive" /\ activeShared > 0)
  <2>1. CASE waiting = << >>
    BY <1>0, <1>1, <2>1 DEF CanAcquire, TypeOK, Lanes
  <2>2. CASE waiting # << >>
    <3>1. queue[1] = waiting[1] /\ waiting[1] # c /\ waiting[1] \in Calls
      BY <1>1, <2>2, QueueFacts
    <3>2. ~ CanAcquire(lane[waiting[1]])
      BY <2>2, <1>0 DEF LeaseInv, NoMissedWakeup, TypeOK
    <3> QED
      BY <3>1, <3>2, <1>0 DEF CanAcquire, TypeOK
  <2> QED
    BY <2>1, <2>2
<1>5. PICK n \in 0..Len(queue) :
        Pumped(n, lane', phases, queue, activeShared, activeExclusive)
  <2> HIDE DEF queue, phases
  <2>1. Pump(lane', phases, queue, activeShared, activeExclusive)
    BY DEF queue, phases
  <2>2. activeShared \in Nat /\ activeExclusive \in {"yes", "no"}
    BY <1>0 DEF TypeOK
  <2>3. /\ lane' \in [Calls -> Lanes] /\ phases \in [Calls -> Phases]
        /\ queue \in Seq(Calls) /\ Distinct(queue)
    BY <1>1, <1>2, <1>3
  <2> QED
    BY ONLY <2>1, <2>2, <2>3, PumpEffect, Zenon
<1>6. n = 0 /\ activeShared' = activeShared /\ activeExclusive' = activeExclusive
  <2>1. n > 0 => 1 \in 1..n
    OBVIOUS
  <2> HIDE DEF queue, phases
  <2> QED
    BY <1>4, <1>5, <2>1 DEF Pumped
<1>7. waiting' = queue
  BY <1>1, <1>5, <1>6 DEF Pumped
<1>8. phase' = phases
  <2>1. \A d \in Calls : ~ \E k \in 1..n : queue[k] = d
    BY <1>6
  <2> HIDE DEF queue, phases
  <2> QED
    BY <1>3, <1>5, <2>1 DEF Pumped
<1>9. NoMissedWakeup'
  BY <1>1, <1>4, <1>6, <1>7 DEF NoMissedWakeup, CanAcquire
<1> QED
  BY <1>5, <1>6, <1>7, <1>8, <1>9 DEF Pumped

\* A step that moves no call into or out of the gate leaves its part of the
\* invariant alone.
LEMMA GateAlone ==
  ASSUME LeaseInv, Holders' = Holders,
         \A c \in Holders : lane'[c] = lane[c],
         \A c \in Calls : phase'[c] = "waiting" <=> phase[c] = "waiting",
         \A c \in Calls : phase[c] = "waiting" => lane'[c] = lane[c],
         UNCHANGED <<waiting, activeShared, activeExclusive>>
  PROVE  LeasesAreCounted' /\ NoMissedWakeup' /\ QueueInv'
<1>1. LeasesAreCounted'
  <2>1. {c \in Holders : lane[c] = "shared"}' = {c \in Holders : lane[c] = "shared"}
    OBVIOUS
  <2> QED
    BY <2>1 DEF LeaseInv, LeasesAreCounted
<1>2. NoMissedWakeup'
  <2>1. waiting # << >> => 1 \in 1..Len(waiting) /\ Head(waiting) = waiting[1]
    BY DEF LeaseInv, TypeOK
  <2>2. waiting # << >> => lane'[Head(waiting)] = lane[Head(waiting)]
    BY <2>1, QueueFacts
  <2> QED
    BY <2>2 DEF LeaseInv, NoMissedWakeup, CanAcquire
<1>3. QueueInv'
  BY DEF LeaseInv, QueueInv, Enqueued, Distinct
<1> QED
  BY <1>1, <1>2, <1>3

LEMMA CallStep ==
  ASSUME LeaseInv, NEW c \in Calls, NEW l \in Lanes, Call(c, l)
  PROVE  LeaseInv'
<1> USE DEF Outermost
<1>0. TypeOK /\ phase[c] = "idle" /\ lane' = [lane EXCEPT ![c] = l] /\ UNCHANGED <<lease, tail>>
  BY DEF LeaseInv, Call
<1>1. lease[c] = c /\ c \notin Holders
  BY <1>0 DEF LeaseInv, NestingInv, Holders
<1>2. \A d \in Calls : lease[d] = c => d = c
  BY DEF Call, Inner
<1>3. \A d \in Calls : d # c => lane'[d] = lane[d]
  BY <1>0 DEF TypeOK
<1>4. lane'[c] = l
  BY <1>0 DEF TypeOK
<1>5. /\ phase' \in [Calls -> Phases]
      /\ \A d \in Calls : d # c => phase'[d] = phase[d]
      /\ phase'[c] \in {"admitted", "waiting"}
      /\ waiting' \in Seq(Calls) /\ activeShared' \in Nat /\ activeExclusive' \in {"yes", "no"}
      /\ LeasesAreCounted' /\ NoMissedWakeup' /\ QueueInv'
  <2>1. CASE /\ waiting = << >> /\ CanAcquire(l)
             /\ phase' = [phase EXCEPT ![c] = "admitted"]
             /\ activeExclusive' = IF l = "exclusive" THEN "yes" ELSE activeExclusive
             /\ activeShared' = IF l = "shared" THEN activeShared + 1 ELSE activeShared
             /\ UNCHANGED waiting
    <3>1. /\ phase' \in [Calls -> Phases] /\ phase'[c] = "admitted"
          /\ \A d \in Calls : d # c => phase'[d] = phase[d]
      BY <1>0, <2>1 DEF TypeOK, Phases
    <3>2. Holders' = Holders \cup {c}
      BY <1>0, <1>1, <3>1 DEF Holders
    <3>3. \A d \in Holders : lane[d] = "shared"
      BY <1>0, <2>1 DEF CanAcquire, LeaseInv, LeasesAreCounted, Holders, TypeOK, Lanes
    <3>4. Cardinality(Holders) = activeShared
      <4>1. {d \in Holders : lane[d] = "shared"} = Holders
        BY <3>3
      <4> QED
        BY <4>1 DEF LeaseInv, LeasesAreCounted
    <3>5. LeasesAreCounted'
      <4>1. CASE l = "shared"
        <5>1. {d \in Holders : lane[d] = "shared"}' = Holders \cup {c}
          BY <1>3, <1>4, <3>2, <3>3, <4>1 DEF Holders
        <5>2. Cardinality(Holders \cup {c}) = activeShared + 1
          BY <1>1, <3>4, HoldersFinite, FS_AddElement
        <5>3. ~ \E d \in Holders' : lane'[d] = "exclusive"
          BY <1>3, <1>4, <3>2, <3>3, <4>1 DEF Holders
        <5> QED
          BY <2>1, <4>1, <5>1, <5>2, <5>3 DEF LeasesAreCounted, CanAcquire
      <4>2. CASE l = "exclusive"
        <5>1. Holders = {}
          BY <2>1, <3>4, <4>2, HoldersFinite, FS_EmptySet DEF CanAcquire
        <5>2. Holders' = {c} /\ lane'[c] = "exclusive"
          BY <3>2, <5>1, <4>2, <1>4
        <5>3. {d \in Holders : lane[d] = "shared"}' = {}
          BY <5>2
        <5>4. activeShared' = 0 /\ activeExclusive' = "yes"
          BY <2>1, <4>2 DEF CanAcquire
        <5> QED
          BY <5>2, <5>3, <5>4, FS_EmptySet DEF LeasesAreCounted
      <4> QED
        BY <4>1, <4>2 DEF Lanes
    <3>6. NoMissedWakeup'
      BY <2>1 DEF NoMissedWakeup
    <3>7. QueueInv'
      BY <2>1, <3>1, <1>0 DEF LeaseInv, QueueInv, Enqueued, Distinct
    <3> QED
      BY <1>0, <2>1, <3>1, <3>5, <3>6, <3>7 DEF TypeOK
  <2>2. CASE /\ waiting # << >> \/ ~ CanAcquire(l)
             /\ Pump(lane', [phase EXCEPT ![c] = "waiting"], Append(waiting, c),
                     activeShared, activeExclusive)
    <3>0. /\ waiting' = Append(waiting, c) /\ Distinct(waiting')
          /\ phase' = [phase EXCEPT ![c] = "waiting"]
          /\ UNCHANGED <<activeShared, activeExclusive>>
          /\ NoMissedWakeup'
      BY <1>0, <2>2, PushOnly
    <3>1. /\ phase' \in [Calls -> Phases] /\ phase'[c] = "waiting"
          /\ \A d \in Calls : d # c => phase'[d] = phase[d]
      BY <1>0, <3>0 DEF TypeOK, Phases
    <3>2. Holders' = Holders
      BY <1>0, <1>1, <3>1 DEF Holders
    <3>3. LeasesAreCounted'
      <4>1. \A d \in Holders : lane'[d] = lane[d]
        BY <1>1, <1>3 DEF Holders
      <4>2. {d \in Holders : lane[d] = "shared"}' = {d \in Holders : lane[d] = "shared"}
        BY <3>2, <4>1
      <4> QED
        BY <3>0, <3>2, <4>1, <4>2 DEF LeaseInv, LeasesAreCounted
    <3>4. waiting' \in Seq(Calls)
      BY <1>0, <3>0 DEF TypeOK
    <3>5. ASSUME NEW d \in Calls
          PROVE  Enqueued(waiting', d) <=> Enqueued(waiting, d) \/ d = c
      <4>1. waiting \in Seq(Calls) /\ Len(waiting) \in Nat
        BY <1>0 DEF TypeOK
      <4>2. /\ DOMAIN waiting = 1..Len(waiting)
            /\ DOMAIN waiting' = 1..(Len(waiting) + 1)
            /\ waiting'[Len(waiting) + 1] = c
            /\ \A k \in 1..Len(waiting) : waiting'[k] = waiting[k]
        BY <3>0, <4>1
      <4> QED
        BY <4>1, <4>2 DEF Enqueued
    <3>6. QueueInv'
      BY <3>0, <3>1, <3>5 DEF LeaseInv, QueueInv
    <3> QED
      BY <1>0, <3>0, <3>1, <3>3, <3>4, <3>6 DEF TypeOK
  <2> QED
    BY <2>1, <2>2 DEF Call, Acquire
<1>6. TypeOK'
  <2>1. lane' \in [Calls -> Lanes]
    BY <1>0 DEF TypeOK
  <2> QED
    BY <1>0, <1>5, <2>1 DEF TypeOK, Call
<1>7. NestingInv'
  <2>1. \A d \in Calls : d # c => lease[d] # c /\ lease[d] \in Calls
    BY <1>0, <1>2 DEF TypeOK
  <2> QED
    BY <1>0, <1>1, <1>3, <1>5, <2>1 DEF LeaseInv, NestingInv
<1>8. ChainInv'
  <2>1. ASSUME NEW a \in Calls, NEW k \in DOMAIN tail[a]
        PROVE  tail[a][k] \in Calls /\ tail[a][k] # c
    <3>1. tail[a][k] \in Calls
      BY <1>0 DEF TypeOK
    <3> QED
      BY <1>1, <3>1 DEF LeaseInv, ChainInv, Enqueued
  <2> QED
    BY <1>0, <1>1, <1>3, <1>5, <2>1 DEF LeaseInv, ChainInv, Enqueued
<1> QED
  BY <1>5, <1>6, <1>7, <1>8 DEF LeaseInv

\* Giving a lease back leaves shared holders only, as many as the counter says.
LEMMA Returned ==
  ASSUME LeaseInv, NEW c \in Calls, phase[c] = "ended"
  PROVE  /\ Outermost(c) /\ c \in Holders
         /\ \A d \in Holders \ {c} : lane[d] = "shared"
         /\ Cardinality(Holders \ {c}) =
              IF lane[c] = "shared" /\ activeShared > 0 THEN activeShared - 1 ELSE activeShared
         /\ (IF lane[c] = "exclusive" THEN "no" ELSE activeExclusive) = "no"
<1>0. TypeOK /\ LeasesAreCounted
  BY DEF LeaseInv
<1>1. Outermost(c)
  BY DEF LeaseInv, NestingInv
<1>2. c \in Holders
  BY <1>1 DEF Holders
<1>3. \A d \in Holders : lane[d] \in Lanes
  BY <1>0 DEF TypeOK, Holders
<1>4. CASE lane[c] = "exclusive"
  <2>1. Holders = {c}
    BY <1>0, <1>2, <1>4 DEF LeasesAreCounted
  <2>2. {d \in Holders : lane[d] = "shared"} = {} /\ Holders \ {c} = {}
    BY <2>1, <1>4
  <2>3. activeShared = 0 /\ Cardinality(Holders \ {c}) = 0
    BY <1>0, <2>2, FS_EmptySet DEF LeasesAreCounted
  <2> QED
    BY <1>1, <1>2, <1>4, <2>2, <2>3
<1>5. CASE lane[c] = "shared"
  <2>1. \A d \in Holders : lane[d] = "shared"
    BY <1>0, <1>2, <1>3, <1>5 DEF LeasesAreCounted, Lanes
  <2>2. {d \in Holders : lane[d] = "shared"} = Holders
    BY <2>1
  <2>3. activeShared = Cardinality(Holders) /\ activeShared \in Nat
    BY <1>0, <2>2 DEF LeasesAreCounted, TypeOK
  <2>4. Cardinality(Holders \ {c}) = activeShared - 1
    BY <1>2, <2>3, HoldersFinite, FS_RemoveElement
  <2>5. Cardinality(Holders \ {c}) \in Nat
    BY HoldersFinite, FS_RemoveElement, FS_CardinalityType
  <2>6. activeShared > 0
    BY <2>3, <2>4, <2>5
  <2>7. activeExclusive = "no"
    BY <1>0, <2>1 DEF LeasesAreCounted, TypeOK
  <2> QED
    BY <1>1, <1>2, <1>5, <2>1, <2>4, <2>6, <2>7
<1> QED
  BY <1>2, <1>3, <1>4, <1>5 DEF Lanes

\* The pump of a release: whom it lets in, and what the counters say then.
LEMMA ReleaseStep ==
  ASSUME LeaseInv, NEW c \in Calls, Release(c)
  PROVE  LeaseInv'
<1> DEFINE phases == [phase EXCEPT ![c] = "idle"]
           shared == IF lane[c] = "shared" /\ activeShared > 0 THEN activeShared - 1 ELSE activeShared
           exclusive == IF lane[c] = "exclusive" THEN "no" ELSE activeExclusive
           rest == Holders \ {c}
<1>0. /\ TypeOK /\ phase[c] = "ended" /\ lane' = [lane EXCEPT ![c] = "shared"]
      /\ Pump(lane, phases, waiting, shared, exclusive)
      /\ UNCHANGED <<lease, tail, authorized>>
      /\ made' = IF c \in Agents THEN [made EXCEPT ![c] = 0] ELSE made
  BY DEF LeaseInv, Release
<1>1. /\ Outermost(c) /\ c \in Holders
      /\ \A d \in rest : lane[d] = "shared"
      /\ Cardinality(rest) = shared /\ exclusive = "no"
  BY <1>0, Returned
<1>2. phases \in [Calls -> Phases] /\ shared \in Nat /\ exclusive \in {"yes", "no"}
  BY <1>0 DEF TypeOK, Phases
<1>3. PICK n \in 0..Len(waiting) : Pumped(n, lane, phases, waiting, shared, exclusive)
  <2> HIDE DEF phases, shared, exclusive
  <2>1. Pump(lane, phases, waiting, shared, exclusive)
    BY <1>0
  <2>2. /\ lane \in [Calls -> Lanes] /\ waiting \in Seq(Calls) /\ Distinct(waiting)
        /\ phases \in [Calls -> Phases] /\ shared \in Nat /\ exclusive \in {"yes", "no"}
    BY <1>0, <1>2 DEF TypeOK, LeaseInv, QueueInv
  <2> QED
    BY ONLY <2>1, <2>2, PumpEffect, Zenon
<1> DEFINE new == {waiting[k] : k \in 1..n}
<1> HIDE DEF shared, exclusive
<1>4. \A d \in Calls : phase'[d] = IF d \in new THEN "admitted" ELSE IF d = c THEN "idle" ELSE phase[d]
  <2>1. \A d \in Calls : phases[d] = IF d = c THEN "idle" ELSE phase[d]
    BY <1>0 DEF TypeOK
  <2> HIDE DEF phases
  <2> QED
    BY <1>3, <2>1 DEF Pumped
<1>5. /\ 1..n \subseteq 1..Len(waiting) /\ n \in Nat /\ Len(waiting) \in Nat
      /\ DOMAIN waiting = 1..Len(waiting)
  BY QueueFacts
<1>6. \A d \in new : d \in Calls /\ phase[d] = "waiting" /\ d \notin Holders /\ Outermost(d) /\ d # c
  BY <1>0, <1>5, QueueFacts
<1>7. \A d \in Calls : d # c => lane'[d] = lane[d]
  BY <1>0 DEF TypeOK
<1>8. phase' \in [Calls -> Phases]
  <2>1. phase' = [d \in Calls |-> IF \E k \in 1..n : waiting[k] = d THEN "admitted" ELSE phases[d]]
    BY <1>3 DEF Pumped
  <2> HIDE DEF phases
  <2> QED
    BY <1>2, <2>1 DEF Phases
<1>9. Holders' = rest \cup new
  <2> HIDE DEF new
  <2> QED
    BY <1>0, <1>4, <1>6 DEF Holders, Outermost
<1>10. rest \cap new = {} /\ c \notin Holders'
  BY <1>6, <1>9
<1>11. IsFiniteSet(rest) /\ IsFiniteSet(new) /\ Cardinality(new) = n
  <2>1. IsFiniteSet(rest)
    BY HoldersFinite, FS_RemoveElement
  <2>2. new \subseteq Calls
    BY <1>6
  <2>3. IsFiniteSet(new)
    BY <2>2, FS_Subset, ToolGateConstants
  <2>4. waiting \in Seq(Calls) /\ Distinct(waiting)
    BY <1>0 DEF TypeOK, LeaseInv, QueueInv
  <2> QED
    BY <2>1, <2>3, <2>4, PrefixCount
<1>12. Cardinality(rest \cup new) = shared + n
  <2> HIDE DEF new
  <2>1. Cardinality(rest \cup new) = Cardinality(rest) + Cardinality(new) - Cardinality({})
    BY <1>10, <1>11, FS_Union
  <2> QED
    BY <1>1, <1>2, <1>5, <1>11, <2>1, FS_EmptySet DEF shared
<1>13. ASSUME NEW k \in 1..Len(waiting')
       PROVE  /\ n + k \in 1..Len(waiting) /\ waiting'[k] = waiting[n + k]
              /\ waiting'[k] \in Calls /\ waiting'[k] # c /\ lane'[waiting'[k]] = lane[waiting[n + k]]
  <2>1. n + k \in 1..Len(waiting) /\ waiting'[k] = waiting[n + k]
    BY <1>3, <1>5 DEF Pumped
  <2>2. waiting[n + k] \in Calls /\ phase[waiting[n + k]] = "waiting"
    BY <2>1, QueueFacts
  <2> QED
    BY <1>0, <1>7, <2>1, <2>2
<1>14. /\ waiting' \in Seq(Calls) /\ Len(waiting') \in Nat /\ Len(waiting') = Len(waiting) - n
       /\ DOMAIN waiting' = 1..Len(waiting')
       /\ waiting' # << >> => 1 \in 1..Len(waiting') /\ Head(waiting') = waiting'[1]
       /\ waiting' # << >> => waiting # << >>
  BY <1>3, <1>5 DEF Pumped
<1>15. LeasesAreCounted' /\ NoMissedWakeup' /\ activeShared' \in Nat /\ activeExclusive' \in {"yes", "no"}
  <2>1. CASE /\ n = 0 /\ activeShared' = shared /\ activeExclusive' = exclusive
             /\ waiting # << >> =>
                  exclusive = "yes" \/ (lane[waiting[1]] = "exclusive" /\ shared > 0)
    <3>1. new = {}
      BY <2>1
    <3>2. \A d \in Holders' : lane'[d] = "shared"
      BY <1>1, <1>7, <1>9, <3>1 DEF Holders
    <3>3. {d \in Holders : lane[d] = "shared"}' = rest
      BY <1>9, <3>1, <3>2
    <3>4. LeasesAreCounted'
      BY <1>1, <2>1, <3>2, <3>3 DEF LeasesAreCounted
    <3>5. NoMissedWakeup'
      BY <1>1, <1>13, <1>14, <2>1 DEF NoMissedWakeup, CanAcquire
    <3> QED
      BY <1>1, <1>2, <2>1, <3>4, <3>5
  <2>2. CASE /\ n = 1 /\ exclusive = "no" /\ shared = 0 /\ lane[waiting[1]] = "exclusive"
             /\ activeShared' = shared /\ activeExclusive' = "yes"
    <3>1. new = {waiting[1]}
      BY <2>2
    <3>2. rest = {}
      BY <1>1, <1>11, <2>2, FS_EmptySet
    <3>3. Holders' = {waiting[1]} /\ lane'[waiting[1]] = "exclusive"
      BY <1>6, <1>7, <1>9, <2>2, <3>1, <3>2
    <3>4. {d \in Holders : lane[d] = "shared"}' = {}
      BY <3>3
    <3>5. LeasesAreCounted'
      BY <2>2, <3>3, <3>4, FS_EmptySet DEF LeasesAreCounted
    <3>6. NoMissedWakeup'
      BY <2>2 DEF NoMissedWakeup, CanAcquire
    <3> QED
      BY <1>2, <2>2, <3>5, <3>6
  <2>3. CASE /\ n > 0 /\ exclusive = "no"
             /\ \A k \in 1..n : lane[waiting[k]] = "shared"
             /\ n < Len(waiting) => lane[waiting[n + 1]] = "exclusive"
             /\ activeShared' = shared + n /\ activeExclusive' = "no"
    <3>1. \A d \in new : lane'[d] = "shared"
      BY <1>6, <1>7, <2>3
    <3>2. \A d \in Holders' : lane'[d] = "shared"
      BY <1>1, <1>7, <1>9, <3>1 DEF Holders
    <3>3. {d \in Holders : lane[d] = "shared"}' = rest \cup new
      BY <1>9, <3>2
    <3>4. LeasesAreCounted'
      BY <1>12, <2>3, <3>2, <3>3 DEF LeasesAreCounted
    <3>5. NoMissedWakeup'
      <4>1. waiting' # << >> => lane'[waiting'[1]] = "exclusive"
        BY <1>5, <1>13, <1>14, <2>3
      <4>2. activeShared' > 0
        BY <1>2, <1>5, <2>3
      <4> QED
        BY <1>14, <4>1, <4>2 DEF NoMissedWakeup, CanAcquire
    <3>6. shared + n \in Nat
      BY <1>2, <1>5
    <3> QED
      BY <2>3, <3>4, <3>5, <3>6
  <2> QED
    BY <1>3, <2>1, <2>2, <2>3 DEF Pumped
<1>16. TypeOK'
  <2>1. lane' \in [Calls -> Lanes]
    BY <1>0 DEF TypeOK, Lanes
  <2>2. made' \in [Agents -> 0..MaxInner]
    BY <1>0, ToolGateConstants DEF TypeOK
  <2> QED
    BY <1>0, <1>8, <1>14, <1>15, <2>1, <2>2 DEF TypeOK
<1>17. QueueInv'
  <2>1. Distinct(waiting')
    BY <1>3 DEF Pumped
  <2>2. ASSUME NEW d \in Calls
        PROVE  Enqueued(waiting', d) <=> phase'[d] = "waiting"
    <3>1. Enqueued(waiting, d) <=> phase[d] = "waiting"
      BY DEF LeaseInv, QueueInv
    <3>2. ASSUME Enqueued(waiting', d) PROVE phase'[d] = "waiting"
      <4>1. PICK k \in 1..Len(waiting') : waiting'[k] = d
        BY <1>14, <3>2 DEF Enqueued
      <4>2. n + k \in 1..Len(waiting) /\ waiting[n + k] = d /\ d # c
        BY <1>13, <4>1
      <4>3. phase[d] = "waiting"
        BY <4>2, QueueFacts
      <4>4. d \notin new
        <5>1. ASSUME NEW j \in 1..n, waiting[j] = d PROVE FALSE
          <6>1. j = n + k
            BY <1>5, <4>2, <5>1 DEF LeaseInv, QueueInv, Distinct
          <6> QED
            BY <1>5, <6>1
        <5> QED
          BY <5>1
      <4> QED
        BY <1>4, <4>2, <4>3, <4>4
    <3>3. ASSUME phase'[d] = "waiting" PROVE Enqueued(waiting', d)
      <4>1. d \notin new /\ phase[d] = "waiting"
        BY <1>4, <3>3
      <4>2. PICK j \in 1..Len(waiting) : waiting[j] = d
        BY <1>5, <3>1, <4>1 DEF Enqueued
      <4>3. j \notin 1..n
        BY <4>1, <4>2
      <4>4. j - n \in 1..Len(waiting') /\ n + (j - n) = j
        BY <1>5, <1>14, <4>2, <4>3
      <4>5. waiting'[j - n] = d
        BY <1>13, <4>2, <4>4
      <4> QED
        BY <1>14, <4>4, <4>5 DEF Enqueued
    <3> QED
      BY <3>2, <3>3
  <2> QED
    BY <2>1, <2>2 DEF QueueInv
<1>18. ASSUME NEW d \in Calls, phase[d] \notin {"ended", "waiting"}
       PROVE  phase'[d] = phase[d] /\ d # c
  BY <1>0, <1>4, <1>6, <1>18
<1>19. NestingInv'
  <2>1. ASSUME NEW d \in Calls, ~ Outermost(d)
        PROVE  /\ phase'[d] \in {"queued", "admitted", "cleared", "running"}
               /\ phase'[lease[d]] \in {"running", "ended", "idle"}
               /\ phase'[lease[d]] = "running" /\ lane'[d] = "exclusive" =>
                    lane'[lease[d]] = "exclusive"
    <3>1. /\ phase[d] \in {"queued", "admitted", "cleared", "running"}
          /\ phase[lease[d]] \in {"running", "ended", "idle"}
          /\ phase[lease[d]] = "running" /\ lane[d] = "exclusive" =>
               lane[lease[d]] = "exclusive"
          /\ lease[d] \in Calls
      BY <1>0, <2>1 DEF LeaseInv, NestingInv, TypeOK
    <3>2. /\ phase'[lease[d]] \in {"running", "ended", "idle"}
          /\ phase'[lease[d]] = "running" => phase[lease[d]] = "running" /\ lease[d] # c
      BY <1>0, <1>4, <1>6, <3>1
    <3> QED
      BY <1>1, <1>7, <1>18, <2>1, <3>1, <3>2
  <2>2. ASSUME NEW d \in Calls, Outermost(d) PROVE phase'[d] # "queued"
    BY <1>4, <2>2 DEF LeaseInv, NestingInv
  <2> QED
    BY <1>0, <2>1, <2>2 DEF LeaseInv, NestingInv, Outermost
<1>20. ChainInv'
  <2>1. ASSUME NEW a \in Calls, NEW k \in DOMAIN tail[a], k > 1
        PROVE  phase'[tail[a][k]] = "queued"
    <3>1. tail[a][k] \in Calls /\ phase[tail[a][k]] = "queued"
      BY <1>0, <2>1 DEF TypeOK, LeaseInv, ChainInv
    <3> QED
      BY <1>18, <3>1
  <2>2. ASSUME NEW a \in Calls, NEW d \in Calls
        PROVE  Enqueued(tail[a], d) <=> d # a /\ lease[d] = a /\ lane'[d] = "exclusive"
    <3>1. Enqueued(tail[a], d) <=> d # a /\ lease[d] = a /\ lane[d] = "exclusive"
      BY DEF LeaseInv, ChainInv
    <3> QED
      BY <1>1, <1>7, <3>1 DEF Outermost
  <2> QED
    BY <1>0, <2>1, <2>2 DEF LeaseInv, ChainInv
<1> QED
  BY <1>15, <1>16, <1>17, <1>19, <1>20 DEF LeaseInv

\* What a sub-agent's calls know of it.
LEMMA LeaseFacts ==
  ASSUME LeaseInv, NEW c \in Calls
  PROVE  /\ lease[c] \in Calls /\ Outermost(lease[c])
         /\ c \in Agents => Outermost(c)
         /\ phase[c] \in {"idle", "waiting", "ended"} => Outermost(c)
<1>1. lease[c] \in Calls
  BY DEF LeaseInv, TypeOK
<1> QED
  BY <1>1 DEF LeaseInv, NestingInv, Outermost

\* What an append does to a sequence that does not hold the call yet.
LEMMA Appended ==
  ASSUME NEW s \in Seq(Calls), NEW c \in Calls, Distinct(s), ~ Enqueued(s, c)
  PROVE  /\ Append(s, c) \in Seq(Calls) /\ Distinct(Append(s, c))
         /\ \A d \in Calls : Enqueued(Append(s, c), d) <=> Enqueued(s, d) \/ d = c
         /\ \A k \in DOMAIN Append(s, c) :
              \/ Append(s, c)[k] = c
              \/ k \in DOMAIN s /\ Append(s, c)[k] = s[k]
<1> DEFINE t == Append(s, c)
<1>1. /\ t \in Seq(Calls) /\ Len(s) \in Nat
      /\ DOMAIN s = 1..Len(s) /\ DOMAIN t = 1..(Len(s) + 1)
      /\ t[Len(s) + 1] = c /\ \A k \in 1..Len(s) : t[k] = s[k]
  OBVIOUS
<1> HIDE DEF t
<1>2. \A k \in DOMAIN t : k = Len(s) + 1 \/ k \in DOMAIN s
  BY <1>1
<1>3. Len(s) + 1 \in DOMAIN t /\ \A k \in DOMAIN s : k \in DOMAIN t
  BY <1>1
<1>4. Distinct(t)
  BY <1>1, <1>2 DEF Distinct, Enqueued
<1>5. ASSUME NEW d \in Calls PROVE Enqueued(t, d) <=> Enqueued(s, d) \/ d = c
  BY <1>1, <1>2, <1>3 DEF Enqueued
<1> QED
  BY <1>1, <1>2, <1>4, <1>5 DEF t

LEMMA CallInnerStep ==
  ASSUME LeaseInv, NEW c \in Calls, NEW a \in Calls, NEW l \in Lanes, CallInner(c, a, l)
  PROVE  LeaseInv'
<1> USE DEF Outermost
<1>0. /\ TypeOK /\ phase[c] = "idle" /\ c \notin Agents
      /\ a \in Agents /\ phase[a] = "running" /\ a # c
      /\ l = "exclusive" => lane[a] = "exclusive"
      /\ lane' = [lane EXCEPT ![c] = l] /\ lease' = [lease EXCEPT ![c] = a]
      /\ UNCHANGED <<waiting, activeShared, activeExclusive, authorized>>
  BY DEF LeaseInv, CallInner
<1>1. /\ lease[c] = c /\ lease[a] = a
      /\ \A d \in Calls : d # c => lease[d] # c
  BY <1>0, LeaseFacts DEF CallInner, Inner
<1>2. /\ \A d \in Calls : d # c => lane'[d] = lane[d] /\ lease'[d] = lease[d]
      /\ lane'[c] = l /\ lease'[c] = a
  BY <1>0 DEF TypeOK
<1>3. /\ phase' \in [Calls -> Phases] /\ tail' \in [Calls -> Seq(Calls)]
      /\ \A d \in Calls : d # c => phase'[d] = phase[d]
      /\ \/ l = "shared" /\ phase'[c] = "admitted" /\ tail' = tail
         \/ l = "exclusive" /\ phase'[c] = "queued" /\ tail' = [tail EXCEPT ![a] = Append(@, c)]
  <2>1. Append(tail[a], c) \in Seq(Calls)
    BY <1>0 DEF TypeOK
  <2>2. CASE l = "shared" /\ phase' = [phase EXCEPT ![c] = "admitted"] /\ UNCHANGED tail
    BY <1>0, <2>2 DEF TypeOK, Phases
  <2>3. CASE /\ l = "exclusive" /\ phase' = [phase EXCEPT ![c] = "queued"]
             /\ tail' = [tail EXCEPT ![a] = Append(@, c)]
    <3>1. tail' \in [Calls -> Seq(Calls)]
      BY <1>0, <2>1, <2>3 DEF TypeOK
    <3>2. phase' \in [Calls -> Phases] /\ phase'[c] = "queued"
          /\ \A d \in Calls : d # c => phase'[d] = phase[d]
      BY <1>0, <2>3 DEF TypeOK, Phases
    <3> QED
      BY <2>3, <3>1, <3>2
  <2> QED
    BY <2>2, <2>3 DEF CallInner
<1>4. made' \in [Agents -> 0..MaxInner]
  <2>1. made[a] + 1 \in 0..MaxInner
    BY <1>0, ToolGateConstants DEF CallInner, TypeOK
  <2> QED
    BY <1>0, <2>1 DEF CallInner, TypeOK
<1>5. TypeOK'
  <2>1. lane' \in [Calls -> Lanes] /\ lease' \in [Calls -> Calls]
    BY <1>0 DEF TypeOK
  <2> QED
    BY <1>0, <1>3, <1>4, <2>1 DEF TypeOK
<1>6. LeasesAreCounted' /\ NoMissedWakeup' /\ QueueInv'
  <2>1. Holders' = Holders /\ c \notin Holders
    BY <1>0, <1>2, <1>3 DEF Holders
  <2>2. \A d \in Holders : lane'[d] = lane[d]
    BY <1>2, <2>1 DEF Holders
  <2>3. \A d \in Calls : phase'[d] = "waiting" <=> phase[d] = "waiting"
    BY <1>0, <1>3
  <2>4. \A d \in Calls : phase[d] = "waiting" => lane'[d] = lane[d]
    BY <1>0, <1>2
  <2> QED
    BY <1>0, <2>1, <2>2, <2>3, <2>4, GateAlone
<1>7. NestingInv'
  <2>1. ASSUME NEW d \in Calls, d # c
        PROVE  lease'[d] = lease[d] /\ lease[d] \in Calls \ {c}
    BY <1>0, <1>1, <1>2, <2>1 DEF TypeOK
  <2>2. ASSUME NEW d \in Calls, d # c
        PROVE  /\ lane'[d] = lane[d] /\ lane'[lease[d]] = lane[lease[d]]
               /\ phase'[d] = phase[d] /\ phase'[lease[d]] = phase[lease[d]]
    BY <1>2, <1>3, <2>1, <2>2
  <2>3. ASSUME NEW d \in Calls, d # c
        PROVE  /\ lease'[d] = d => phase'[d] # "queued"
               /\ lease'[d] # d =>
                    /\ phase'[d] \in {"queued", "admitted", "cleared", "running"}
                    /\ d \notin Agents /\ lease'[d] \in Agents
                    /\ phase'[lease'[d]] \in {"running", "ended", "idle"}
                    /\ phase'[lease'[d]] = "running" /\ lane'[d] = "exclusive" =>
                         lane'[lease'[d]] = "exclusive"
    BY <2>1, <2>2, <2>3 DEF LeaseInv, NestingInv
  <2>4. /\ phase'[c] \in {"queued", "admitted"} /\ lease'[c] = a /\ phase'[a] = "running"
        /\ lane'[c] = "exclusive" => lane'[a] = "exclusive"
    BY <1>0, <1>2, <1>3
  <2> QED
    BY <1>0, <2>3, <2>4 DEF NestingInv
<1>8. ChainInv'
  <2>1. ASSUME NEW b \in Calls
        PROVE  /\ tail[b] \in Seq(Calls) /\ Len(tail[b]) \in Nat
               /\ DOMAIN tail[b] = 1..Len(tail[b])
               /\ \A k \in DOMAIN tail[b] : tail[b][k] \in Calls /\ tail[b][k] # c
    <3>1. tail[b] \in Seq(Calls)
      BY <1>0 DEF TypeOK
    <3>2. ~ Enqueued(tail[b], c)
      BY <1>1 DEF LeaseInv, ChainInv
    <3> QED
      BY <3>1, <3>2 DEF Enqueued
  <2>2. ASSUME NEW b \in Calls, tail'[b] = tail[b], b # a \/ l = "shared"
        PROVE  /\ Distinct(tail'[b])
               /\ \A d \in Calls :
                    Enqueued(tail'[b], d) <=> d # b /\ lease'[d] = b /\ lane'[d] = "exclusive"
               /\ \A k \in DOMAIN tail'[b] : k > 1 => phase'[tail'[b][k]] = "queued"
    <3>1. /\ Distinct(tail'[b])
          /\ \A k \in DOMAIN tail'[b] : k > 1 => phase'[tail'[b][k]] = "queued"
      <4>1. Distinct(tail'[b])
        BY <2>2 DEF LeaseInv, ChainInv
      <4>2. ASSUME NEW k \in DOMAIN tail[b], k > 1 PROVE phase'[tail[b][k]] = "queued"
        <5>1. tail[b][k] \in Calls /\ tail[b][k] # c /\ phase[tail[b][k]] = "queued"
          BY <2>1, <4>2 DEF LeaseInv, ChainInv
        <5> QED
          BY <1>3, <5>1
      <4> QED
        BY <2>2, <4>1, <4>2
    <3>2. ASSUME NEW d \in Calls
          PROVE  Enqueued(tail'[b], d) <=> d # b /\ lease'[d] = b /\ lane'[d] = "exclusive"
      <4>1. Enqueued(tail[b], d) <=> d # b /\ lease[d] = b /\ lane[d] = "exclusive"
        BY DEF LeaseInv, ChainInv
      <4>2. d = c => ~ Enqueued(tail[b], d)
        BY <2>1 DEF Enqueued
      <4> QED
        BY <1>2, <2>2, <4>1, <4>2
    <3> QED
      BY <3>1, <3>2
  <2>3. ASSUME l = "exclusive", tail'[a] = Append(tail[a], c), phase'[c] = "queued"
        PROVE  /\ Distinct(tail'[a])
               /\ \A d \in Calls :
                    Enqueued(tail'[a], d) <=> d # a /\ lease'[d] = a /\ lane'[d] = "exclusive"
               /\ \A k \in DOMAIN tail'[a] : k > 1 => phase'[tail'[a][k]] = "queued"
    <3>1. tail[a] \in Seq(Calls) /\ Distinct(tail[a]) /\ ~ Enqueued(tail[a], c)
      BY <2>1 DEF LeaseInv, ChainInv, Enqueued
    <3>2. /\ Distinct(tail'[a])
          /\ \A d \in Calls : Enqueued(tail'[a], d) <=> Enqueued(tail[a], d) \/ d = c
          /\ \A k \in DOMAIN tail'[a] :
               \/ tail'[a][k] = c
               \/ k \in DOMAIN tail[a] /\ tail'[a][k] = tail[a][k]
      <4>1. tail'[a] = Append(tail[a], c)
        BY <2>3
      <4>2. c \in Calls
        OBVIOUS
      <4> DEFINE t == Append(tail[a], c)
      <4>3. /\ Distinct(t)
            /\ \A d \in Calls : Enqueued(t, d) <=> Enqueued(tail[a], d) \/ d = c
            /\ \A k \in DOMAIN t : t[k] = c \/ (k \in DOMAIN tail[a] /\ t[k] = tail[a][k])
        BY <3>1, <4>2, Appended
      <4>4. tail'[a] = t
        BY <4>1
      <4> HIDE DEF t
      <4> QED
        BY <4>3, <4>4
    <3>3. ASSUME NEW k \in DOMAIN tail'[a], k > 1
          PROVE  phase'[tail'[a][k]] = "queued"
      <4>1. CASE tail'[a][k] = c
        BY <2>3, <4>1
      <4>2. CASE k \in DOMAIN tail[a] /\ tail'[a][k] = tail[a][k]
        <5>1. tail[a][k] \in Calls /\ tail[a][k] # c /\ phase[tail[a][k]] = "queued"
          BY <2>1, <3>3, <4>2 DEF LeaseInv, ChainInv
        <5> QED
          BY <1>3, <4>2, <5>1
      <4> QED
        BY <3>2, <4>1, <4>2
    <3>4. ASSUME NEW d \in Calls
          PROVE  Enqueued(tail'[a], d) <=> d # a /\ lease'[d] = a /\ lane'[d] = "exclusive"
      <4>1. Enqueued(tail[a], d) <=> d # a /\ lease[d] = a /\ lane[d] = "exclusive"
        BY DEF LeaseInv, ChainInv
      <4> QED
        BY <1>0, <1>2, <2>3, <3>2, <4>1
    <3> QED
      BY <3>2, <3>3, <3>4
  <2>4. ASSUME NEW b \in Calls
        PROVE  /\ Distinct(tail'[b])
               /\ \A d \in Calls :
                    Enqueued(tail'[b], d) <=> d # b /\ lease'[d] = b /\ lane'[d] = "exclusive"
               /\ \A k \in DOMAIN tail'[b] : k > 1 => phase'[tail'[b][k]] = "queued"
    <3>1. CASE l = "shared"
      BY <1>3, <2>2, <3>1
    <3>2. CASE l = "exclusive" /\ b # a
      <4>1. tail'[b] = tail[b]
        BY <1>0, <1>3, <3>2 DEF TypeOK
      <4> QED
        BY <2>2, <3>2, <4>1
    <3>3. CASE l = "exclusive" /\ b = a
      <4>1. tail'[a] = Append(tail[a], c) /\ phase'[c] = "queued"
        BY <1>0, <1>3, <3>3 DEF TypeOK
      <4> QED
        BY <2>3, <3>3, <4>1
    <3> QED
      BY <3>1, <3>2, <3>3 DEF Lanes
  <2> QED
    BY <2>4 DEF ChainInv
<1> QED
  BY <1>5, <1>6, <1>7, <1>8 DEF LeaseInv

\* A call that holds its lease, or has its turn in the chain, goes on.
LEMMA Onward ==
  ASSUME LeaseInv, NEW c \in Calls, NEW p \in Phases,
         phase[c] \in {"queued", "admitted", "cleared"}, p \in {"admitted", "cleared", "running"},
         phase[c] = "queued" => Head(tail[lease[c]]) = c,
         p = "running" => phase[c] = "cleared",
         phase' = [phase EXCEPT ![c] = p],
         UNCHANGED <<lane, lease, waiting, activeShared, activeExclusive, tail, made, authorized>>
  PROVE  LeaseInv'
<1> USE DEF Outermost
<1>0. TypeOK
  BY DEF LeaseInv
<1>1. phase'[c] = p /\ \A d \in Calls : d # c => phase'[d] = phase[d]
  BY <1>0 DEF TypeOK
<1>2. TypeOK'
  BY <1>0 DEF TypeOK
<1>3. LeasesAreCounted' /\ NoMissedWakeup' /\ QueueInv'
  <2>1. phase[c] = "queued" => c \notin Holders /\ ~ Outermost(c)
    BY DEF LeaseInv, NestingInv, Holders
  <2>2. Holders' = Holders
    BY <1>1, <2>1 DEF Holders
  <2>3. \A d \in Calls : phase'[d] = "waiting" <=> phase[d] = "waiting"
    BY <1>1
  <2> QED
    BY <2>2, <2>3, GateAlone
<1>4. NestingInv'
  <2>1. \A d \in Calls : lease[d] # d => lease[d] # c /\ lease[d] \in Calls
    BY <1>0 DEF LeaseInv, NestingInv, TypeOK
  <2> QED
    BY <1>1, <2>1 DEF LeaseInv, NestingInv
<1>5. ChainInv'
  <2>1. ASSUME NEW a \in Calls, NEW k \in DOMAIN tail[a], k > 1
        PROVE  phase'[tail[a][k]] = "queued"
    <3>1. /\ tail[a] \in Seq(Calls) /\ tail[a][k] \in Calls
          /\ phase[tail[a][k]] = "queued"
      BY <1>0, <2>1 DEF TypeOK, LeaseInv, ChainInv
    <3>2. ASSUME tail[a][k] = c PROVE FALSE
      <4>1. lease[c] = a
        BY <3>2 DEF LeaseInv, ChainInv, Enqueued
      <4>2. 1 \in DOMAIN tail[a] /\ Head(tail[a]) = tail[a][1]
        BY <2>1, <3>1
      <4>3. tail[a][1] = c
        BY <3>1, <3>2, <4>1, <4>2
      <4> QED
        BY <2>1, <3>2, <4>2, <4>3 DEF LeaseInv, ChainInv, Distinct
    <3> QED
      BY <1>1, <3>1, <3>2
  <2> QED
    BY <2>1 DEF LeaseInv, ChainInv
<1> QED
  BY <1>2, <1>3, <1>4, <1>5 DEF LeaseInv

\* What is left of a chain whose first call is gone.
LEMMA Shortened ==
  ASSUME NEW s \in Seq(Calls), Distinct(s), s # << >>
  PROVE  /\ Tail(s) \in Seq(Calls) /\ Distinct(Tail(s)) /\ 1 \in DOMAIN s
         /\ \A d \in Calls : Enqueued(Tail(s), d) <=> Enqueued(s, d) /\ d # s[1]
         /\ \A k \in DOMAIN Tail(s) :
              k + 1 \in DOMAIN s /\ k + 1 > 1 /\ Tail(s)[k] = s[k + 1]
<1> DEFINE t == Tail(s)
<1>1. /\ t \in Seq(Calls) /\ Len(s) \in Nat \ {0}
      /\ DOMAIN s = 1..Len(s) /\ DOMAIN t = 1..(Len(s) - 1)
      /\ \A k \in 1..(Len(s) - 1) : t[k] = s[k + 1]
  OBVIOUS
<1> HIDE DEF t
<1>2. \A k \in DOMAIN t : k + 1 \in DOMAIN s /\ k + 1 > 1 /\ t[k] = s[k + 1]
  BY <1>1
<1>3. \A k \in DOMAIN s : k # 1 => k - 1 \in DOMAIN t /\ (k - 1) + 1 = k
  BY <1>1
<1>4. 1 \in DOMAIN s
  BY <1>1
<1>5. Distinct(t)
  <2>1. ASSUME NEW j \in DOMAIN t, NEW k \in DOMAIN t, t[j] = t[k] PROVE j = k
    <3>1. j + 1 = k + 1
      BY <1>2, <2>1 DEF Distinct
    <3> QED
      BY <1>1, <3>1
  <2> QED
    BY <2>1 DEF Distinct
<1>6. ASSUME NEW d \in Calls PROVE Enqueued(t, d) <=> Enqueued(s, d) /\ d # s[1]
  <2>1. ASSUME Enqueued(t, d) PROVE Enqueued(s, d) /\ d # s[1]
    <3>1. PICK k \in DOMAIN t : t[k] = d
      BY <2>1 DEF Enqueued
    <3>2. k + 1 \in DOMAIN s /\ s[k + 1] = d /\ k + 1 # 1
      BY <1>1, <1>2, <3>1
    <3> QED
      BY <1>4, <3>2 DEF Enqueued, Distinct
  <2>2. ASSUME Enqueued(s, d), d # s[1] PROVE Enqueued(t, d)
    <3>1. PICK k \in DOMAIN s : s[k] = d
      BY <2>2 DEF Enqueued
    <3>2. k - 1 \in DOMAIN t /\ t[k - 1] = d
      BY <1>2, <1>3, <2>2, <3>1
    <3> QED
      BY <3>2 DEF Enqueued
  <2> QED
    BY <2>1, <2>2
<1> QED
  BY <1>1, <1>2, <1>4, <1>5, <1>6 DEF t

LEMMA SettleStep ==
  ASSUME LeaseInv, NEW c \in Calls, phase[c] \in {"admitted", "cleared", "running"}, Settle(c)
  PROVE  LeaseInv'
<1> USE DEF Outermost
<1>0. TypeOK /\ UNCHANGED <<waiting, activeShared, activeExclusive, made, authorized>>
  BY DEF LeaseInv, Settle
<1>1. CASE lease[c] = c
  <2>0. phase' = [phase EXCEPT ![c] = "ended"] /\ UNCHANGED <<lane, lease, tail>>
    BY <1>1 DEF Settle
  <2>1. phase'[c] = "ended" /\ \A d \in Calls : d # c => phase'[d] = phase[d]
    BY <1>0, <2>0 DEF TypeOK
  <2>2. TypeOK'
    BY <1>0, <2>0 DEF TypeOK, Phases
  <2>3. LeasesAreCounted' /\ NoMissedWakeup' /\ QueueInv'
    <3>1. Holders' = Holders
      BY <1>1, <2>0, <2>1 DEF Holders
    <3>2. \A d \in Calls : phase'[d] = "waiting" <=> phase[d] = "waiting"
      BY <2>1
    <3> QED
      BY <1>0, <2>0, <3>1, <3>2, GateAlone
  <2>4. NestingInv'
    <3>1. \A d \in Calls : lease[d] \in Calls
      BY <1>0 DEF TypeOK
    <3> QED
      BY <1>1, <2>0, <2>1, <3>1 DEF LeaseInv, NestingInv
  <2>5. ChainInv'
    <3>1. \A a \in Calls : \A k \in DOMAIN tail[a] : tail[a][k] \in Calls
      BY <1>0 DEF TypeOK
    <3> QED
      BY <2>0, <2>1, <3>1 DEF LeaseInv, ChainInv
  <2> QED
    BY <2>2, <2>3, <2>4, <2>5 DEF LeaseInv
<1>2. CASE lease[c] # c
  <2>0. /\ phase' = [phase EXCEPT ![c] = "idle"]
        /\ lane' = [lane EXCEPT ![c] = "shared"]
        /\ lease' = [lease EXCEPT ![c] = c]
        /\ tail' = IF lane[c] = "exclusive" THEN [tail EXCEPT ![lease[c]] = Tail(@)] ELSE tail
    BY <1>2 DEF Settle
  <2>1. /\ phase'[c] = "idle" /\ lane'[c] = "shared" /\ lease'[c] = c
        /\ \A d \in Calls : d # c =>
             phase'[d] = phase[d] /\ lane'[d] = lane[d] /\ lease'[d] = lease[d]
    BY <1>0, <2>0 DEF TypeOK
  <2>2. c \notin Agents /\ lease[c] \in Calls
    BY <1>0, <1>2 DEF LeaseInv, NestingInv, TypeOK
  <2>3. \A a \in Calls : \A k \in DOMAIN tail[a] : tail[a][k] \in Calls
    BY <1>0 DEF TypeOK
  <2>4. ASSUME NEW a \in Calls, NEW k \in DOMAIN tail[a], k > 1
        PROVE  phase[tail[a][k]] = "queued" /\ tail[a][k] # c
    BY <2>4 DEF LeaseInv, ChainInv
  <2>5. ASSUME lane[c] = "exclusive"
        PROVE  LET s == tail[lease[c]]
               IN  s \in Seq(Calls) /\ Distinct(s) /\ s # << >> /\ s[1] = c
    <3> DEFINE s == tail[lease[c]]
    <3>1. s \in Seq(Calls) /\ Distinct(s) /\ Enqueued(s, c)
      BY <1>0, <1>2, <2>2, <2>5 DEF TypeOK, LeaseInv, ChainInv
    <3>2. PICK k \in DOMAIN s : s[k] = c
      BY <3>1 DEF Enqueued
    <3>3. k = 1 /\ s # << >>
      BY <2>2, <2>4, <3>1, <3>2
    <3> QED
      BY <3>1, <3>2, <3>3
  <2>6. TypeOK'
    <3>1. /\ phase' \in [Calls -> Phases] /\ lane' \in [Calls -> Lanes]
          /\ lease' \in [Calls -> Calls]
      BY <1>0, <2>0 DEF TypeOK, Phases, Lanes
    <3>2. tail' \in [Calls -> Seq(Calls)]
      <4>1. CASE lane[c] = "exclusive"
        <5>1. Tail(tail[lease[c]]) \in Seq(Calls)
          BY <2>5, <4>1, Shortened
        <5> QED
          BY <1>0, <2>0, <2>2, <4>1, <5>1 DEF TypeOK
      <4>2. CASE lane[c] # "exclusive"
        BY <1>0, <2>0, <4>2 DEF TypeOK
      <4> QED
        BY <4>1, <4>2
    <3> QED
      BY <1>0, <3>1, <3>2 DEF TypeOK
  <2>7. LeasesAreCounted' /\ NoMissedWakeup' /\ QueueInv'
    <3>1. Holders' = Holders /\ c \notin Holders
      BY <1>2, <2>1 DEF Holders
    <3>2. \A d \in Calls : phase'[d] = "waiting" <=> phase[d] = "waiting"
      BY <2>1
    <3>3. \A d \in Holders : lane'[d] = lane[d]
      BY <2>1, <3>1 DEF Holders
    <3>4. \A d \in Calls : phase[d] = "waiting" => lane'[d] = lane[d]
      BY <2>1
    <3> QED
      BY <1>0, <3>1, <3>2, <3>3, <3>4, GateAlone
  <2>8. NestingInv'
    <3>1. ASSUME NEW d \in Calls, d # c
          PROVE  lease'[d] = lease[d] /\ lease[d] \in Calls \ {c}
      <4>1. lease[d] # d => lease[d] \in Agents
        BY DEF LeaseInv, NestingInv
      <4>2. lease[d] \in Calls
        BY <1>0 DEF TypeOK
      <4> QED
        BY <2>1, <2>2, <3>1, <4>1, <4>2
    <3>2. ASSUME NEW d \in Calls, d # c
          PROVE  /\ lane'[d] = lane[d] /\ lane'[lease[d]] = lane[lease[d]]
                 /\ phase'[d] = phase[d] /\ phase'[lease[d]] = phase[lease[d]]
      BY <2>1, <3>1, <3>2
    <3>3. ASSUME NEW d \in Calls, d # c
          PROVE  /\ lease'[d] = d => phase'[d] # "queued"
                 /\ lease'[d] # d =>
                      /\ phase'[d] \in {"queued", "admitted", "cleared", "running"}
                      /\ d \notin Agents /\ lease'[d] \in Agents
                      /\ phase'[lease'[d]] \in {"running", "ended", "idle"}
                      /\ phase'[lease'[d]] = "running" /\ lane'[d] = "exclusive" =>
                           lane'[lease'[d]] = "exclusive"
      BY <3>1, <3>2, <3>3 DEF LeaseInv, NestingInv
    <3> QED
      BY <2>1, <3>3 DEF NestingInv
  <2>9. ChainInv'
    <3>1. ASSUME NEW a \in Calls, tail'[a] = tail[a], lane[c] # "exclusive" \/ a # lease[c]
          PROVE  /\ Distinct(tail'[a])
                 /\ \A d \in Calls :
                      Enqueued(tail'[a], d) <=> d # a /\ lease'[d] = a /\ lane'[d] = "exclusive"
                 /\ \A k \in DOMAIN tail'[a] : k > 1 => phase'[tail'[a][k]] = "queued"
      <4>1. /\ Distinct(tail'[a])
            /\ \A k \in DOMAIN tail'[a] : k > 1 => phase'[tail'[a][k]] = "queued"
        BY <2>1, <2>3, <2>4, <3>1 DEF LeaseInv, ChainInv
      <4>2. ASSUME NEW d \in Calls
            PROVE  Enqueued(tail'[a], d) <=> d # a /\ lease'[d] = a /\ lane'[d] = "exclusive"
        <5>1. Enqueued(tail[a], d) <=> d # a /\ lease[d] = a /\ lane[d] = "exclusive"
          BY DEF LeaseInv, ChainInv
        <5> QED
          BY <2>1, <3>1, <5>1
      <4> QED
        BY <4>1, <4>2
    <3>2. ASSUME NEW a \in Calls, a = lease[c], lane[c] = "exclusive", tail'[a] = Tail(tail[a])
          PROVE  /\ Distinct(tail'[a])
                 /\ \A d \in Calls :
                      Enqueued(tail'[a], d) <=> d # a /\ lease'[d] = a /\ lane'[d] = "exclusive"
                 /\ \A k \in DOMAIN tail'[a] : k > 1 => phase'[tail'[a][k]] = "queued"
      <4> DEFINE s == tail[a]
                 t == Tail(s)
      <4>1. s \in Seq(Calls) /\ Distinct(s) /\ s # << >> /\ s[1] = c
        BY <2>5, <3>2
      <4>2. /\ Distinct(t)
            /\ \A d \in Calls : Enqueued(t, d) <=> Enqueued(s, d) /\ d # s[1]
            /\ \A k \in DOMAIN t : k + 1 \in DOMAIN s /\ k + 1 > 1 /\ t[k] = s[k + 1]
        <5> HIDE DEF s
        <5> QED
          BY <4>1, Shortened
      <4>3. tail'[a] = t
        BY <3>2
      <4> HIDE DEF t
      <4>4. ASSUME NEW k \in DOMAIN t PROVE phase'[t[k]] = "queued"
        BY <2>1, <2>3, <2>4, <4>2
      <4>5. ASSUME NEW d \in Calls
            PROVE  Enqueued(t, d) <=> d # a /\ lease'[d] = a /\ lane'[d] = "exclusive"
        <5>1. Enqueued(s, d) <=> d # a /\ lease[d] = a /\ lane[d] = "exclusive"
          BY DEF LeaseInv, ChainInv
        <5> HIDE DEF s
        <5> QED
          BY <2>1, <4>1, <4>2, <5>1
      <4> QED
        BY <4>2, <4>3, <4>4, <4>5
    <3>3. ASSUME NEW a \in Calls
          PROVE  \/ tail'[a] = tail[a] /\ (lane[c] # "exclusive" \/ a # lease[c])
                 \/ a = lease[c] /\ lane[c] = "exclusive" /\ tail'[a] = Tail(tail[a])
      BY <1>0, <2>0 DEF TypeOK
    <3> QED
      BY <3>1, <3>2, <3>3 DEF ChainInv
  <2> QED
    BY <2>6, <2>7, <2>8, <2>9 DEF LeaseInv
<1> QED
  BY <1>1, <1>2

LEMMA RevokeStep == LeaseInv /\ (Revoke \/ UNCHANGED vars) => LeaseInv'
<1> SUFFICES ASSUME LeaseInv, Revoke \/ UNCHANGED vars PROVE LeaseInv'
  OBVIOUS
<1>1. /\ UNCHANGED <<phase, lane, lease, waiting, activeShared, activeExclusive, tail, made>>
      /\ authorized' \in BOOLEAN
  BY DEF Revoke, vars, LeaseInv, TypeOK
<1>2. TypeOK'
  BY <1>1 DEF LeaseInv, TypeOK
<1>3. LeasesAreCounted' /\ NoMissedWakeup' /\ QueueInv'
  <2>1. Holders' = Holders
    BY <1>1 DEF Holders, Outermost
  <2> QED
    BY <1>1, <2>1, GateAlone
<1>4. NestingInv' /\ ChainInv'
  BY <1>1 DEF LeaseInv, NestingInv, ChainInv, Outermost, Enqueued, Distinct
<1> QED
  BY <1>2, <1>3, <1>4 DEF LeaseInv

\* The invariant is inductive: LeasesAreCounted, NoMissedWakeup and what they
\* rest on hold in every reachable state, whatever the calls and sub-agents.
THEOREM GateInductive == Spec => []LeaseInv
<1>1. ASSUME LeaseInv, [Next]_vars PROVE LeaseInv'
  <2>1. CASE \E c \in Calls, l \in Lanes : Call(c, l)
    BY <1>1, <2>1, CallStep
  <2>2. CASE \E c, a \in Calls, l \in Lanes : CallInner(c, a, l)
    BY <1>1, <2>2, CallInnerStep
  <2>3. ASSUME NEW c \in Calls, Step(c) \/ GiveUp(c) PROVE LeaseInv'
    <3>1. CASE TakeTurn(c)
      BY <1>1, <3>1, Onward DEF TakeTurn, Phases
    <3>2. CASE Authorize(c)
      BY <1>1, <3>2, Onward DEF Authorize, Phases
    <3>3. CASE Dispatch(c)
      BY <1>1, <3>3, Onward DEF Dispatch, Phases
    <3>4. CASE Refuse(c) \/ RefuseOrphan(c) \/ EndOperation(c) \/ GiveUp(c)
      BY <1>1, <3>4, SettleStep DEF Refuse, RefuseOrphan, EndOperation, GiveUp
    <3>5. CASE Release(c)
      BY <1>1, <3>5, ReleaseStep
    <3> QED
      BY <2>3, <3>1, <3>2, <3>3, <3>4, <3>5 DEF Step
  <2>4. CASE Revoke \/ UNCHANGED vars
    BY <1>1, <2>4, RevokeStep
  <2> QED
    BY <1>1, <2>1, <2>2, <2>3, <2>4 DEF Next
<1> QED
  BY <1>1, InitInv, PTL DEF Spec

\* The counters of the gate agree with who holds a lease, always.
THEOREM CountedLeases == Spec => []LeasesAreCounted
<1>1. LeaseInv => LeasesAreCounted
  BY DEF LeaseInv
<1> QED
  BY <1>1, GateInductive, PTL

\* Nobody is ever left waiting at a gate that has room for it.
THEOREM WokenUp == Spec => []NoMissedWakeup
<1>1. LeaseInv => NoMissedWakeup
  BY DEF LeaseInv
<1> QED
  BY <1>1, GateInductive, PTL

\* While an exclusive operation executes no other does, except those of its own
\* sub-agent, and its exclusive ones one by one.
THEOREM ExclusiveAlone == Spec => []OperationExclusion
<1>1. ASSUME LeaseInv PROVE OperationExclusion
  <2>1. ASSUME NEW c \in Calls, Attended(c)
        PROVE  /\ lease[c] \in Holders
               /\ lane[c] = "exclusive" => lane[lease[c]] = "exclusive"
    <3>1. lease[c] \in Calls /\ Outermost(lease[c])
      BY <1>1, LeaseFacts
    <3> QED
      BY <1>1, <2>1, <3>1 DEF Attended, Holders, LeaseInv, NestingInv, Outermost
  <2>2. ASSUME NEW c \in Calls, NEW d \in Calls, lane[c] = "exclusive", Attended(c), Attended(d)
        PROVE  lease[c] = lease[d]
    BY <1>1, <2>1, <2>2 DEF LeaseInv, LeasesAreCounted
  <2>3. ASSUME NEW c \in Calls, lane[c] = "exclusive", Attended(c), c # lease[c]
        PROVE  \E k \in DOMAIN tail[lease[c]] : k = 1 /\ tail[lease[c]][k] = c
    <3>1. tail[lease[c]] \in Seq(Calls) /\ lease[c] \in Calls
      BY <1>1 DEF LeaseInv, TypeOK
    <3>2. PICK k \in DOMAIN tail[lease[c]] : tail[lease[c]][k] = c
      BY <1>1, <2>3, <3>1 DEF LeaseInv, ChainInv, Enqueued
    <3>3. ~ k > 1
      BY <1>1, <2>3, <3>1, <3>2 DEF LeaseInv, ChainInv, Attended
    <3>4. k = 1
      BY <3>1, <3>2, <3>3
    <3> QED
      BY <3>2, <3>4
  <2>4. ASSUME NEW c \in Calls, NEW d \in Calls, c # d, lane[c] = "exclusive", lane[d] = "exclusive",
               Attended(c), Attended(d), d # lease[c], c # lease[d]
        PROVE  FALSE
    BY <2>2, <2>3, <2>4
  <2>5. \A d \in Calls : lane[d] \in Lanes
    BY <1>1 DEF LeaseInv, TypeOK
  <2> QED
    BY <2>2, <2>4, <2>5 DEF OperationExclusion, Lanes
<1> QED
  BY <1>1, GateInductive, PTL

\* A right taken away is gone for every call whose authorization was not read:
\* it never executes, however long it waits and whoever lets it in.
THEOREM RevocationHolds == Spec => RevokedNeverRuns
<1> DEFINE Barred(c) == ~ authorized /\ phase[c] \in {"idle", "waiting", "queued", "admitted", "ended"}
<1>1. ASSUME NEW c \in Calls
      PROVE  TypeOK /\ Barred(c) /\ [Next]_vars => Barred(c)'
  <2> SUFFICES ASSUME TypeOK, Barred(c), [Next]_vars PROVE Barred(c)'
    OBVIOUS
  <2> DEFINE Off == {"idle", "waiting", "queued", "admitted", "ended"}
  <2>0. ~ authorized' /\ phase \in [Calls -> Phases]
    <3>1. CASE \E d \in Calls, l \in Lanes : Call(d, l)
      BY <3>1 DEF Call, TypeOK
    <3>2. CASE \E d, a \in Calls, l \in Lanes : CallInner(d, a, l)
      BY <3>2 DEF CallInner, TypeOK
    <3>3. CASE \E d \in Calls : Step(d) \/ GiveUp(d)
      BY <3>3 DEF Step, TakeTurn, Authorize, Refuse, Dispatch, RefuseOrphan, EndOperation,
                  GiveUp, Release, Settle, TypeOK
    <3>4. CASE Revoke \/ UNCHANGED vars
      BY <3>4 DEF Revoke, vars, TypeOK
    <3> QED
      BY <3>1, <3>2, <3>3, <3>4 DEF Next
  <2>1. ASSUME NEW d \in Calls, NEW p \in Off, NEW lanes, NEW queue, NEW shared, NEW exclusive,
               Pump(lanes, [phase EXCEPT ![d] = p], queue, shared, exclusive)
        PROVE  phase'[c] \in Off
    <3>1. [phase EXCEPT ![d] = p][c] \in Off
      BY <2>0
    <3> QED
      BY <2>1, <3>1 DEF Pump
  <2>2. ASSUME NEW d \in Calls, NEW p \in Off, phase' = [phase EXCEPT ![d] = p]
        PROVE  phase'[c] \in Off
    BY <2>0, <2>2
  <2>3. ASSUME NEW d \in Calls, NEW l \in Lanes, Call(d, l) PROVE phase'[c] \in Off
    BY <2>1, <2>2, <2>3 DEF Call, Acquire
  <2>4. ASSUME NEW d \in Calls, NEW a \in Calls, NEW l \in Lanes, CallInner(d, a, l)
        PROVE  phase'[c] \in Off
    BY <2>2, <2>4 DEF CallInner
  <2>5. ASSUME NEW d \in Calls, Settle(d) PROVE phase'[c] \in Off
    BY <2>2, <2>5 DEF Settle
  <2>6. ASSUME NEW d \in Calls, Step(d) \/ GiveUp(d) PROVE phase'[c] \in Off
    <3>1. CASE Authorize(d) \/ TakeTurn(d)
      BY <2>2, <3>1 DEF Authorize, TakeTurn
    <3>2. CASE Dispatch(d)
      BY <2>0, <3>2 DEF Dispatch
    <3>3. CASE Refuse(d) \/ RefuseOrphan(d) \/ EndOperation(d) \/ GiveUp(d)
      BY <2>5, <3>3 DEF Refuse, RefuseOrphan, EndOperation, GiveUp
    <3>4. CASE Release(d)
      BY <2>1, <3>4 DEF Release
    <3> QED
      BY <2>6, <3>1, <3>2, <3>3, <3>4 DEF Step
  <2>7. CASE Revoke \/ UNCHANGED vars
    BY <2>7 DEF Revoke, vars
  <2> QED
    BY <2>0, <2>3, <2>4, <2>6, <2>7 DEF Next
<1>2. ASSUME NEW c \in Calls
      PROVE  ~ authorized /\ phase[c] \in {"idle", "waiting", "queued", "admitted"} => Barred(c)
  OBVIOUS
<1>3. ASSUME NEW c \in Calls PROVE Barred(c) => phase[c] # "running"
  OBVIOUS
<1>4. Spec => []TypeOK
  <2>1. LeaseInv => TypeOK
    BY DEF LeaseInv
  <2> QED
    BY <2>1, GateInductive, PTL
<1>5. ASSUME NEW c \in Calls
      PROVE  Spec => [](~ authorized /\ phase[c] \in {"idle", "waiting", "queued", "admitted"}
                        => [](phase[c] # "running"))
  <2> HIDE DEF Barred
  <2> QED
    BY <1>1, <1>2, <1>3, <1>4, PTL DEF Spec
<1> QED
  BY <1>5 DEF RevokedNeverRuns

\* Whoever waits is overtaken by nobody: only those in front of it are let in.
THEOREM FirstComeFirstServed == Spec => NoOvertaking
<1> DEFINE InFront(c, d) ==
             \E j, k \in DOMAIN waiting : j < k /\ waiting[j] = d /\ waiting[k] = c
           Passed(c, d) ==
             /\ phase[c] = "waiting" /\ phase'[c] = "waiting"
             /\ phase[d] # "admitted" /\ phase'[d] = "admitted" /\ lease'[d] = d
<1>1. ASSUME LeaseInv, [Next]_vars, NEW c \in Calls, NEW d \in Calls, Passed(c, d)
      PROVE  InFront(c, d)
  <2>0. TypeOK /\ phase'[d] # phase[d] /\ phase'[d] = "admitted" /\ phase'[c] = "waiting"
    BY <1>1 DEF LeaseInv
  <2>1. PICK k \in DOMAIN waiting : waiting[k] = c
    BY <1>1 DEF LeaseInv, QueueInv, Enqueued
  <2>2. ASSUME NEW e \in Calls, NEW l \in Lanes, Call(e, l) PROVE FALSE
    <3>1. waiting # << >>
      BY <2>0, <2>1 DEF TypeOK
    <3>2. phase' = [phase EXCEPT ![e] = "waiting"]
      BY <1>1, <2>2, <3>1, PushOnly DEF Call, Acquire
    <3> QED
      BY <2>0, <3>2 DEF TypeOK
  <2>3. ASSUME NEW e \in Calls, NEW a \in Calls, NEW l \in Lanes, CallInner(e, a, l) PROVE FALSE
    <3>1. e = d
      BY <2>0, <2>3 DEF CallInner, TypeOK
    <3>2. lease'[e] = a /\ a # e
      BY <2>0, <2>3 DEF CallInner, TypeOK
    <3> QED
      BY <1>1, <3>1, <3>2
  <2>4. ASSUME NEW e \in Calls, TakeTurn(e) PROVE FALSE
    <3>1. e = d /\ phase[e] = "queued" /\ lease' = lease
      BY <2>0, <2>4 DEF TakeTurn, TypeOK
    <3> QED
      BY <1>1, <3>1 DEF LeaseInv, NestingInv, Outermost
  <2>5. ASSUME NEW e \in Calls,
               Authorize(e) \/ Refuse(e) \/ Dispatch(e) \/ RefuseOrphan(e) \/ EndOperation(e) \/ GiveUp(e)
        PROVE  FALSE
    <3>1. PICK p \in {"cleared", "running", "ended", "idle"} : phase' = [phase EXCEPT ![e] = p]
      BY <2>5 DEF Authorize, Refuse, Dispatch, RefuseOrphan, EndOperation, GiveUp, Settle
    <3> QED
      BY <2>0, <3>1 DEF TypeOK
  <2>6. ASSUME NEW e \in Calls, Release(e) PROVE InFront(c, d)
    <3>1. PICK n \in 0..Len(waiting) :
            phase' = [x \in Calls |->
                        IF \E j \in 1..n : waiting[j] = x THEN "admitted"
                        ELSE [phase EXCEPT ![e] = "idle"][x]]
      BY <2>6 DEF Release, Pump
    <3>2. [phase EXCEPT ![e] = "idle"][d] # "admitted"
      BY <1>1, <2>0 DEF TypeOK
    <3>3. PICK j \in 1..n : waiting[j] = d
      BY <2>0, <3>1, <3>2
    <3>4. k \notin 1..n
      BY <2>0, <2>1, <3>1
    <3>5. j \in DOMAIN waiting /\ j < k
      BY <2>1, <3>3, <3>4, QueueFacts, <1>1
    <3> QED
      BY <2>1, <3>3, <3>5
  <2>7. CASE Revoke \/ UNCHANGED vars
    BY <2>0, <2>7 DEF Revoke, vars
  <2> QED
    BY <1>1, <2>2, <2>3, <2>4, <2>5, <2>6, <2>7 DEF Next, Step
<1>2. LeaseInv /\ [Next]_vars => [\A c, d \in Calls : Passed(c, d) => InFront(c, d)]_vars
  <2> HIDE DEF Passed, InFront
  <2> QED
    BY <1>1
<1>3. Spec => [][\A c, d \in Calls : Passed(c, d) => InFront(c, d)]_vars
  BY <1>2, GateInductive, PTL DEF Spec
<1> QED
  BY <1>3 DEF NoOvertaking
=============================================================================
