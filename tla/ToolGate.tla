-------------------------------- MODULE ToolGate --------------------------------
(***************************************************************************)
(* RunToolConcurrencyGate: which tool calls of one run may execute at the  *)
(* same time.  Calls in the shared lane overlap, a call in the exclusive   *)
(* lane has the gate alone, and both are let in first come, first served.  *)
(* A sub-agent is a call whose operation makes calls of its own: they run  *)
(* under its lease, the exclusive ones through a serial chain.  Whoever is *)
(* let in has its authorization read again before its operation starts.    *)
(*                                                                         *)
(* Bounds: a call identifier stands for another call once nothing is left  *)
(* of the one before; only sub-agents make calls, and these make none.     *)
(***************************************************************************)
EXTENDS Naturals, Sequences, FiniteSets

CONSTANTS
    Calls,           \* calls that may be under way at the same time
    Agents,          \* those that are calls of a sub-agent
    MaxInner         \* calls one sub-agent may make (its maxTurns)

ASSUME ToolGateConstants ==
    /\ IsFiniteSet(Calls)
    /\ Agents \subseteq Calls
    /\ MaxInner \in Nat

VARIABLES
    phase,           \* how far each call is
    lane,            \* the lane it asked for
    lease,           \* the outermost call it belongs to, itself if it has no parent
    waiting,         \* outermost calls not let in yet
    activeShared,    \* the counter of the code
    activeExclusive, \* its flag, "yes" or "no"
    tail,            \* of each lease, its nested exclusive calls in order
    made,            \* how many calls each sub-agent made under its lease
    authorized       \* does the user still hold the right to run tools?

vars == <<phase, lane, lease, waiting, activeShared, activeExclusive, tail, made, authorized>>

Lanes == {"shared", "exclusive"}

\* idle; waiting: in the queue; queued: in the chain of its lease; admitted: its
\* authorization is being read; cleared: it was found good; running: the
\* operation executes; ended: it settled, its lease is not given back yet.
Phases == {"idle", "waiting", "queued", "admitted", "cleared", "running", "ended"}

TypeOK ==
    /\ phase \in [Calls -> Phases]
    /\ lane \in [Calls -> Lanes]
    /\ lease \in [Calls -> Calls]
    /\ waiting \in Seq(Calls)
    /\ activeShared \in Nat
    /\ activeExclusive \in {"yes", "no"}
    /\ tail \in [Calls -> Seq(Calls)]
    /\ made \in [Agents -> 0..MaxInner]
    /\ authorized \in BOOLEAN

Init ==
    /\ phase = [c \in Calls |-> "idle"]
    /\ lane = [c \in Calls |-> "shared"]
    /\ lease = [c \in Calls |-> c]
    /\ waiting = << >>
    /\ activeShared = 0 /\ activeExclusive = "no"
    /\ tail = [c \in Calls |-> << >>]
    /\ made = [a \in Agents |-> 0]
    /\ authorized = TRUE

Outermost(c) == lease[c] = c

\* The calls made by the operation of a that have not settled.
Inner(a) == {c \in Calls \ {a} : lease[c] = a}

\* Seeded fault: an exclusive call does not wait for the shared ones inside.
CanAcquireBesideShared(l) == activeExclusive = "no"

CanAcquire(l) ==
    /\ activeExclusive = "no"
    /\ l = "exclusive" => activeShared = 0

-----------------------------------------------------------------------------
\* The first n calls of the queue leave it: an exclusive call alone and only
\* when nobody is inside, shared calls up to the next exclusive one.
Leaves(n, lanes, queue, shared, exclusive) ==
    IF exclusive = "yes" \/ queue = << >> THEN n = 0
    ELSE IF lanes[Head(queue)] = "exclusive" THEN n = (IF shared > 0 THEN 0 ELSE 1)
    ELSE /\ n >= 1
         /\ \A k \in 1..n : lanes[queue[k]] = "shared"
         /\ n < Len(queue) => lanes[queue[n + 1]] = "exclusive"

\* Lets in whom it can, from the given queue and counters; phases is where the
\* calls are before.
Pump(lanes, phases, queue, shared, exclusive) ==
    \E n \in 0..Len(queue) :
        /\ Leaves(n, lanes, queue, shared, exclusive)
        /\ waiting' = SubSeq(queue, n + 1, Len(queue))
        /\ phase' = [c \in Calls |->
                       IF \E k \in 1..n : queue[k] = c THEN "admitted" ELSE phases[c]]
        /\ activeExclusive' = IF n > 0 /\ lanes[Head(queue)] = "exclusive" THEN "yes" ELSE exclusive
        /\ activeShared' = IF n > 0 /\ lanes[Head(queue)] = "shared" THEN shared + n ELSE shared

\* Seeded fault: a call that fits goes in before those that wait.
AcquirePastQueue(c, l) ==
    \/ /\ CanAcquire(l)
       /\ phase' = [phase EXCEPT ![c] = "admitted"]
       /\ activeExclusive' = IF l = "exclusive" THEN "yes" ELSE activeExclusive
       /\ activeShared' = IF l = "shared" THEN activeShared + 1 ELSE activeShared
       /\ UNCHANGED waiting
    \/ /\ ~ CanAcquire(l)
       /\ Pump(lane', [phase EXCEPT ![c] = "waiting"], Append(waiting, c),
               activeShared, activeExclusive)

\* A call takes the gate if it is free for its lane and nobody waits.
Acquire(c, l) ==
    \/ /\ waiting = << >> /\ CanAcquire(l)
       /\ phase' = [phase EXCEPT ![c] = "admitted"]
       /\ activeExclusive' = IF l = "exclusive" THEN "yes" ELSE activeExclusive
       /\ activeShared' = IF l = "shared" THEN activeShared + 1 ELSE activeShared
       /\ UNCHANGED waiting
    \/ /\ waiting # << >> \/ ~ CanAcquire(l)
       /\ Pump(lane', [phase EXCEPT ![c] = "waiting"], Append(waiting, c),
               activeShared, activeExclusive)

\* A call of the root agent, outside any lease.
Call(c, l) ==
    /\ phase[c] = "idle" /\ Inner(c) = {}
    /\ lane' = [lane EXCEPT ![c] = l]
    /\ Acquire(c, l)
    /\ UNCHANGED <<lease, tail, made, authorized>>

\* Seeded fault: a nested exclusive call does not wait for those before it.
CallInnerAtOnce(c, a, l) ==
    /\ phase[c] = "idle" /\ Inner(c) = {} /\ c \notin Agents
    /\ a \in Agents /\ phase[a] = "running" /\ made[a] < MaxInner
    /\ made' = [made EXCEPT ![a] = @ + 1]
    /\ l = "exclusive" => lane[a] = "exclusive"
    /\ lane' = [lane EXCEPT ![c] = l]
    /\ lease' = [lease EXCEPT ![c] = a]
    /\ phase' = [phase EXCEPT ![c] = "admitted"]
    /\ tail' = IF l = "exclusive" THEN [tail EXCEPT ![a] = Append(@, c)] ELSE tail
    /\ UNCHANGED <<waiting, activeShared, activeExclusive, authorized>>

\* A call made by the operation of sub-agent a, under its lease.  An exclusive
\* call inside a shared lease is rejected at once, which changes nothing.
CallInner(c, a, l) ==
    /\ phase[c] = "idle" /\ Inner(c) = {} /\ c \notin Agents
    /\ a \in Agents /\ phase[a] = "running" /\ made[a] < MaxInner
    /\ made' = [made EXCEPT ![a] = @ + 1]
    /\ l = "exclusive" => lane[a] = "exclusive"
    /\ lane' = [lane EXCEPT ![c] = l]
    /\ lease' = [lease EXCEPT ![c] = a]
    /\ \/ /\ l = "shared"
          /\ phase' = [phase EXCEPT ![c] = "admitted"]
          /\ UNCHANGED tail
       \/ /\ l = "exclusive"
          /\ phase' = [phase EXCEPT ![c] = "queued"]
          /\ tail' = [tail EXCEPT ![a] = Append(@, c)]
    /\ UNCHANGED <<waiting, activeShared, activeExclusive, authorized>>

\* The call before it in the chain settled, well or not.
TakeTurn(c) ==
    /\ phase[c] = "queued" /\ Head(tail[lease[c]]) = c
    /\ phase' = [phase EXCEPT ![c] = "admitted"]
    /\ UNCHANGED <<lane, lease, waiting, activeShared, activeExclusive, tail, made, authorized>>

\* Seeded fault: a nested call that settled stays at the head of the chain.
SettleInPlace(c) ==
    /\ \/ /\ Outermost(c)
          /\ phase' = [phase EXCEPT ![c] = "ended"]
          /\ UNCHANGED <<lane, lease, tail>>
       \/ /\ ~ Outermost(c)
          /\ phase' = [phase EXCEPT ![c] = "idle"]
          /\ lane' = [lane EXCEPT ![c] = "shared"]
          /\ lease' = [lease EXCEPT ![c] = c]
          /\ UNCHANGED tail
    /\ UNCHANGED <<waiting, activeShared, activeExclusive, made, authorized>>

\* The promise of the gate for c settles.  A nested call lets the next of its
\* chain go on; an outermost one still has to give the lease back.
Settle(c) ==
    /\ \/ /\ Outermost(c)
          /\ phase' = [phase EXCEPT ![c] = "ended"]
          /\ UNCHANGED <<lane, lease, tail>>
       \/ /\ ~ Outermost(c)
          /\ phase' = [phase EXCEPT ![c] = "idle"]
          /\ lane' = [lane EXCEPT ![c] = "shared"]
          /\ lease' = [lease EXCEPT ![c] = c]
          /\ tail' = IF lane[c] = "exclusive" THEN [tail EXCEPT ![lease[c]] = Tail(@)] ELSE tail
    /\ UNCHANGED <<waiting, activeShared, activeExclusive, made, authorized>>

\* Seeded fault: the authorization is not read after the wait.
AuthorizeUnread(c) ==
    /\ phase[c] = "admitted"
    /\ phase' = [phase EXCEPT ![c] = "cleared"]
    /\ UNCHANGED <<lane, lease, waiting, activeShared, activeExclusive, tail, made, authorized>>

\* The authorization is read after every wait, and found good.
Authorize(c) ==
    /\ phase[c] = "admitted" /\ authorized
    /\ phase' = [phase EXCEPT ![c] = "cleared"]
    /\ UNCHANGED <<lane, lease, waiting, activeShared, activeExclusive, tail, made, authorized>>

\* It is found taken away: the operation does not start.
Refuse(c) == phase[c] = "admitted" /\ ~ authorized /\ Settle(c)

\* The operation starts.  The coordinator does not start a tool for a sub-agent
\* that has ended.
Dispatch(c) ==
    /\ phase[c] = "cleared"
    /\ phase[lease[c]] = "running" \/ Outermost(c)
    /\ phase' = [phase EXCEPT ![c] = "running"]
    /\ UNCHANGED <<lane, lease, waiting, activeShared, activeExclusive, tail, made, authorized>>

RefuseOrphan(c) ==
    /\ phase[c] = "cleared" /\ ~ Outermost(c) /\ phase[lease[c]] # "running"
    /\ Settle(c)

\* The operation of c returns or throws; that of a sub-agent when the calls it
\* made have settled.
EndOperation(c) ==
    /\ phase[c] = "running" /\ Inner(c) = {}
    /\ Settle(c)

\* The time of a sub-agent is up: its invocation is raced against timeoutMs, and
\* the calls it made are neither awaited nor told.
GiveUp(c) ==
    /\ phase[c] = "running" /\ Inner(c) # {}
    /\ Settle(c)

\* Seeded fault: nobody is let in by the release.
ReleaseSilently(c) ==
    /\ phase[c] = "ended"
    /\ phase' = [phase EXCEPT ![c] = "idle"]
    /\ lane' = [lane EXCEPT ![c] = "shared"]
    /\ activeShared' = IF lane[c] = "shared" /\ activeShared > 0 THEN activeShared - 1 ELSE activeShared
    /\ activeExclusive' = IF lane[c] = "exclusive" THEN "no" ELSE activeExclusive
    /\ made' = IF c \in Agents THEN [made EXCEPT ![c] = 0] ELSE made
    /\ UNCHANGED <<lease, tail, authorized, waiting>>

\* Seeded fault: a lease is given back once more than it was taken.
ReleaseBoth(c) ==
    /\ phase[c] = "ended"
    /\ lane' = [lane EXCEPT ![c] = "shared"]
    /\ Pump(lane, [phase EXCEPT ![c] = "idle"], waiting, activeShared - 1, "no")
    /\ made' = IF c \in Agents THEN [made EXCEPT ![c] = 0] ELSE made
    /\ UNCHANGED <<lease, tail, authorized>>

\* The finally clause gives the lease back and lets others in.
Release(c) ==
    /\ phase[c] = "ended"
    /\ lane' = [lane EXCEPT ![c] = "shared"]
    /\ Pump(lane, [phase EXCEPT ![c] = "idle"], waiting,
            IF lane[c] = "shared" /\ activeShared > 0 THEN activeShared - 1 ELSE activeShared,
            IF lane[c] = "exclusive" THEN "no" ELSE activeExclusive)
    /\ made' = IF c \in Agents THEN [made EXCEPT ![c] = 0] ELSE made
    /\ UNCHANGED <<lease, tail, authorized>>

\* The membership or the role of the user is taken away, for good.
Revoke ==
    /\ authorized /\ authorized' = FALSE
    /\ UNCHANGED <<phase, lane, lease, waiting, activeShared, activeExclusive, tail, made>>

Step(c) ==
    \/ TakeTurn(c) \/ Authorize(c) \/ Refuse(c) \/ Dispatch(c) \/ RefuseOrphan(c)
    \/ EndOperation(c) \/ Release(c)

Next ==
    \/ \E c \in Calls, l \in Lanes : Call(c, l)
    \/ \E c, a \in Calls, l \in Lanes : CallInner(c, a, l)
    \/ \E c \in Calls : Step(c) \/ GiveUp(c)
    \/ Revoke

Spec == Init /\ [][Next]_vars

\* Promises go on, authorization reads answer, and operations end; nobody has to
\* time out.
FairSpec == Spec /\ \A c \in Calls : WF_vars(Step(c))
-----------------------------------------------------------------------------
Holders == {c \in Calls : Outermost(c) /\ phase[c] \in {"admitted", "cleared", "running", "ended"}}

\* The counter and the flag agree with who holds a lease, across every wait,
\* refusal and failure: an exclusive holder is the only one.
\* (runToolConcurrencyGate.ts:104-137)
LeasesAreCounted ==
    /\ activeShared = Cardinality({c \in Holders : lane[c] = "shared"})
    /\ activeExclusive = "yes" <=> \E c \in Holders : lane[c] = "exclusive"
    /\ \A c, d \in Holders : lane[c] = "exclusive" => d = c

\* Nobody is left waiting at a gate that has room for it.
NoMissedWakeup == waiting # << >> => ~ CanAcquire(lane[Head(waiting)])

\* A nested call whose sub-agent was given up executes unattended.
Attended(c) == phase[c] = "running" /\ phase[lease[c]] = "running"

\* While an exclusive operation executes, no other executes, except those of the
\* sub-agent it belongs to; and of these, exclusive ones execute one by one.
\* Unattended calls are out of it: see ExclusivityIsKept.
\* (runToolConcurrencyGate.ts:44-46)
OperationExclusion ==
    \A c, d \in Calls :
        c # d /\ lane[c] = "exclusive" /\ Attended(c) /\ Attended(d)
        => /\ lease[c] = lease[d]
           /\ lane[d] = "shared" \/ d = lease[c] \/ c = lease[d]

\* A sub-agent in the exclusive lane does not release its exclusivity to other
\* calls while a call of its own executes (runToolConcurrencyGate.ts:45-46).
ExclusivityIsKept ==
    \A c, d \in Calls :
        /\ phase[c] = "running" /\ lane[c] = "exclusive" /\ ~ Outermost(c)
        /\ phase[d] = "running"
        => lease[d] = lease[c]

\* A waiting call is not overtaken: who is let in while it goes on waiting stood
\* before it.  A stream of shared calls cannot starve an exclusive one.
NoOvertaking ==
    [][\A c, d \in Calls :
         /\ phase[c] = "waiting" /\ phase'[c] = "waiting"
         /\ phase[d] # "admitted" /\ phase'[d] = "admitted" /\ lease'[d] = d
         => \E j, k \in DOMAIN waiting : j < k /\ waiting[j] = d /\ waiting[k] = c]_vars

\* Once the right is taken away, no call starts whose authorization was not yet
\* read, however long it waits (withToolAuthorizationLease).
RevokedNeverRuns ==
    \A c \in Calls :
        [](~ authorized /\ phase[c] \in {"idle", "waiting", "queued", "admitted"}
           => [](phase[c] # "running"))

\* The inductive strengthening.  Who waits is in the queue, once; who is nested
\* belongs to a sub-agent; the chain of a lease holds its exclusive calls, and
\* only the first of them has gone on.
Enqueued(s, c) == \E k \in DOMAIN s : s[k] = c
Distinct(s) == \A j, k \in DOMAIN s : s[j] = s[k] => j = k

QueueInv ==
    /\ Distinct(waiting)
    /\ \A c \in Calls : Enqueued(waiting, c) <=> phase[c] = "waiting"

NestingInv ==
    \A c \in Calls :
        /\ Outermost(c) => phase[c] # "queued"
        /\ ~ Outermost(c) =>
             /\ phase[c] \in {"queued", "admitted", "cleared", "running"}
             /\ c \notin Agents /\ lease[c] \in Agents
             /\ phase[lease[c]] \in {"running", "ended", "idle"}
             /\ phase[lease[c]] = "running" /\ lane[c] = "exclusive" =>
                  lane[lease[c]] = "exclusive"

ChainInv ==
    \A a \in Calls :
        /\ Distinct(tail[a])
        /\ \A c \in Calls :
             Enqueued(tail[a], c) <=> c # a /\ lease[c] = a /\ lane[c] = "exclusive"
        /\ \A k \in DOMAIN tail[a] : k > 1 => phase[tail[a][k]] = "queued"

LeaseInv ==
    /\ TypeOK
    /\ LeasesAreCounted
    /\ NoMissedWakeup
    /\ QueueInv
    /\ NestingInv
    /\ ChainInv

\* Every call settles: neither the queue nor a chain blocks on itself.
CallSettles == \A c \in Calls : phase[c] # "idle" ~> phase[c] = "idle"
=============================================================================
