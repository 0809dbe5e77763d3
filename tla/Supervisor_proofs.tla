-------------------------- MODULE Supervisor_proofs --------------------------
(***************************************************************************)
(* What the operations supervisor guarantees for every finite catalog of   *)
(* services whose dependencies come first in the order, every restart      *)
(* budget and any number of operations, exits and crashes: what is said of *)
(* a service agrees with the handle of its process, no process runs        *)
(* unwatched, and a stop reports no service whose process lives.  Services *)
(* whose stop has met an automatic start of them (crossed) are left out.   *)
(***************************************************************************)
EXTENDS Supervisor, WellFoundedInduction, TLAPS

\* A set of numbers that is not empty has a least one.
LEMMA LeastNumber ==
    ASSUME NEW S \in SUBSET Nat, S # {}
    PROVE  \E x \in S : \A y \in S : x <= y
<1>1. IsWellFoundedOn({p \in Nat \X Nat : p[1] < p[2]}, Nat)
  BY NatLessThanWellFounded DEF OpToRel
<1>2. \E x \in S : \A y \in S : <<y, x>> \notin {p \in Nat \X Nat : p[1] < p[2]}
  BY <1>1, WFMin
<1>3. \A x, y \in Nat : <<y, x>> \notin {p \in Nat \X Nat : p[1] < p[2]} => x <= y
  OBVIOUS
<1> QED
  BY <1>2, <1>3

\* The first of some services is one of them.
LEMMA FirstIn ==
    ASSUME NEW S \in SUBSET Services, S # {}
    PROVE  First(S) \in S
<1>1. \E x \in S : \A y \in S : x <= y
  BY LeastNumber, CatalogAssumption
<1> QED
  BY <1>1 DEF First

\* The last of some services is one of them.
LEMMA LastIn ==
    ASSUME NEW S \in SUBSET Services, S # {}
    PROVE  Last(S) \in S
<1>1. PICK n \in Services : \A s \in Services : s <= n
  BY CatalogAssumption
<1> DEFINE D == {n - s : s \in S}
<1>2. n \in Nat /\ S \subseteq Nat /\ \A s \in S : n - s \in Nat /\ n - (n - s) = s
  BY <1>1, CatalogAssumption
<1>3. D \in SUBSET Nat /\ D # {}
  BY <1>2
<1>4. PICK d \in D : \A e \in D : d <= e
  BY <1>3, LeastNumber
<1>5. PICK x \in S : d = n - x
  BY <1>4
<1>6. \A y \in S : y <= x
  <2> TAKE y \in S
  <2>1. n - x <= n - y
    BY <1>4, <1>5
  <2> QED
    BY <1>2, <2>1
<1>7. \E z \in S : \A y \in S : y <= z
  BY <1>6
<1> QED
  BY <1>7 DEF Last

-----------------------------------------------------------------------------
(* What a step may do to a service without touching its handle. *)

Crosses == crossed' \in [Services -> BOOLEAN] /\ \A t \in Services : crossed[t] => crossed'[t]

\* No process begins, and none is told less.
Ages(t) ==
    /\ \A g \in Gens : /\ Alive(t, g)' => Alive(t, g)
                       /\ proc[t][g] = "none" => proc'[t][g] = "none"
    /\ \A g \in event'[t] : g \in event[t] \/ (Alive(t, g) /\ ~Alive(t, g)')
    /\ told[t] \subseteq told'[t]

\* The lease file stays or is written anew, by a supervisor that runs.
Leased(t) == lease'[t] = lease[t] \/ (up /\ lease'[t] = rec[t].cmd)

Calm(t) ==
    /\ Ages(t) /\ Leased(t)
    /\ base'[t] = base[t]
    /\ rec'[t].cmd = rec[t].cmd /\ rec'[t].gen = rec[t].gen
    /\ \/ /\ rec'[t].state = rec[t].state
          /\ rec[t].gen \in closing[t] => rec[t].gen \in closing'[t] \/ rec[t].cmd # 0
       \/ rec'[t].state \in {"stopping", "failed", "conflict"}
       \/ rec[t].cmd # 0 /\ rec'[t].state \in {"healthy", "degraded"}
       \/ /\ rec[t].cmd = 0 \/ crossed[t]
          /\ rec'[t].state \in {"stopped", "waiting_dependency", "restart_wait"}
    /\ \/ attempt'[t].pc = attempt[t].pc /\ attempt'[t].gen = attempt[t].gen
       \/ /\ attempt'[t].pc = "none"
          /\ attempt[t].pc = "lease" => ~Current(t, attempt[t].gen)
       \/ attempt'[t].pc \in {"deps", "await", "ports"} /\ rec[t].cmd = 0
       \/ /\ attempt[t].pc = "lease" /\ attempt'[t].pc = "probe"
          /\ attempt'[t].gen = attempt[t].gen /\ lease'[t] = rec[t].cmd
    /\ lost'[t] = lost[t] /\ doubted'[t] = doubted[t]
    /\ rec'[t].state = "unverified" => rec[t].state = "unverified"
    /\ rec[t].state = "unverified" =>
          /\ rec'[t].state = "unverified"
          /\ attempt[t].pc = "none" => attempt'[t].pc = "none"
          /\ closing[t] = {} => closing'[t] = {}
    /\ \/ up
       \/ /\ rec'[t].timer = rec[t].timer /\ attempt'[t] = attempt[t]
          /\ probe'[t] = probe[t] /\ closing'[t] = closing[t]

\* Such a step keeps what is relied on of the service.
LEMMA CalmStep ==
    ASSUME TypeOK, Crosses, UNCHANGED up, up \/ UNCHANGED op,
           NEW t \in Services, ServiceInv(t), Calm(t), Crossing(t)' => crossed'[t]
    PROVE  ServiceInv(t)'
<1> USE DEF Ages, Leased
<1>s. /\ StateTellsTruth(t) /\ HandleIsNewest(t) /\ DeadIsQuiet(t)
      /\ EveryProcessKnown(t) /\ LeaseIsWritten(t) /\ DoubtIsShown(t)
  BY DEF ServiceInv
<1>0. /\ rec[t].gen \in Nat /\ base[t] \in Nat /\ rec[t].cmd \in Nat /\ Gens \subseteq Nat \ {0}
      /\ event[t] \subseteq Gens
      /\ (crossed[t] => crossed'[t])
  BY CatalogAssumption DEF TypeOK, Gens, Record, Crosses
<1>1. StateTellsTruth(t)'
  <2>1. \/ /\ rec'[t].state = rec[t].state
           /\ rec[t].gen \in closing[t] => rec[t].gen \in closing'[t] \/ rec[t].cmd # 0
        \/ rec'[t].state \in {"stopping", "failed", "conflict"}
        \/ rec[t].cmd # 0 /\ rec'[t].state \in {"healthy", "degraded"}
        \/ /\ rec[t].cmd = 0 \/ crossed[t]
          /\ rec'[t].state \in {"stopped", "waiting_dependency", "restart_wait"}
    BY DEF Calm
  <2>2. rec'[t].cmd = rec[t].cmd /\ rec'[t].gen = rec[t].gen
    BY DEF Calm
  <2> QED
    <3>1. /\ rec[t].state \in {"stopped", "restart_wait", "waiting_dependency"} /\ ~crossed'[t] =>
                 rec[t].cmd = 0
          /\ rec[t].state \in {"starting", "healthy", "degraded"} =>
                 rec[t].cmd # 0 \/ rec[t].gen \in closing[t]
      BY <1>0, <1>s DEF StateTellsTruth
    <3>2. rec'[t].state \in {"stopped", "restart_wait", "waiting_dependency"} /\ ~crossed'[t] =>
              rec'[t].cmd = 0
      BY <1>0, <2>1, <2>2, <3>1
    <3>3. rec'[t].state \in {"starting", "healthy", "degraded"} =>
              rec'[t].cmd # 0 \/ rec'[t].gen \in closing'[t]
      BY <2>1, <2>2, <3>1
    <3> QED
      BY <3>2, <3>3 DEF StateTellsTruth
<1>2. HandleIsNewest(t)'
  <2>1. /\ rec'[t].cmd \in {0, rec'[t].gen} /\ base'[t] <= rec'[t].gen
        /\ rec'[t].cmd # 0 => base'[t] < rec'[t].cmd
    BY <1>0, <1>s DEF Calm, HandleIsNewest
  <2>2. /\ attempt'[t].pc \in {"deps", "await", "ports"} => rec'[t].cmd = 0
        /\ attempt'[t].pc \in {"lease", "probe"} => attempt'[t].gen # 0
    BY <1>0, <1>s DEF Calm, HandleIsNewest
  <2>3. ASSUME NEW g \in Gens, g > rec'[t].gen
        PROVE  proc'[t][g] = "none" /\ g \notin event'[t]
    <3>1. proc[t][g] = "none" /\ g \notin event[t]
      BY <2>3, <1>s DEF Calm, HandleIsNewest
    <3>2. ~Alive(t, g) /\ ~(Current(t, g))
      BY <1>0, <1>s, <2>3, <3>1 DEF Calm, HandleIsNewest, Alive, Current
    <3> QED
      BY <3>1, <3>2 DEF Calm
  <2>4. ASSUME NEW g \in event'[t] PROVE ~Alive(t, g)'
    <3>1. CASE g \in event[t]
      BY <1>0, <1>s, <3>1 DEF Calm, HandleIsNewest
    <3>2. CASE g \notin event[t]
      BY <2>4, <3>2 DEF Calm
    <3> QED
      BY <3>1, <3>2
  <2> QED
    BY <2>1, <2>2, <2>3, <2>4 DEF HandleIsNewest
<1>3. DeadIsQuiet(t)'
  BY <1>0, <1>s DEF Calm, DeadIsQuiet
<1>4. LeaseIsWritten(t)'
  BY <1>0, <1>s DEF Calm, LeaseIsWritten, Current
<1>5. EveryProcessKnown(t)'
  <2> SUFFICES ASSUME ~crossed'[t], NEW g \in Gens, Alive(t, g)'
               PROVE  /\ g > base'[t] => Current(t, g)'
                      /\ up' /\ g <= base'[t] => g \in told'[t] \cup lost'[t] \/ g = doubted'[t]
                      /\ \/ g \in told'[t] \cup lost'[t] \/ g \in {doubted'[t], lease'[t]}
                         \/ attempt'[t].pc = "lease" /\ g = attempt'[t].gen
    BY DEF EveryProcessKnown
  <2>0. Alive(t, g)
    BY DEF Calm
  <2>1. ~crossed[t] /\ Alive(t, g)
    BY <1>0, <2>0
  <2>2. /\ g > base[t] => Current(t, g)
        /\ up /\ g <= base[t] => g \in told[t] \cup lost[t] \/ g = doubted[t]
        /\ \/ g \in told[t] \cup lost[t] \/ g \in {doubted[t], lease[t]}
           \/ attempt[t].pc = "lease" /\ g = attempt[t].gen
    BY <1>s, <2>1 DEF EveryProcessKnown
  <2>3. /\ g > base'[t] => Current(t, g)'
        /\ up' /\ g <= base'[t] => g \in told'[t] \cup lost'[t] \/ g = doubted'[t]
    BY <2>2 DEF Calm, Current
  <2>4. told[t] \subseteq told'[t] /\ lost'[t] = lost[t] /\ doubted'[t] = doubted[t]
    BY DEF Calm
  <2>5. \/ g \in told'[t] \cup lost'[t] \/ g \in {doubted'[t], lease'[t]}
        \/ attempt'[t].pc = "lease" /\ g = attempt'[t].gen
    <3>1. CASE g <= base[t] /\ up
      BY <2>2, <2>4, <3>1
    <3>2. CASE g <= base[t] /\ ~up
      BY <1>s, <2>2, <2>4, <3>2 DEF Calm, DeadIsQuiet
    <3>3. CASE g > base[t]
      <4>1. rec[t].cmd = g /\ rec'[t].cmd = g
        BY <2>2, <3>3 DEF Calm, Current
      <4>2. CASE lease'[t] = rec[t].cmd
        BY <4>1, <4>2
      <4>3. CASE lease'[t] = lease[t] /\ (g \in told[t] \cup lost[t] \/ g \in {doubted[t], lease[t]})
        BY <2>4, <4>3
      <4>4. CASE lease'[t] = lease[t] /\ attempt[t].pc = "lease" /\ g = attempt[t].gen
        BY <1>0, <4>1, <4>4 DEF Calm, Current
      <4> QED
        BY <2>2, <4>2, <4>3, <4>4 DEF Calm
    <3> QED
      BY <1>0, <3>1, <3>2, <3>3
  <2> QED
    BY <2>3, <2>5
<1>6. DoubtIsShown(t)'
  BY <1>s DEF Calm, DoubtIsShown
<1> QED
  BY <1>1, <1>2, <1>3, <1>4, <1>5, <1>6 DEF ServiceInv

-----------------------------------------------------------------------------
(* What a step may do to the operation in progress. *)

\* An operation that goes on, is over or waits for what is next claims nothing.
LEMMA NothingToKnow ==
    ASSUME op' = IdleOp \/ op'.pc = "next"
    PROVE  StopKnows'
BY DEF StopKnows, IdleOp

\* What a stop knows stays true while the operation stands still.
LEMMA KnownStays ==
    ASSUME TypeOK, Crosses, StopKnows, op' = op,
           \A t \in Services : /\ \/ rec'[t].cmd \in {rec[t].cmd, 0} \/ crossed[t]
                                  \/ ~(op.pc \notin {"idle", "next", "starting"} /\ t = Last(op.stop))
                               /\ rec'[t].gen \in Nat /\ rec[t].gen <= rec'[t].gen
                               /\ rec'[t].state = "unverified" => rec[t].state = "unverified"
                               /\ \A g \in Gens : g <= rec[t].gen /\ Alive(t, g)' => Alive(t, g)
    PROVE  StopKnows'
<1>1. CASE op.pc \notin {"confirm", "kill", "close", "forced", "ports", "lease"}
  BY <1>1 DEF StopKnows
<1>2. CASE op.pc \in {"confirm", "kill", "close", "forced", "ports", "lease"}
  <2>1. op.stop # {} /\ op.stop \in SUBSET Services
    BY <1>2 DEF StopKnows, TypeOK, Operation
  <2>2. PICK s \in Services : s = Last(op.stop)
    BY <2>1, LastIn
  <2>3. /\ crossed[s] => crossed'[s]
        /\ rec[s].gen \in Gens \cup {0} /\ op.seen \in Gens \cup {0}
    BY <2>2 DEF TypeOK, Record, Operation, Crosses
  <2>7. rec[s].gen \in Nat /\ op.seen \in Nat /\ Gens \subseteq Nat /\ 0 \notin Gens
    BY <2>3, CatalogAssumption DEF Gens
  <2>5. /\ op.pc # "lease" => rec[s].state # "unverified"
        /\ op.pc \in {"confirm", "lease"} /\ ~crossed[s] => rec[s].cmd = 0
        /\ op.pc \in {"kill", "close", "forced", "ports"} =>
               /\ op.seen \in 1..rec[s].gen
               /\ ~crossed[s] => rec[s].cmd \in {0, op.seen}
        /\ op.pc = "ports" => ~Alive(s, op.seen)
    BY <1>2, <2>2 DEF StopKnows
  <2>9. rec'[s].cmd \in {rec[s].cmd, 0} \/ crossed[s]
    BY <1>2, <2>2
  <2>10. op.pc # "lease" => rec'[s].state # "unverified"
    BY <2>2, <2>5
  <2>4. op.pc \in {"confirm", "lease"} /\ ~crossed'[s] => rec'[s].cmd = 0
    BY <2>3, <2>5, <2>9
  <2>6. op.pc \in {"kill", "close", "forced", "ports"} =>
           /\ op.seen \in 1..rec'[s].gen
           /\ ~crossed'[s] => rec'[s].cmd \in {0, op.seen}
    BY <2>3, <2>5, <2>7, <2>9
  <2>8. op.pc = "ports" => ~Alive(s, op.seen)'
    <3> SUFFICES ASSUME op.pc = "ports"
                 PROVE  ~Alive(s, op.seen)'
      OBVIOUS
    <3>1. op.seen \in Gens /\ op.seen <= rec[s].gen /\ ~Alive(s, op.seen)
      BY <2>3, <2>5, <2>7
    <3>2. PICK g \in Gens : g = op.seen
      BY <3>1
    <3>3. ~Alive(s, g)'
      BY <3>1, <3>2
    <3> QED
      BY <3>2, <3>3 DEF Alive
  <2> QED
    BY <1>2, <2>1, <2>2, <2>4, <2>6, <2>8, <2>10 DEF StopKnows, Alive
<1> QED
  BY <1>1, <1>2

\* The step keeps the operation, or what it claims is known; no handle changes hands.
Calmly == /\ TypeOK' /\ UNCHANGED up
          /\ op' = op \/ (up /\ StopKnows')
          /\ \A t \in Services : Calm(t)

\* Such a step keeps the invariant.
LEMMA CalmlyKeeps ==
    ASSUME SupervisorInv, Crosses, Calmly, \A t \in Services : Crossing(t)' => crossed'[t]
    PROVE  SupervisorInv'
<1>1. TypeOK /\ StopKnows /\ \A t \in Services : ServiceInv(t)
  BY DEF SupervisorInv
<1>2. \A t \in Services : ServiceInv(t)'
  BY <1>1, CalmStep DEF Calmly
<1>3. ASSUME op' = op
      PROVE  StopKnows'
  <2>1. \A t \in Services :
           /\ rec'[t].cmd = rec[t].cmd /\ rec'[t].gen = rec[t].gen
           /\ rec'[t].state = "unverified" => rec[t].state = "unverified"
           /\ \A g \in Gens : Alive(t, g)' => Alive(t, g)
    BY DEF Calmly, Calm, Ages
  <2>2. \A t \in Services : rec[t].gen \in Nat
    BY <1>1, CatalogAssumption DEF TypeOK, Record, Gens
  <2>3. \A t \in Services : rec[t].gen <= rec'[t].gen /\ rec'[t].gen \in Nat
    BY <2>1, <2>2
  <2> QED
    BY <1>1, <1>3, <2>1, <2>3, KnownStays
<1>4. StopKnows'
  BY <1>3 DEF Calmly
<1> QED
  BY <1>2, <1>4 DEF SupervisorInv, Calmly

\* What a step leaves alone is calm.
LEMMA StillIsCalm ==
    ASSUME NEW t \in Services, UNCHANGED <<base, proc, event>>, rec'[t] = rec[t],
           attempt'[t] = attempt[t], lease'[t] = lease[t], lost'[t] = lost[t], doubted'[t] = doubted[t],
           probe'[t] = probe[t], closing'[t] = closing[t], told[t] \subseteq told'[t]
    PROVE  Calm(t)
BY DEF Calm, Ages, Leased, Alive

\* What is under way shows that the supervisor runs.
LEMMA Running ==
    ASSUME SupervisorInv, NEW s \in Services,
           \/ op.pc # "idle" \/ attempt[s].pc # "none" \/ closing[s] # {}
           \/ probe[s] # 0 \/ rec[s].timer # 0 \/ rec[s].cmd # 0
    PROVE  up
BY DEF SupervisorInv, ServiceInv, DeadIsQuiet

-----------------------------------------------------------------------------
(* The operations. *)

\* A new operation comes next.
LEMMA AskedStep ==
    ASSUME SupervisorInv, Crosses,
           NEW o \in Operation, Asked(o), rec' \in [Services -> Record],
           \A t \in Services : /\ rec'[t].cmd = rec[t].cmd /\ rec'[t].gen = rec[t].gen
                               /\ rec'[t].state = rec[t].state /\ rec'[t].timer = rec[t].timer
    PROVE  Calmly
<1>1. up /\ op' = [o EXCEPT !.pc = "next"]
      /\ UNCHANGED <<attempt, closing, probe, lease, up, world, exits, crashes, lost, doubted>>
      /\ ops' \in 0..MaxOps /\ TypeOK
  BY CatalogAssumption DEF Asked, SupervisorInv, TypeOK
<1>2. op' \in Operation /\ op'.pc = "next"
  BY <1>1 DEF Operation
<1>3. TypeOK'
  BY <1>1, <1>2 DEF TypeOK, Crosses, world
<1>4. \A t \in Services : Calm(t)
  BY <1>1 DEF Calm, Ages, Leased, Alive, world
<1> QED
  BY <1>1, <1>2, <1>3, <1>4, NothingToKnow DEF Calmly

\* A start, a stop or a restart is asked for.
LEMMA TargetSteps ==
    ASSUME SupervisorInv, Crosses, NEW t \in Services \cup {All},
           \/ StartTarget(t) \/ RestartTarget(t)
           \/ \E keepInfra \in BOOLEAN : StopTarget(t, keepInfra)
    PROVE  Calmly
<1>1. rec \in [Services -> Record]
  BY DEF SupervisorInv, TypeOK
<1>2. IdleOp \in Operation
  BY DEF IdleOp, Operation
<1>3. \A S \in SUBSET Services, T \in SUBSET Services :
         [IdleOp EXCEPT !.stop = S, !.start = T] \in Operation
  BY DEF IdleOp, Operation
<1>4. \A S \in SUBSET Services : /\ [IdleOp EXCEPT !.stop = S] \in Operation
                                 /\ [IdleOp EXCEPT !.start = S] \in Operation
  BY DEF IdleOp, Operation
<1>5. Selected(t) \subseteq Services /\ (t # All => t \in Services /\ Above(t) \subseteq Services)
  BY DEF Selected, Below, Above
<1>6. CASE StartTarget(t)
  <2> DEFINE T == IF t = All THEN Services ELSE {t} \cup Above(t)
  <2>1. T \in SUBSET Services
    BY <1>5
  <2>2. Asked([IdleOp EXCEPT !.start = T]) /\ UNCHANGED rec
    BY <1>6 DEF StartTarget
  <2> HIDE DEF T
  <2> QED
    BY <1>1, <1>4, <2>1, <2>2, AskedStep
<1>7. CASE RestartTarget(t)
  <2> DEFINE S == {s \in Selected(t) : rec[s].state \notin {"stopped"} \cup InConflict}
             T == IF t = All THEN Services ELSE {t} \cup S
  <2>1. S \in SUBSET Services /\ T \in SUBSET Services
    BY <1>5
  <2>2. Asked([IdleOp EXCEPT !.stop = S, !.start = T]) /\ UNCHANGED rec
    BY <1>7 DEF RestartTarget
  <2> HIDE DEF S, T
  <2> QED
    BY <1>1, <1>3, <2>1, <2>2, AskedStep
<1>8. ASSUME NEW keepInfra \in BOOLEAN, StopTarget(t, keepInfra)
      PROVE  Calmly
  <2> DEFINE S == Selected(t) \ (IF keepInfra THEN {Infra} ELSE {})
  <2>1. S \in SUBSET Services
    BY <1>5
  <2>2. /\ Asked([IdleOp EXCEPT !.stop = S])
        /\ rec' = [s \in Services |-> [rec[s] EXCEPT !.desired = @ /\ s \notin S]]
    BY <1>8 DEF StopTarget
  <2> HIDE DEF S
  <2>3. ASSUME NEW s \in Services
        PROVE  LET q == [rec[s] EXCEPT !.desired = @ /\ s \notin S]
               IN  /\ q \in Record /\ q.cmd = rec[s].cmd /\ q.gen = rec[s].gen
                   /\ q.state = rec[s].state /\ q.timer = rec[s].timer
    BY <1>1 DEF Record
  <2>4. /\ rec' \in [Services -> Record]
        /\ \A s \in Services : /\ rec'[s].cmd = rec[s].cmd /\ rec'[s].gen = rec[s].gen
                               /\ rec'[s].state = rec[s].state /\ rec'[s].timer = rec[s].timer
    BY <2>2, <2>3
  <2> QED
    BY <1>4, <2>1, <2>2, <2>4, AskedStep
<1> QED
  BY <1>6, <1>7, <1>8

\* Where a stop works on a service, it is the last one of those that are left.
LEMMA StopsLast ==
    ASSUME SupervisorInv, \/ op.pc \in {"confirm", "kill", "close", "forced", "ports", "lease"}
                          \/ op.pc = "next" /\ op.stop # {}
    PROVE  /\ \E s \in Services : s = Last(op.stop) /\ s \in op.stop
           /\ up /\ op \in Operation /\ op.stop # {}
<1>1. op.stop # {} /\ op.stop \in SUBSET Services /\ op \in Operation
  BY DEF SupervisorInv, StopKnows, TypeOK, Operation
<1>2. PICK s \in Services : s \in op.stop
  BY <1>1
<1>3. up
  BY <1>2, Running
<1> QED
  BY <1>1, <1>3, LastIn

\* A service with a handle, a start or a handler at work is not in doubt.
LEMMA Undoubted ==
    ASSUME SupervisorInv, NEW s \in Services,
           rec[s].cmd # 0 \/ attempt[s].pc # "none" \/ closing[s] # {}
    PROVE  rec[s].state # "unverified"
BY DEF SupervisorInv, ServiceInv, DoubtIsShown

\* Nor is one that a stop works on.
LEMMA StopUndoubted ==
    ASSUME SupervisorInv, op.pc \in {"confirm", "kill", "close", "forced", "ports"},
           NEW s \in Services, s = Last(op.stop)
    PROVE  rec[s].state # "unverified"
BY DEF SupervisorInv, StopKnows

\* What the operation writes of itself.
LEMMA OperationFields ==
    ASSUME NEW o \in Operation, NEW S \in SUBSET Services
    PROVE  /\ \A pc \in {"idle", "next", "confirm", "kill", "close", "forced", "ports", "lease",
                         "starting"} :
                 LET q == [o EXCEPT !.pc = pc]
                 IN  /\ q \in Operation /\ q.pc = pc /\ q.stop = o.stop
                     /\ q.start = o.start /\ q.seen = o.seen
           /\ LET q == [o EXCEPT !.pc = "next", !.stop = S, !.seen = 0]
              IN  q \in Operation /\ q.pc = "next" /\ q.stop = S
           /\ LET q == [o EXCEPT !.pc = "next", !.start = S]
              IN  q \in Operation /\ q.pc = "next" /\ q.stop = o.stop
           /\ IdleOp \in Operation
BY DEF Operation, IdleOp

\* A stop is done with one service.
LEMMA StopDoneFields ==
    ASSUME op \in Operation, NEW s
    PROVE  /\ StopDone(s) \in Operation /\ StopDone(s).pc = "next"
           /\ StopDone(s).stop = op.stop \ {s}
BY DEF Operation, StopDone

\* The operation is over.
LEMMA DoneStep ==
    ASSUME SupervisorInv, Crosses, Done
    PROVE  Calmly
<1>1. op' = IdleOp /\ UNCHANGED <<rec, attempt, closing, probe, lease, up, world, counts, lost, doubted>>
      /\ TypeOK /\ op.pc = "next"
  BY DEF Done, SupervisorInv
<1>2. TypeOK'
  BY <1>1 DEF TypeOK, Crosses, world, counts, IdleOp, Operation
<1>3. \A t \in Services : Calm(t)
  BY <1>1, StillIsCalm DEF world
<1>4. up
  BY <1>1, CatalogAssumption, Running
<1> QED
  BY <1>1, <1>2, <1>3, <1>4, NothingToKnow DEF Calmly

\* A stop marks a service that has a process, or has none to end.
LEMMA StopSingleStep ==
    ASSUME SupervisorInv, Crosses, StopSingle
    PROVE  Calmly
<1>1. PICK s \in Services : s = Last(op.stop) /\ s \in op.stop
  BY StopsLast DEF StopSingle
<1>2. TypeOK /\ up /\ op \in Operation /\ op.stop # {} /\ rec[s] \in Record /\ op.stop \in SUBSET Services
  BY StopsLast DEF StopSingle, SupervisorInv, TypeOK, Operation
<1> DEFINE r == [rec[s] EXCEPT !.desired = FALSE, !.timer = 0]
           q == [r EXCEPT !.stopping = TRUE, !.state = "stopping"]
<1>3. /\ r \in Record /\ r.cmd = rec[s].cmd /\ r.gen = rec[s].gen /\ r.state = rec[s].state
      /\ q \in Record /\ q.cmd = rec[s].cmd /\ q.gen = rec[s].gen /\ q.state = "stopping"
      /\ rec[s].cmd \in {0} \cup Gens
  BY <1>2 DEF Record
<1>4. /\ UNCHANGED <<attempt, closing, probe, lease, up, world, counts, lost, doubted>>
      /\ \/ /\ r.cmd # 0
            /\ rec' = [rec EXCEPT ![s] = q]
            /\ op' = [op EXCEPT !.pc = "kill", !.seen = r.cmd]
         \/ /\ r.cmd = 0
            /\ rec' = [rec EXCEPT ![s] = r]
            /\ op' = IF r.state \in {"stopped"} \cup InConflict THEN StopDone(s)
                     ELSE [op EXCEPT !.pc = "confirm"]
  BY <1>1 DEF StopSingle
<1> HIDE DEF r, q
<1>0. rec[s].cmd # 0 => rec[s].state # "unverified"
  BY Undoubted
<1>5. /\ rec' \in [Services -> Record]
      /\ \A t \in Services \ {s} : rec'[t] = rec[t]
      /\ rec'[s].cmd = rec[s].cmd /\ rec'[s].gen = rec[s].gen
      /\ \/ rec'[s].state = rec[s].state /\ rec[s].cmd = 0
         \/ rec'[s].state = "stopping" /\ rec[s].cmd # 0
  BY <1>2, <1>3, <1>4 DEF TypeOK
<1>6. /\ op' \in Operation
      /\ \/ op'.pc = "kill" /\ op'.stop = op.stop /\ op'.seen = rec[s].cmd /\ rec[s].cmd # 0
         \/ op'.pc = "next"
         \/ /\ op'.pc = "confirm" /\ op'.stop = op.stop /\ rec[s].cmd = 0
            /\ rec[s].state # "unverified"
  <2>1. CASE op' = [op EXCEPT !.pc = "kill", !.seen = r.cmd] /\ r.cmd # 0
    <3>1. r.cmd \in {0} \cup Gens /\ r.cmd = rec[s].cmd
      BY <1>3
    <3>2. /\ op' \in Operation /\ op'.pc = "kill" /\ op'.stop = op.stop
          /\ op'.seen = r.cmd
      BY <1>2, <2>1, <3>1 DEF Operation
    <3> QED
      BY <2>1, <3>1, <3>2
  <2>2. CASE op' = StopDone(s)
    BY <1>2, <2>2, StopDoneFields
  <2>3. CASE op' = [op EXCEPT !.pc = "confirm"] /\ r.cmd = 0 /\ r.state \notin InConflict
    BY <1>2, <1>3, <2>3, OperationFields DEF InConflict
  <2> QED
    BY <1>4, <2>1, <2>2, <2>3
<1>7. TypeOK'
  BY <1>2, <1>4, <1>5, <1>6 DEF TypeOK, Crosses, world, counts
<1>8. \A t \in Services : Calm(t)
  <2>1. \A t \in Services \ {s} : Calm(t)
    BY <1>4, <1>5, StillIsCalm DEF world
  <2>2. Calm(s)
    BY <1>0, <1>2, <1>4, <1>5 DEF Calm, Ages, Leased, Alive, world
  <2> QED
    BY <2>1, <2>2
<1>9. StopKnows'
  <2>1. CASE op'.pc = "next"
    BY <2>1, NothingToKnow
  <2>2. CASE op'.pc = "confirm"
    BY <1>1, <1>2, <1>5, <1>6, <2>2 DEF StopKnows
  <2>3. CASE op'.pc = "kill"
    <3>1. rec[s].cmd = rec[s].gen /\ rec[s].gen \in 1..rec[s].gen
      BY <1>2, <1>3, <1>6, <2>3, CatalogAssumption DEF SupervisorInv, ServiceInv, HandleIsNewest, Record, Gens
    <3> QED
      BY <1>1, <1>2, <1>5, <1>6, <2>3, <3>1 DEF StopKnows
  <2> QED
    BY <1>6, <2>1, <2>2, <2>3
<1> QED
  BY <1>2, <1>4, <1>7, <1>8, <1>9 DEF Calmly

\* The process of the service is told to end.
LEMMA KillStep ==
    ASSUME SupervisorInv, Crosses, Kill
    PROVE  Calmly
<1>1. PICK s \in Services : s = Last(op.stop) /\ s \in op.stop
  BY StopsLast DEF Kill
<1>2. TypeOK /\ up /\ op \in Operation /\ op.stop # {} /\ op.pc = "kill"
  BY StopsLast DEF Kill, SupervisorInv
<1>3. /\ UNCHANGED <<rec, attempt, closing, probe, lease, up, base, proc, event, counts, lost, doubted>>
      /\ told' = IF Alive(s, op.seen) THEN [told EXCEPT ![s] = @ \cup {op.seen}] ELSE told
      /\ op' = [op EXCEPT !.pc = "close"]
  BY <1>1 DEF Kill
<1>4. /\ op.seen \in 1..rec[s].gen /\ rec[s].gen \in {0} \cup Gens
      /\ ~crossed[s] => rec[s].cmd \in {0, op.seen}
      /\ rec[s].state # "unverified"
  BY <1>1, <1>2 DEF SupervisorInv, StopKnows, TypeOK, Record
<1>5. op.seen \in Gens
  BY <1>4, CatalogAssumption DEF Gens
<1>6. /\ op' \in Operation /\ op'.pc = "close" /\ op'.stop = op.stop
      /\ op'.seen = op.seen
  BY <1>2, <1>3, OperationFields
<1>7. told' \in [Services -> SUBSET Gens] /\ \A t \in Services : told[t] \subseteq told'[t]
  BY <1>2, <1>3, <1>5 DEF TypeOK
<1>8. TypeOK'
  BY <1>2, <1>3, <1>6, <1>7 DEF TypeOK, Crosses, counts
<1>9. \A t \in Services : Calm(t)
  BY <1>3, <1>7, StillIsCalm
<1>10. crossed[s] => crossed'[s]
  BY DEF Crosses
<1>11. StopKnows'
  BY <1>1, <1>2, <1>3, <1>4, <1>6, <1>10 DEF StopKnows
<1> QED
  BY <1>2, <1>3, <1>8, <1>9, <1>11 DEF Calmly

\* The process of the service has ended.
LEMMA ClosedStep ==
    ASSUME SupervisorInv, Crosses, Closed
    PROVE  Calmly
<1>1. PICK s \in Services : s = Last(op.stop) /\ s \in op.stop
  BY StopsLast DEF Closed
<1>2. TypeOK /\ up /\ op \in Operation /\ op.stop # {} /\ op.pc \in {"close", "forced"}
  BY StopsLast DEF Closed, SupervisorInv
<1>3. /\ UNCHANGED <<rec, attempt, closing, probe, lease, up, world, counts, lost, doubted>>
      /\ ~Alive(s, op.seen) /\ op' = [op EXCEPT !.pc = "ports"]
  BY <1>1 DEF Closed, HasClosed
<1>4. /\ op.seen \in 1..rec[s].gen /\ rec[s].state # "unverified"
      /\ ~crossed[s] => rec[s].cmd \in {0, op.seen}
      /\ crossed[s] => crossed'[s]
  BY <1>1, <1>2 DEF SupervisorInv, StopKnows, Crosses
<1>5. op' \in Operation /\ op'.pc = "ports" /\ op'.stop = op.stop /\ op'.seen = op.seen
  BY <1>2, <1>3, OperationFields
<1>6. TypeOK'
  BY <1>2, <1>3, <1>5 DEF TypeOK, Crosses, world, counts
<1>7. \A t \in Services : Calm(t)
  BY <1>3, StillIsCalm DEF world
<1>8. StopKnows'
  BY <1>1, <1>2, <1>3, <1>4, <1>5 DEF StopKnows, Alive, world
<1> QED
  BY <1>2, <1>3, <1>6, <1>7, <1>8 DEF Calmly

\* A process that does not end is killed; if that fails too, the operation fails.
LEMMA CloseTimeoutStep ==
    ASSUME SupervisorInv, Crosses, CloseTimeout
    PROVE  Calmly
<1>1. PICK s \in Services : s = Last(op.stop) /\ s \in op.stop
  BY StopsLast DEF CloseTimeout
<1>2. TypeOK /\ up /\ op \in Operation /\ op.stop # {} /\ op.pc \in {"close", "forced"}
  BY StopsLast DEF CloseTimeout, SupervisorInv
<1>3. UNCHANGED <<attempt, closing, probe, lease, up, world, counts, lost, doubted>>
  BY DEF CloseTimeout
<1>4. CASE op.pc = "close"
  <2>1. op' = [op EXCEPT !.pc = "forced"] /\ UNCHANGED rec
    BY <1>4 DEF CloseTimeout
  <2>2. /\ op.seen \in 1..rec[s].gen /\ rec[s].state # "unverified"
        /\ ~crossed[s] => rec[s].cmd \in {0, op.seen}
        /\ crossed[s] => crossed'[s]
    BY <1>1, <1>2 DEF SupervisorInv, StopKnows, Crosses
  <2>3. op' \in Operation /\ op'.pc = "forced" /\ op'.stop = op.stop /\ op'.seen = op.seen
    BY <1>2, <2>1, OperationFields
  <2>4. TypeOK'
    BY <1>2, <1>3, <2>1, <2>3 DEF TypeOK, Crosses, world, counts
  <2>5. \A t \in Services : Calm(t)
    BY <1>3, <2>1, StillIsCalm DEF world
  <2>6. StopKnows'
    BY <1>1, <1>2, <2>1, <2>2, <2>3 DEF StopKnows
  <2> QED
    BY <1>2, <1>3, <2>4, <2>5, <2>6 DEF Calmly
<1>5. CASE op.pc = "forced"
  <2> DEFINE q == [rec[s] EXCEPT !.state = "failed", !.stopping = FALSE]
  <2>1. op' = IdleOp /\ rec' = [rec EXCEPT ![s] = q]
    BY <1>1, <1>5 DEF CloseTimeout
  <2>0. rec[s] \in Record
    BY <1>2 DEF TypeOK
  <2>2. q \in Record /\ q.cmd = rec[s].cmd /\ q.gen = rec[s].gen /\ q.state = "failed"
    BY <2>0 DEF Record
  <2> HIDE DEF q
  <2>3. /\ rec' \in [Services -> Record] /\ \A t \in Services \ {s} : rec'[t] = rec[t]
        /\ rec'[s] = q
    BY <1>2, <2>1, <2>2 DEF TypeOK
  <2>4. op' \in Operation
    BY <1>2, <2>1, OperationFields
  <2>5. TypeOK'
    BY <1>2, <1>3, <2>3, <2>4 DEF TypeOK, Crosses, world, counts
  <2>6. \A t \in Services \ {s} : Calm(t)
    BY <1>3, <2>3, StillIsCalm DEF world
  <2>7. Calm(s)
    BY <1>1, <1>2, <1>3, <2>2, <2>3, StopUndoubted DEF Calm, Ages, Leased, Alive, world
  <2> QED
    BY <1>2, <1>3, <2>1, <2>5, <2>6, <2>7, NothingToKnow DEF Calmly
<1> QED
  BY <1>2, <1>4, <1>5

\* A port that is still held is a conflict.
LEMMA StillHeldStep ==
    ASSUME SupervisorInv, Crosses, StillHeld
    PROVE  Calmly
<1>1. PICK s \in Services : s = Last(op.stop) /\ s \in op.stop
  BY StopsLast DEF StillHeld
<1>2. TypeOK /\ up /\ op \in Operation /\ op.stop # {}
  BY StopsLast DEF StillHeld, SupervisorInv
<1> DEFINE q == [rec[s] EXCEPT !.state = "conflict", !.stopping = FALSE]
<1>3. /\ UNCHANGED <<attempt, closing, probe, lease, up, world, counts, lost, doubted>>
      /\ op' = IdleOp /\ rec' = [rec EXCEPT ![s] = q]
  BY <1>1 DEF StillHeld
<1>0. rec[s] \in Record
  BY <1>2 DEF TypeOK
<1>4. q \in Record /\ q.cmd = rec[s].cmd /\ q.gen = rec[s].gen /\ q.state = "conflict"
  BY <1>0 DEF Record, InConflict
<1> HIDE DEF q
<1>5. /\ rec' \in [Services -> Record] /\ \A t \in Services \ {s} : rec'[t] = rec[t]
      /\ rec'[s] = q
  BY <1>2, <1>3, <1>4 DEF TypeOK
<1>6. TypeOK'
  BY <1>2, <1>3, <1>5, OperationFields DEF TypeOK, Crosses, world, counts
<1>7. \A t \in Services \ {s} : Calm(t)
  BY <1>3, <1>5, StillIsCalm DEF world
<1>9. rec[s].state # "unverified"
  BY <1>1, StopUndoubted DEF StillHeld
<1>8. Calm(s)
  BY <1>2, <1>3, <1>4, <1>5, <1>9 DEF Calm, Ages, Leased, Alive, world
<1> QED
  BY <1>2, <1>3, <1>6, <1>7, <1>8, NothingToKnow DEF Calmly

\* The lease file names the handles.
LEMMA LeaseStopStep ==
    ASSUME SupervisorInv, Crosses, LeaseStop
    PROVE  Calmly
<1>1. PICK s \in Services : s = Last(op.stop) /\ s \in op.stop
  BY StopsLast DEF LeaseStop
<1>2. TypeOK /\ up /\ op \in Operation
  BY StopsLast DEF LeaseStop, SupervisorInv
<1>3. /\ UNCHANGED <<rec, attempt, closing, probe, up, world, counts, lost, doubted>>
      /\ lease' = [t \in Services |-> rec[t].cmd] /\ op' = StopDone(s)
  BY <1>1 DEF LeaseStop, Leases
<1>4. lease' \in [Services -> {0} \cup Gens]
  BY <1>2, <1>3 DEF TypeOK, Record
<1>5. op' \in Operation /\ op'.pc = "next"
  BY <1>2, <1>3, StopDoneFields
<1>6. TypeOK'
  BY <1>2, <1>3, <1>4, <1>5 DEF TypeOK, Crosses, world, counts
<1>7. \A t \in Services : Calm(t)
  BY <1>2, <1>3 DEF Calm, Ages, Leased, Alive, world
<1> QED
  BY <1>2, <1>3, <1>5, <1>6, <1>7, NothingToKnow DEF Calmly

\* A stop that had nothing to end confirms that the ports are free.
LEMMA ConfirmedStep ==
    ASSUME SupervisorInv, Crosses, Released, op.pc = "confirm"
    PROVE  Calmly
<1>1. PICK s \in Services : s = Last(op.stop) /\ s \in op.stop
  BY StopsLast DEF Released
<1>2. TypeOK /\ up /\ op \in Operation /\ op.stop # {}
  BY StopsLast DEF SupervisorInv
<1>0. rec[s] \in Record
  BY <1>2 DEF TypeOK
<1> DEFINE q == [rec[s] EXCEPT !.state = IF @ \in InConflict THEN @ ELSE "stopped"]
<1>3. /\ UNCHANGED <<attempt, closing, probe, lease, up, world, counts, lost, doubted>>
      /\ op' = StopDone(s) /\ rec' = [rec EXCEPT ![s] = q]
  BY <1>1 DEF Released
<1>11. rec[s].state # "unverified"
  BY <1>1, StopUndoubted
<1>4. /\ q \in Record /\ q.cmd = rec[s].cmd /\ q.gen = rec[s].gen
      /\ q.state \in {"conflict", "stopped"}
  BY <1>0, <1>11 DEF Record, InConflict
<1> HIDE DEF q
<1>5. /\ rec' \in [Services -> Record] /\ \A t \in Services \ {s} : rec'[t] = rec[t]
      /\ rec'[s] = q
  BY <1>2, <1>3, <1>4 DEF TypeOK
<1>6. op' \in Operation /\ op'.pc = "next"
  BY <1>2, <1>3, StopDoneFields
<1>7. TypeOK'
  BY <1>2, <1>3, <1>5, <1>6 DEF TypeOK, Crosses, world, counts
<1>8. \A t \in Services \ {s} : Calm(t)
  BY <1>3, <1>5, StillIsCalm DEF world
<1>9. rec[s].cmd = 0 \/ crossed[s]
  BY <1>1 DEF SupervisorInv, StopKnows
<1>10. Calm(s)
  BY <1>2, <1>3, <1>4, <1>5, <1>9, <1>11 DEF Calm, Ages, Leased, Alive, world
<1> QED
  BY <1>2, <1>3, <1>6, <1>7, <1>8, <1>10, NothingToKnow DEF Calmly

\* A stop gives the handle up when its process has ended and the ports are free.
LEMMA ReleasedStep ==
    ASSUME SupervisorInv, Crosses, \A t \in Services : Crossing(t)' => crossed'[t],
           Released, op.pc = "ports"
    PROVE  SupervisorInv'
<1>1. PICK s \in Services : s = Last(op.stop) /\ s \in op.stop
  BY StopsLast DEF Released
<1>2. TypeOK /\ up /\ op \in Operation /\ op.stop # {} /\ \A t \in Services : ServiceInv(t)
  BY StopsLast DEF SupervisorInv
<1>0. rec[s] \in Record
  BY <1>2 DEF TypeOK
<1> DEFINE q == [rec[s] EXCEPT !.cmd = 0, !.state = "stopped", !.stopping = FALSE]
<1>3. /\ UNCHANGED <<attempt, closing, probe, lease, up, world, counts, lost, doubted>>
      /\ op' = [op EXCEPT !.pc = "lease"] /\ rec' = [rec EXCEPT ![s] = q]
  BY <1>1 DEF Released
<1>4. q \in Record /\ q.cmd = 0 /\ q.gen = rec[s].gen /\ q.state = "stopped"
  BY <1>0 DEF Record
<1> HIDE DEF q
<1>5. /\ rec' \in [Services -> Record] /\ \A t \in Services \ {s} : rec'[t] = rec[t]
      /\ rec'[s] = q
  BY <1>2, <1>3, <1>4 DEF TypeOK
<1>6. op' \in Operation /\ op'.pc = "lease" /\ op'.stop = op.stop
  BY <1>2, <1>3, OperationFields
<1>7. TypeOK'
  BY <1>2, <1>3, <1>5, <1>6 DEF TypeOK, Crosses, world, counts
<1>8. ASSUME NEW t \in Services \ {s}
      PROVE  ServiceInv(t)'
  <2>1. Calm(t)
    BY <1>3, <1>5, StillIsCalm DEF world
  <2> QED
    BY <1>2, <1>3, <2>1, CalmStep
<1>9. StopKnows'
  BY <1>1, <1>2, <1>4, <1>5, <1>6 DEF StopKnows
<1>10. ServiceInv(s)'
  <2>1. /\ StateTellsTruth(s) /\ HandleIsNewest(s) /\ EveryProcessKnown(s) /\ LeaseIsWritten(s)
        /\ DoubtIsShown(s) /\ (crossed[s] => crossed'[s])
        /\ rec[s].state # "unverified"
    BY <1>1, <1>2, StopUndoubted DEF ServiceInv, Crosses
  <2>7. DoubtIsShown(s)'
    BY <1>3, <1>4, <1>5, <2>1 DEF DoubtIsShown
  <2>2. StateTellsTruth(s)'
    BY <1>4, <1>5 DEF StateTellsTruth
  <2>3. HandleIsNewest(s)'
    BY <1>3, <1>4, <1>5, <2>1 DEF HandleIsNewest, Alive, world
  <2>4. DeadIsQuiet(s)'
    BY <1>2, <1>3 DEF DeadIsQuiet
  <2>5. LeaseIsWritten(s)'
    BY <1>3, <1>4, <1>5, <2>1 DEF LeaseIsWritten, HandleIsNewest, Current
  <2>6. EveryProcessKnown(s)'
    <3>1. ~Alive(s, op.seen) /\ (~crossed[s] => rec[s].cmd \in {0, op.seen})
      BY <1>1 DEF SupervisorInv, StopKnows
    <3> SUFFICES ASSUME ~crossed'[s], NEW g \in Gens, Alive(s, g)'
                 PROVE  /\ g > base'[s] => Current(s, g)'
                        /\ up' /\ g <= base'[s] => g \in told'[s] \cup lost'[s] \/ g = doubted'[s]
                        /\ \/ g \in told'[s] \cup lost'[s] \/ g \in {doubted'[s], lease'[s]}
                           \/ attempt'[s].pc = "lease" /\ g = attempt'[s].gen
      BY DEF EveryProcessKnown
    <3>2. ~crossed[s] /\ Alive(s, g) /\ g # 0
      BY <1>3, <2>1, CatalogAssumption DEF Alive, world, Gens
    <3>3. ~(g > base[s])
      BY <2>1, <3>1, <3>2 DEF EveryProcessKnown, Current
    <3> QED
      BY <1>3, <2>1, <3>2, <3>3 DEF EveryProcessKnown, world
  <2> QED
    BY <2>2, <2>3, <2>4, <2>5, <2>6, <2>7 DEF ServiceInv
<1> QED
  BY <1>7, <1>8, <1>9, <1>10 DEF SupervisorInv

Untimed(r) == [r EXCEPT !.timer = 0]

\* A start in its first state.
LEMMA Begun ==
    ASSUME NEW s \in Services, NEW auto \in BOOLEAN, NEW by \in {0} \cup Gens
    PROVE  Fresh(s, auto, by) \in Attempt /\ Fresh(s, auto, by).pc = "deps"
BY CatalogAssumption DEF Fresh, NoAttempt, Attempt

\* A record whose timer is cleared keeps the handle and the state.
LEMMA UntimedFields ==
    ASSUME NEW r \in Record
    PROVE  /\ Untimed(r) \in Record /\ Untimed(r).cmd = r.cmd /\ Untimed(r).gen = r.gen
           /\ Untimed(r).state = r.state
BY DEF Record, Untimed

\* The operation waits for the next start, or takes it for done or refused.
LEMMA StartNextStep ==
    ASSUME SupervisorInv, Crosses, StartNext
    PROVE  Calmly
<1>1. /\ TypeOK /\ op \in Operation /\ op.start \in SUBSET Services /\ op.start # {}
      /\ op.stop = {} /\ op.pc = "next"
      /\ UNCHANGED <<closing, probe, lease, up, world, counts, lost, doubted>>
  BY DEF StartNext, SupervisorInv, TypeOK, Operation
<1>2. PICK s \in Services : s = First(op.start) /\ s \in op.start
  BY <1>1, FirstIn
<1>3. up /\ rec[s] \in Record
  BY <1>1, Running DEF TypeOK
<1>4. \/ /\ op' = StartDone(s) \/ op' = IdleOp
         /\ UNCHANGED <<rec, attempt>>
      \/ op' = [op EXCEPT !.pc = "starting"] /\ UNCHANGED <<rec, attempt>>
      \/ /\ rec[s].cmd = 0 /\ rec[s].state # "unverified" /\ op' = [op EXCEPT !.pc = "starting"]
         /\ rec' = [rec EXCEPT ![s] = Untimed(rec[s])]
         /\ attempt' = [attempt EXCEPT ![s] = Fresh(s, FALSE, 0)]
  BY <1>2 DEF StartNext, Untimed, Begins
<1>5. /\ op' \in Operation
      /\ \/ op'.pc = "next" \/ op' = IdleOp
         \/ (op'.pc = "starting" /\ op'.stop = {} /\ op'.start # {})
  <2>1. CASE op' = StartDone(s)
    BY <1>1, <2>1 DEF StartDone, Operation
  <2>2. CASE op' = [op EXCEPT !.pc = "starting"]
    BY <1>1, <2>2 DEF Operation
  <2>3. CASE op' = IdleOp
    BY <1>1, <2>3, OperationFields
  <2> QED
    BY <1>4, <2>1, <2>2, <2>3
<1>6. StopKnows'
  BY <1>5, NothingToKnow DEF StopKnows, IdleOp
<1>7. \A t \in Services \ {s} : rec'[t] = rec[t] /\ attempt'[t] = attempt[t]
  BY <1>1, <1>4 DEF TypeOK
<1>8. /\ rec' \in [Services -> Record] /\ attempt' \in [Services -> Attempt]
      /\ rec'[s].cmd = rec[s].cmd /\ rec'[s].gen = rec[s].gen /\ rec'[s].state = rec[s].state
      /\ \/ attempt'[s] = attempt[s]
         \/ (rec[s].cmd = 0 /\ rec[s].state # "unverified" /\ attempt'[s].pc = "deps")
  <2>1. CASE UNCHANGED <<rec, attempt>>
    BY <1>1, <2>1 DEF TypeOK
  <2>2. CASE /\ rec[s].cmd = 0 /\ rec[s].state # "unverified"
             /\ rec' = [rec EXCEPT ![s] = Untimed(rec[s])]
             /\ attempt' = [attempt EXCEPT ![s] = Fresh(s, FALSE, 0)]
    <3>1. Fresh(s, FALSE, 0) \in Attempt /\ Fresh(s, FALSE, 0).pc = "deps"
      BY Begun
    <3> QED
      BY <1>1, <1>3, <2>2, <3>1, UntimedFields DEF TypeOK
  <2> QED
    BY <1>4, <2>1, <2>2
<1>9. TypeOK'
  BY <1>1, <1>5, <1>8 DEF TypeOK, Crosses, world, counts
<1>10. \A t \in Services \ {s} : Calm(t)
  BY <1>1, <1>7, StillIsCalm DEF world
<1>11. Calm(s)
  BY <1>1, <1>3, <1>8 DEF Calm, Ages, Leased, Alive, world
<1> QED
  BY <1>1, <1>3, <1>6, <1>9, <1>10, <1>11 DEF Calmly

-----------------------------------------------------------------------------
(* The starts. *)

\* A start that fails: the records are those given, or say that a start has failed.
LEMMA RejectsFields ==
    ASSUME TypeOK, NEW s \in Services, NEW r \in [Services -> Record], Rejects(s, r)
    PROVE  /\ rec' \in [Services -> Record] /\ attempt' \in [Services -> Attempt]
           /\ op' \in Operation /\ (op' = op \/ op' = IdleOp)
           /\ \A t \in Services : /\ rec'[t].cmd = r[t].cmd /\ rec'[t].gen = r[t].gen
                                  /\ \/ rec'[t].state = r[t].state
                                     \/ rec'[t].state = "failed" /\ r[t].state # "unverified"
                                  /\ \/ attempt'[t] = attempt[t]
                                     \/ /\ attempt'[t] = NoAttempt
                                        /\ t = s \/ attempt[t].pc = "await"
<1>1. NoAttempt \in Attempt /\ IdleOp \in Operation /\ op \in Operation
  BY DEF NoAttempt, Attempt, IdleOp, Operation, TypeOK
<1> DEFINE fallen == Waiting(s)
<1>2. attempt' = [t \in Services |-> IF t \in fallen THEN NoAttempt ELSE attempt[t]]
  BY DEF Rejects
<1>3. op' = op \/ op' = IdleOp
  BY DEF Rejects
<1>4. rec' = [t \in Services |-> IF /\ t \in fallen /\ attempt[t].by # 0 /\ r[t].gen = attempt[t].by
                                    /\ r[t].cmd = 0 /\ r[t].state \notin InConflict
                                 THEN [r[t] EXCEPT !.state = "failed"] ELSE r[t]]
  BY DEF Rejects
<1>8. ASSUME NEW t \in fallen, t # s
      PROVE  attempt[t].pc = "await"
  <2> SUFFICES ASSUME attempt[t].pc # "await"
               PROVE  FALSE
    OBVIOUS
  <2> DEFINE S == Services \ {t}
  <2>1. S \in SUBSET Services /\ s \in S
    BY <1>8
  <2>2. \A u \in Services : attempt[u].pc = "await" /\ attempt[u].on \in S => u \in S
    OBVIOUS
  <2>3. t \in S
    BY <2>1, <2>2 DEF Waiting
  <2> QED
    BY <2>3
<1> HIDE DEF fallen
<1>5. ASSUME NEW t \in Services
      PROVE  LET q == [r[t] EXCEPT !.state = "failed"]
             IN  q \in Record /\ q.cmd = r[t].cmd /\ q.gen = r[t].gen /\ q.state = "failed"
  <2>1. r[t] \in Record
    OBVIOUS
  <2> QED
    BY <2>1 DEF Record
<1>6. /\ attempt' \in [Services -> Attempt]
      /\ \A t \in Services : \/ attempt'[t] = attempt[t]
                             \/ /\ attempt'[t] = NoAttempt
                                /\ t = s \/ attempt[t].pc = "await"
  BY <1>1, <1>2, <1>8 DEF TypeOK
<1>7. /\ rec' \in [Services -> Record]
      /\ \A t \in Services : /\ rec'[t].cmd = r[t].cmd /\ rec'[t].gen = r[t].gen
                             /\ \/ rec'[t].state = r[t].state
                                \/ rec'[t].state = "failed" /\ r[t].state # "unverified"
  BY <1>4, <1>5 DEF InConflict
<1> QED
  BY <1>1, <1>3, <1>6, <1>7

\* A step in which a start fails.
LEMMA RejectsStep ==
    ASSUME SupervisorInv, Crosses, NEW s \in Services, attempt[s].pc # "none",
           attempt[s].pc = "lease" => ~Current(s, attempt[s].gen),
           NEW r \in [Services -> Record], Rejects(s, r),
           \A t \in Services : /\ r[t].cmd = rec[t].cmd /\ r[t].gen = rec[t].gen
                               /\ t = s \/ r[t] = rec[t]
                               /\ \/ r[t].state \in {rec[t].state, "conflict"}
                                  \/ (rec[t].cmd = 0 /\ r[t].state = "waiting_dependency"),
           UNCHANGED <<closing, probe, lease, up, base, proc, event, lost, doubted>>,
           told' \in [Services -> SUBSET Gens], \A t \in Services : told[t] \subseteq told'[t],
           ops' \in 0..MaxOps, exits' \in 0..MaxExits, crashes' \in 0..MaxCrashes
    PROVE  Calmly
<1>1. up /\ TypeOK
  BY Running DEF SupervisorInv
<1>2. /\ rec' \in [Services -> Record] /\ attempt' \in [Services -> Attempt]
      /\ op' \in Operation /\ (op' = op \/ op' = IdleOp)
      /\ \A t \in Services : /\ rec'[t].cmd = r[t].cmd /\ rec'[t].gen = r[t].gen
                             /\ \/ rec'[t].state = r[t].state
                                \/ rec'[t].state = "failed" /\ r[t].state # "unverified"
                             /\ \/ attempt'[t] = attempt[t]
                                \/ /\ attempt'[t] = NoAttempt
                                   /\ t = s \/ attempt[t].pc = "await"
  BY <1>1, RejectsFields
<1>3. TypeOK'
  BY <1>1, <1>2 DEF TypeOK, Crosses
<1>4. NoAttempt.pc = "none"
  BY DEF NoAttempt
<1>5. ASSUME NEW t \in Services
      PROVE  Calm(t)
  <2>1. /\ rec'[t].cmd = rec[t].cmd /\ rec'[t].gen = rec[t].gen
        /\ \/ rec'[t].state = rec[t].state
           \/ rec'[t].state \in {"failed", "conflict"}
           \/ (rec[t].cmd = 0 /\ rec'[t].state = "waiting_dependency")
    BY <1>2
  <2>2. \/ attempt'[t] = attempt[t]
        \/ /\ attempt'[t].pc = "none"
           /\ attempt[t].pc = "lease" => ~Current(t, attempt[t].gen)
    BY <1>2, <1>4
  <2>3. /\ rec[t].state = "unverified" => rec'[t].state = "unverified"
        /\ rec'[t].state = "unverified" => rec[t].state = "unverified"
    BY <1>2, Undoubted
  <2> QED
    BY <1>1, <2>1, <2>2, <2>3 DEF Calm, Ages, Leased, Alive
<1> QED
  BY <1>1, <1>2, <1>3, <1>5, NothingToKnow DEF Calmly

\* The dependencies are healthy: the ports come next.
LEMMA DepsHealthyStep ==
    ASSUME SupervisorInv, Crosses, NEW s \in Services, DepsHealthy(s)
    PROVE  Calmly
<1>1. /\ TypeOK /\ attempt[s].pc = "deps" /\ attempt[s] \in Attempt
      /\ UNCHANGED <<rec, op, closing, probe, lease, up, world, counts, lost, doubted>>
  BY DEF DepsHealthy, SupervisorInv, TypeOK
<1> DEFINE a == [attempt[s] EXCEPT !.pc = "ports", !.left = {}]
<1>2. attempt' = [attempt EXCEPT ![s] = a]
  BY DEF DepsHealthy
<1>3. a \in Attempt /\ a.pc = "ports"
  BY <1>1 DEF Attempt
<1> HIDE DEF a
<1>4. up /\ rec[s].cmd = 0 /\ rec[s].state # "unverified"
  BY <1>1, Running, Undoubted DEF SupervisorInv, ServiceInv, HandleIsNewest
<1>5. /\ attempt' \in [Services -> Attempt] /\ attempt'[s] = a
      /\ \A t \in Services \ {s} : attempt'[t] = attempt[t]
  BY <1>1, <1>2, <1>3 DEF TypeOK
<1>6. TypeOK'
  BY <1>1, <1>5 DEF TypeOK, Crosses, world, counts
<1>7. \A t \in Services \ {s} : Calm(t)
  BY <1>1, <1>5, StillIsCalm DEF world
<1>8. Calm(s)
  BY <1>1, <1>3, <1>4, <1>5 DEF Calm, Ages, Leased, Alive, world
<1> QED
  BY <1>1, <1>4, <1>6, <1>7, <1>8 DEF Calmly

\* A start waits for a dependency, begins it or fails with it.
LEMMA NeedDepStep ==
    ASSUME SupervisorInv, Crosses, NEW s \in Services, NeedDep(s)
    PROVE  Calmly
<1>1. /\ TypeOK /\ attempt[s].pc = "deps" /\ attempt[s] \in Attempt /\ rec[s] \in Record
      /\ UNCHANGED <<closing, probe, lease, up, world, counts, lost, doubted>>
      /\ Lacking(s) # {} /\ Lacking(s) \in SUBSET Services
  BY DEF NeedDep, SupervisorInv, TypeOK, Lacking, Attempt
<1>2. PICK d \in Services : d = First(Lacking(s))
  BY <1>1, FirstIn
<1>3. up /\ rec[s].cmd = 0
  BY <1>1, Running DEF SupervisorInv, ServiceInv, HandleIsNewest
<1> DEFINE q == [rec[s] EXCEPT !.state = "waiting_dependency"]
           r == [rec EXCEPT ![s] = q]
           later == {e \in attempt[s].left : e > d}
           waiting == [attempt[s] EXCEPT !.pc = "await", !.on = d, !.left = later]
           going == [attempt[s] EXCEPT !.left = later]
<1>4. \/ Rejects(s, r)
      \/ /\ UNCHANGED op
         /\ \/ rec' = r /\ attempt' = [attempt EXCEPT ![s] = going]
            \/ rec' = r /\ attempt' = [attempt EXCEPT ![s] = waiting]
            \/ /\ Begins(d)
               /\ rec' = [r EXCEPT ![d] = Untimed(r[d])]
               /\ attempt' = [attempt EXCEPT ![s] = waiting, ![d] = Fresh(d, attempt[s].auto, 0)]
  BY <1>2 DEF NeedDep, Untimed
<1>5. q \in Record /\ q.cmd = rec[s].cmd /\ q.gen = rec[s].gen /\ q.state = "waiting_dependency"
  BY <1>1 DEF Record
<1>6. /\ waiting \in Attempt /\ waiting.pc = "await" /\ going \in Attempt /\ going.pc = "deps"
      /\ Fresh(d, attempt[s].auto, 0) \in Attempt /\ Fresh(d, attempt[s].auto, 0).pc = "deps"
  <2>1. attempt[s].auto \in BOOLEAN /\ later \subseteq Services
    BY <1>1 DEF Attempt
  <2> HIDE DEF later
  <2> QED
    BY <1>1, <2>1, Begun DEF Attempt
<1> HIDE DEF q, later, waiting, going
<1>7. /\ r \in [Services -> Record]
      /\ \A t \in Services : /\ r[t].cmd = rec[t].cmd /\ r[t].gen = rec[t].gen
                             /\ \/ r[t] = rec[t]
                                \/ (t = s /\ rec[t].cmd = 0 /\ r[t].state = "waiting_dependency")
  BY <1>1, <1>3, <1>5 DEF TypeOK
<1> HIDE DEF r
<1>8. CASE Rejects(s, r)
  <2>1. /\ UNCHANGED <<closing, probe, lease, up, base, proc, event, lost, doubted>>
        /\ told' \in [Services -> SUBSET Gens] /\ \A t \in Services : told[t] \subseteq told'[t]
        /\ ops' \in 0..MaxOps /\ exits' \in 0..MaxExits /\ crashes' \in 0..MaxCrashes
    BY <1>1 DEF world, counts, TypeOK
  <2>2. \A t \in Services : /\ r[t].cmd = rec[t].cmd /\ r[t].gen = rec[t].gen
                            /\ t = s \/ r[t] = rec[t]
                            /\ \/ r[t].state \in {rec[t].state, "conflict"}
                               \/ (rec[t].cmd = 0 /\ r[t].state = "waiting_dependency")
    BY <1>7
  <2>3. attempt[s].pc # "none" /\ attempt[s].pc # "lease"
    BY <1>1
  <2> QED
    BY <1>7, <1>8, <2>1, <2>2, <2>3, RejectsStep
<1>9. CASE ~Rejects(s, r)
  <2>1. /\ UNCHANGED op /\ rec' \in [Services -> Record] /\ attempt' \in [Services -> Attempt]
        /\ \A t \in Services :
              /\ rec'[t].cmd = rec[t].cmd /\ rec'[t].gen = rec[t].gen
              /\ \/ rec'[t].state = rec[t].state
                 \/ /\ rec[t].cmd = 0 /\ rec'[t].state = "waiting_dependency"
                    /\ rec[t].state # "unverified"
              /\ \/ attempt'[t] = attempt[t]
                 \/ /\ rec[t].cmd = 0 /\ attempt'[t].pc \in {"deps", "await"}
                    /\ rec[t].state # "unverified"
    <3>0. rec[s].state # "unverified"
      BY <1>1, Undoubted
    <3>1. CASE rec' = r /\ attempt' = [attempt EXCEPT ![s] = going]
      BY <1>1, <1>3, <1>4, <1>6, <1>7, <1>9, <3>0, <3>1 DEF TypeOK
    <3>2. CASE rec' = r /\ attempt' = [attempt EXCEPT ![s] = waiting]
      BY <1>1, <1>3, <1>4, <1>6, <1>7, <1>9, <3>0, <3>2 DEF TypeOK
    <3>3. CASE /\ Begins(d)
               /\ rec' = [r EXCEPT ![d] = Untimed(r[d])]
               /\ attempt' = [attempt EXCEPT ![s] = waiting, ![d] = Fresh(d, attempt[s].auto, 0)]
      <4>1. /\ Untimed(r[d]) \in Record /\ Untimed(r[d]).cmd = r[d].cmd
            /\ Untimed(r[d]).gen = r[d].gen /\ Untimed(r[d]).state = r[d].state
        BY <1>7, UntimedFields
      <4>2. attempt' \in [Services -> Attempt]
        BY <1>1, <1>6, <3>3 DEF TypeOK
      <4>3. /\ rec' \in [Services -> Record]
            /\ \A t \in Services : rec'[t] = r[t] \/ (t = d /\ rec'[t] = Untimed(r[d]))
        BY <1>7, <3>3, <4>1
      <4>4. \A t \in Services : \/ attempt'[t] = attempt[t]
                                \/ /\ rec[t].cmd = 0 /\ attempt'[t].pc \in {"deps", "await"}
                                   /\ rec[t].state # "unverified"
        BY <1>1, <1>3, <1>6, <3>0, <3>3 DEF TypeOK, Begins
      <4>5. \A t \in Services : /\ rec'[t].cmd = r[t].cmd /\ rec'[t].gen = r[t].gen
                                /\ rec'[t].state = r[t].state
        BY <4>1, <4>3
      <4> QED
        BY <1>4, <1>7, <1>9, <3>0, <4>2, <4>3, <4>4, <4>5
    <3> QED
      BY <1>4, <1>9, <3>1, <3>2, <3>3
  <2>2. TypeOK'
    BY <1>1, <2>1 DEF TypeOK, Crosses, world, counts
  <2>3. \A t \in Services : Calm(t)
    BY <1>1, <1>3, <2>1 DEF Calm, Ages, Leased, Alive, world
  <2> QED
    BY <1>1, <2>1, <2>2, <2>3 DEF Calmly
<1> QED
  BY <1>8, <1>9

\* The port is not free: the start fails.
LEMMA PortTakenStep ==
    ASSUME SupervisorInv, Crosses, NEW s \in Services, PortTaken(s)
    PROVE  Calmly
<1>1. /\ TypeOK /\ attempt[s].pc = "ports" /\ rec[s] \in Record
      /\ UNCHANGED <<closing, probe, lease, up, world, counts, lost, doubted>>
  BY DEF PortTaken, SupervisorInv, TypeOK
<1> DEFINE q == [rec[s] EXCEPT !.state = "conflict"]
           r == [rec EXCEPT ![s] = q]
<1>2. Rejects(s, r)
  BY DEF PortTaken
<1>3. q \in Record /\ q.cmd = rec[s].cmd /\ q.gen = rec[s].gen /\ q.state = "conflict"
  BY <1>1 DEF Record, InConflict
<1> HIDE DEF q
<1>4. /\ r \in [Services -> Record]
      /\ \A t \in Services : /\ r[t].cmd = rec[t].cmd /\ r[t].gen = rec[t].gen
                             /\ t = s \/ r[t] = rec[t]
                             /\ r[t].state \in {rec[t].state, "conflict"}
  BY <1>1, <1>3 DEF TypeOK
<1> HIDE DEF r
<1>5. /\ UNCHANGED <<closing, probe, lease, up, base, proc, event, lost, doubted>>
      /\ told' \in [Services -> SUBSET Gens] /\ \A t \in Services : told[t] \subseteq told'[t]
      /\ ops' \in 0..MaxOps /\ exits' \in 0..MaxExits /\ crashes' \in 0..MaxCrashes
      /\ attempt[s].pc # "none" /\ attempt[s].pc # "lease"
  BY <1>1 DEF world, counts, TypeOK
<1> QED
  BY <1>2, <1>4, <1>5, RejectsStep

\* A start whose process was replaced or has gone fails.
LEMMA SupersededStep ==
    ASSUME SupervisorInv, Crosses, NEW s \in Services, Superseded(s)
    PROVE  Calmly
<1>1. /\ UNCHANGED <<closing, probe, lease, up, base, proc, event, lost, doubted>>
      /\ told' \in [Services -> SUBSET Gens] /\ \A t \in Services : told[t] \subseteq told'[t]
      /\ ops' \in 0..MaxOps /\ exits' \in 0..MaxExits /\ crashes' \in 0..MaxCrashes
      /\ attempt[s].pc # "none" /\ rec \in [Services -> Record] /\ Rejects(s, rec)
      /\ ~Current(s, attempt[s].gen)
  BY DEF Superseded, world, counts, SupervisorInv, TypeOK
<1> QED
  BY <1>1, RejectsStep

\* A start whose process is not healthy in time tells it to end, and fails.
LEMMA StartTimeoutStep ==
    ASSUME SupervisorInv, Crosses, NEW s \in Services, StartTimeout(s)
    PROVE  Calmly
<1>1. /\ TypeOK /\ attempt[s].pc = "probe" /\ attempt[s] \in Attempt
      /\ attempt[s].gen # 0 /\ exits < MaxExits /\ exits' = exits + 1
      /\ told' = [told EXCEPT ![s] = IF Alive(s, attempt[s].gen) THEN @ \cup {attempt[s].gen} ELSE @]
  BY DEF StartTimeout, SupervisorInv, TypeOK, ServiceInv, HandleIsNewest
<1>2. attempt[s].gen \in Gens
  BY <1>1 DEF Attempt
<1>3. told' \in [Services -> SUBSET Gens] /\ \A t \in Services : told[t] \subseteq told'[t]
  BY <1>1, <1>2 DEF TypeOK
<1>4. exits' \in 0..MaxExits
  BY <1>1, CatalogAssumption DEF TypeOK
<1>5. /\ UNCHANGED <<closing, probe, lease, up, base, proc, event, lost, doubted>>
      /\ ops' \in 0..MaxOps /\ crashes' \in 0..MaxCrashes
      /\ attempt[s].pc # "none" /\ rec \in [Services -> Record] /\ Rejects(s, rec)
  BY <1>1 DEF StartTimeout, TypeOK
<1>6. attempt[s].pc # "lease"
  BY <1>1
<1> QED
  BY <1>3, <1>4, <1>5, <1>6, RejectsStep

\* The leases are written before the start probes its process.
LEMMA LeaseStartStep ==
    ASSUME SupervisorInv, Crosses, NEW s \in Services, LeaseStart(s)
    PROVE  Calmly
<1>1. /\ TypeOK /\ attempt[s].pc = "lease" /\ attempt[s] \in Attempt
      /\ UNCHANGED <<rec, op, closing, probe, up, world, counts, lost, doubted>>
      /\ lease' = [t \in Services |-> rec[t].cmd]
  BY DEF LeaseStart, SupervisorInv, TypeOK, Leases
<1> DEFINE a == [attempt[s] EXCEPT !.pc = "probe"]
<1>2. attempt' = [attempt EXCEPT ![s] = a]
  BY DEF LeaseStart
<1>3. a \in Attempt /\ a.pc = "probe" /\ a.gen = attempt[s].gen
  BY <1>1 DEF Attempt
<1> HIDE DEF a
<1>4. up /\ rec[s].state # "unverified"
  BY <1>1, Running, Undoubted
<1>5. /\ attempt' \in [Services -> Attempt] /\ attempt'[s] = a
      /\ \A t \in Services \ {s} : attempt'[t] = attempt[t]
  BY <1>1, <1>2, <1>3 DEF TypeOK
<1>6. lease' \in [Services -> {0} \cup Gens] /\ \A t \in Services : lease'[t] = rec[t].cmd
  BY <1>1 DEF TypeOK, Record
<1>7. TypeOK'
  BY <1>1, <1>5, <1>6 DEF TypeOK, Crosses, world, counts
<1>8. \A t \in Services \ {s} : Calm(t)
  BY <1>1, <1>4, <1>5, <1>6 DEF Calm, Ages, Leased, Alive, world
<1>9. Calm(s)
  BY <1>1, <1>3, <1>4, <1>5, <1>6 DEF Calm, Ages, Leased, Alive, world
<1> QED
  BY <1>1, <1>4, <1>7, <1>8, <1>9 DEF Calmly

\* A start that has succeeded: who waited for it goes on.
LEMMA ResolvesFields ==
    ASSUME SupervisorInv, NEW s \in Services, Resolves(s)
    PROVE  /\ attempt' \in [Services -> Attempt]
           /\ op' \in Operation /\ (op' = op \/ op'.pc = "next")
           /\ \A t \in Services : \/ attempt'[t] = attempt[t]
                                  \/ (t = s /\ attempt'[t].pc = "none")
                                  \/ (attempt'[t].pc = "deps" /\ attempt[t].pc = "await")
<1>1. TypeOK /\ op \in Operation /\ op.start \in SUBSET Services
  BY DEF SupervisorInv, TypeOK, Operation
<1>2. op' = op \/ op' = StartDone(First(op.start)) \/ op' = StartDone(s)
  BY DEF Resolves
<1>3. \A t : StartDone(t) \in Operation /\ StartDone(t).pc = "next"
  BY <1>1 DEF StartDone, Operation
<1>4. NoAttempt \in Attempt /\ NoAttempt.pc = "none"
  BY DEF NoAttempt, Attempt
<1>5. ASSUME NEW t \in Services
      PROVE  LET a == [attempt[t] EXCEPT !.pc = "deps", !.on = 0]
             IN  a \in Attempt /\ a.pc = "deps"
  <2>1. attempt[t] \in Attempt
    BY <1>1 DEF TypeOK
  <2> QED
    BY <2>1 DEF Attempt
<1>6. attempt' = [t \in Services |->
           IF t = s THEN NoAttempt
           ELSE IF attempt[t].pc = "await" /\ attempt[t].on = s
           THEN [attempt[t] EXCEPT !.pc = "deps", !.on = 0] ELSE attempt[t]]
  BY DEF Resolves
<1>7. ASSUME NEW t \in Services
      PROVE  /\ attempt'[t] \in Attempt
             /\ \/ attempt'[t] = attempt[t] \/ (t = s /\ attempt'[t].pc = "none")
                \/ (attempt'[t].pc = "deps" /\ attempt[t].pc = "await")
  BY <1>1, <1>4, <1>5, <1>6 DEF TypeOK
<1>8. attempt' \in [Services -> Attempt]
  <2>1. DOMAIN attempt' = Services /\ attempt' = [t \in Services |-> attempt'[t]]
    BY <1>6
  <2> QED
    BY <1>7, <2>1
<1>9. op' \in Operation /\ (op' = op \/ op'.pc = "next")
  BY <1>1, <1>2, <1>3
<1> QED
  BY <1>7, <1>8, <1>9

\* A probe is answered: the service is healthy and the start succeeds.
LEMMA HealthyStep ==
    ASSUME SupervisorInv, Crosses, NEW s \in Services, Healthy(s)
    PROVE  Calmly
<1>1. /\ TypeOK /\ attempt[s].pc = "probe" /\ attempt[s] \in Attempt /\ rec[s] \in Record
      /\ Current(s, attempt[s].gen) /\ attempt[s].gen # 0
      /\ probe' = [probe EXCEPT ![s] = attempt[s].gen]
      /\ UNCHANGED <<closing, lease, up, world, counts, lost, doubted>>
  BY DEF Healthy, SupervisorInv, TypeOK, ServiceInv, HandleIsNewest
<1>2. attempt[s].gen \in Gens /\ up /\ rec[s].cmd # 0
  BY <1>1, Running DEF Attempt, Current
<1> DEFINE q == [rec[s] EXCEPT !.state = "healthy"]
<1>3. rec' = [rec EXCEPT ![s] = q]
  BY DEF Healthy
<1>4. q \in Record /\ q.cmd = rec[s].cmd /\ q.gen = rec[s].gen /\ q.state = "healthy"
  BY <1>1 DEF Record
<1> HIDE DEF q
<1>5. /\ rec' \in [Services -> Record] /\ rec'[s] = q
      /\ \A t \in Services \ {s} : rec'[t] = rec[t]
  BY <1>1, <1>3, <1>4 DEF TypeOK
<1>6. /\ attempt' \in [Services -> Attempt]
      /\ op' \in Operation /\ (op' = op \/ op'.pc = "next")
      /\ \A t \in Services : \/ attempt'[t] = attempt[t]
                             \/ (t = s /\ attempt'[t].pc = "none")
                             \/ (attempt'[t].pc = "deps" /\ attempt[t].pc = "await")
  BY ResolvesFields DEF Healthy
<1>7. probe' \in [Services -> {0} \cup Gens]
  BY <1>1, <1>2 DEF TypeOK
<1>8. TypeOK'
  BY <1>1, <1>5, <1>6, <1>7 DEF TypeOK, Crosses, world, counts
<1>9. ASSUME NEW t \in Services
      PROVE  Calm(t)
  <2>1. \/ attempt'[t] = attempt[t]
        \/ (attempt'[t].pc = "none" /\ attempt[t].pc # "lease")
        \/ /\ attempt'[t].pc = "deps" /\ rec[t].cmd = 0
           /\ rec[t].state # "unverified"
    BY <1>1, <1>6, Undoubted DEF SupervisorInv, ServiceInv, HandleIsNewest
  <2>2. /\ Ages(t) /\ Leased(t) /\ base'[t] = base[t] /\ lease'[t] = lease[t]
        /\ closing'[t] = closing[t]
    BY <1>1 DEF Ages, Leased, Alive, world
  <2>3. /\ rec'[t].cmd = rec[t].cmd /\ rec'[t].gen = rec[t].gen
        /\ \/ rec'[t].state = rec[t].state
           \/ /\ rec[t].cmd # 0 /\ rec'[t].state = "healthy"
              /\ rec[t].state # "unverified"
    BY <1>2, <1>4, <1>5, Undoubted
  <2> QED
    BY <1>1, <1>2, <2>1, <2>2, <2>3 DEF Calm
<1> QED
  BY <1>1, <1>2, <1>6, <1>8, <1>9, NothingToKnow DEF Calmly

\* The monitor writes what its probe has found, if the process is still this one.
LEMMA MonitorStep ==
    ASSUME SupervisorInv, Crosses, NEW s \in Services, Monitor(s)
    PROVE  Calmly
<1>1. /\ TypeOK /\ rec[s] \in Record /\ probe[s] # 0
      /\ UNCHANGED <<attempt, op, closing, probe, lease, up, world, counts, lost, doubted>>
  BY DEF Monitor, SupervisorInv, TypeOK
<1>2. up
  BY <1>1, Running
<1>3. \/ /\ rec[s].cmd # 0
         /\ \E state \in {"healthy", "degraded"} :
               rec' = [rec EXCEPT ![s] = [rec[s] EXCEPT !.state = state]]
      \/ rec' = rec
  BY <1>1 DEF Monitor, Current
<1>4. ASSUME NEW state \in {"healthy", "degraded"}
      PROVE  LET q == [rec[s] EXCEPT !.state = state]
             IN  q \in Record /\ q.cmd = rec[s].cmd /\ q.gen = rec[s].gen /\ q.state = state
  BY <1>1 DEF Record
<1>5. /\ rec' \in [Services -> Record] /\ \A t \in Services \ {s} : rec'[t] = rec[t]
      /\ rec'[s].cmd = rec[s].cmd /\ rec'[s].gen = rec[s].gen
      /\ \/ rec'[s].state = rec[s].state
         \/ (rec[s].cmd # 0 /\ rec'[s].state \in {"healthy", "degraded"})
  BY <1>1, <1>3, <1>4 DEF TypeOK
<1>6. TypeOK'
  BY <1>1, <1>5 DEF TypeOK, Crosses, world, counts
<1>7. \A t \in Services \ {s} : Calm(t)
  BY <1>1, <1>5, StillIsCalm DEF world
<1>9. rec[s].cmd # 0 => rec[s].state # "unverified"
  BY Undoubted
<1>8. Calm(s)
  BY <1>1, <1>2, <1>5, <1>9 DEF Calm, Ages, Leased, Alive, world
<1> QED
  BY <1>1, <1>6, <1>7, <1>8 DEF Calmly

\* The monitor gives a process up: it is told to end.
LEMMA GiveUpOnStep ==
    ASSUME SupervisorInv, Crosses, NEW s \in Services, GiveUpOn(s)
    PROVE  Calmly
<1>1. /\ TypeOK /\ rec[s] \in Record /\ probe[s] # 0 /\ probe[s] \in {0} \cup Gens
      /\ exits < MaxExits /\ exits' = exits + 1
      /\ told' = [told EXCEPT ![s] = @ \cup {probe[s]}]
      /\ UNCHANGED <<attempt, op, closing, probe, lease, up, base, proc, event, ops, crashes, lost, doubted>>
  BY DEF GiveUpOn, SupervisorInv, TypeOK
<1>2. up /\ probe[s] \in Gens
  BY <1>1, Running
<1> DEFINE q == [rec[s] EXCEPT !.state = "degraded"]
<1>3. rec' = [rec EXCEPT ![s] = q] /\ rec[s].cmd # 0 /\ rec[s].state # "unverified"
  BY <1>1, Undoubted DEF GiveUpOn, Current
<1>4. q \in Record /\ q.cmd = rec[s].cmd /\ q.gen = rec[s].gen /\ q.state = "degraded"
  BY <1>1 DEF Record
<1> HIDE DEF q
<1>5. /\ rec' \in [Services -> Record] /\ rec'[s] = q
      /\ \A t \in Services \ {s} : rec'[t] = rec[t]
  BY <1>1, <1>3, <1>4 DEF TypeOK
<1>6. told' \in [Services -> SUBSET Gens] /\ \A t \in Services : told[t] \subseteq told'[t]
  BY <1>1, <1>2 DEF TypeOK
<1>7. exits' \in 0..MaxExits
  BY <1>1, CatalogAssumption DEF TypeOK
<1>8. TypeOK'
  BY <1>1, <1>5, <1>6, <1>7 DEF TypeOK, Crosses
<1>9. \A t \in Services \ {s} : Calm(t)
  BY <1>1, <1>5, <1>6, StillIsCalm
<1>10. Calm(s)
  BY <1>1, <1>2, <1>3, <1>4, <1>5, <1>6 DEF Calm, Ages, Leased, Alive
<1> QED
  BY <1>1, <1>8, <1>9, <1>10 DEF Calmly

\* A process is created; a stop that has the service in hand has met this start.
LEMMA SpawnStep ==
    ASSUME SupervisorInv, Crosses, \A t \in Services : Crossing(t)' => crossed'[t],
           NEW s \in Services, Spawn(s)
    PROVE  SupervisorInv'
<1> DEFINE g == rec[s].gen + 1
           q == [rec[s] EXCEPT !.desired = TRUE, !.stopping = FALSE,
                               !.state = "starting", !.gen = g, !.cmd = g]
           a == [attempt[s] EXCEPT !.pc = "lease", !.gen = g]
<1>1. /\ TypeOK /\ StopKnows /\ \A t \in Services : ServiceInv(t)
      /\ rec[s] \in Record /\ attempt[s] \in Attempt /\ attempt[s].pc = "ports"
      /\ UNCHANGED <<op, closing, probe, lease, up, base, event, told, counts, lost, doubted>>
  BY DEF Spawn, SupervisorInv, TypeOK
<1>2. /\ rec' = [rec EXCEPT ![s] = q] /\ attempt' = [attempt EXCEPT ![s] = a]
      /\ proc' = [proc EXCEPT ![s][g] = "up"] /\ rec[s].gen < MaxProcs
  BY DEF Spawn
<1>3. /\ rec[s].gen \in Nat /\ g \in Gens /\ g = rec[s].gen + 1 /\ g # 0
      /\ rec[s].gen \in {0} \cup Gens
  BY <1>1, <1>2, CatalogAssumption DEF Record, Gens
<1> HIDE DEF g
<1>4. /\ q \in Record /\ q.cmd = g /\ q.gen = g /\ q.state = "starting"
      /\ a \in Attempt /\ a.pc = "lease" /\ a.gen = g
  BY <1>1, <1>3 DEF Record, Attempt
<1> HIDE DEF q, a
<1>5. /\ rec' \in [Services -> Record] /\ rec'[s] = q
      /\ attempt' \in [Services -> Attempt] /\ attempt'[s] = a
      /\ \A t \in Services \ {s} : rec'[t] = rec[t] /\ attempt'[t] = attempt[t]
  BY <1>1, <1>2, <1>4 DEF TypeOK
<1>6. /\ proc' \in [Services -> [Gens -> {"none", "up", "serving", "orphan", "gone"}]]
      /\ \A t \in Services, h \in Gens : proc'[t][h] = proc[t][h] \/ (t = s /\ h = g)
  BY <1>1, <1>2, <1>3 DEF TypeOK
<1>7. TypeOK'
  BY <1>1, <1>5, <1>6 DEF TypeOK, Crosses, counts
<1>8. up /\ rec[s].cmd = 0 /\ rec[s].state # "unverified"
  BY <1>1, Running, Undoubted DEF SupervisorInv, ServiceInv, HandleIsNewest
<1>9. ASSUME NEW t \in Services \ {s}
      PROVE  ServiceInv(t)'
  <2>1. Calm(t)
    BY <1>1, <1>5, <1>6 DEF Calm, Ages, Leased, Alive
  <2> QED
    BY <1>1, <2>1, CalmStep
<1>10. StopKnows'
  <2>1. ASSUME NEW t \in Services
        PROVE  /\ \/ rec'[t].cmd \in {rec[t].cmd, 0} \/ crossed[t]
                  \/ ~(op.pc \notin {"idle", "next", "starting"} /\ t = Last(op.stop))
               /\ rec'[t].gen \in Nat /\ rec[t].gen <= rec'[t].gen
               /\ rec'[t].state = "unverified" => rec[t].state = "unverified"
               /\ \A h \in Gens : h <= rec[t].gen /\ Alive(t, h)' => Alive(t, h)
    <3>1. CASE t # s
      <4>1. rec[t].gen \in Nat
        BY <1>1, CatalogAssumption DEF TypeOK, Record, Gens
      <4> QED
        BY <1>5, <1>6, <3>1, <4>1 DEF Alive
    <3>2. CASE t = s
      <4>1. op.pc \notin {"idle", "next", "starting"} /\ s = Last(op.stop) => crossed[s]
        BY <1>1 DEF ServiceInv, Crossing, StopKnows, TypeOK, Operation
      <4>2. \A h \in Gens : h <= rec[s].gen => h # g
        BY <1>3, CatalogAssumption DEF Gens
      <4>3. rec'[s].gen = g /\ rec'[s].state = "starting"
        BY <1>4, <1>5
      <4> QED
        BY <1>3, <1>6, <3>2, <4>1, <4>2, <4>3 DEF Alive
    <3> QED
      BY <3>1, <3>2
  <2> QED
    BY <1>1, <2>1, KnownStays
<1>11. ServiceInv(s)'
  <2>1. /\ HandleIsNewest(s) /\ EveryProcessKnown(s) /\ DoubtIsShown(s)
        /\ (crossed[s] => crossed'[s])
    BY <1>1 DEF ServiceInv, Crosses
  <2>8. DoubtIsShown(s)'
    BY <1>1, <1>4, <1>5, <1>8, <2>1 DEF DoubtIsShown
  <2>0. base[s] \in Nat /\ Gens \subseteq Nat \ {0} /\ base[s] < g /\ event[s] \subseteq Gens
    BY <1>1, <1>3, <2>1, CatalogAssumption DEF TypeOK, Gens, HandleIsNewest
  <2>2. StateTellsTruth(s)'
    BY <1>3, <1>4, <1>5 DEF StateTellsTruth
  <2>3. proc[s][g] = "none" /\ g \notin event[s]
    BY <1>3, <2>1 DEF HandleIsNewest
  <2>4. HandleIsNewest(s)'
    <3>1. /\ rec'[s].cmd = g /\ rec'[s].gen = g /\ attempt'[s].pc = "lease" /\ attempt'[s].gen = g
      BY <1>4, <1>5
    <3>2. \A h \in Gens : h > g => proc'[s][h] = "none" /\ h \notin event[s]
      BY <1>3, <1>6, <2>0, <2>1 DEF HandleIsNewest
    <3>3. \A h \in event[s] : ~Alive(s, h)'
      BY <1>6, <2>0, <2>1, <2>3 DEF HandleIsNewest, Alive
    <3> QED
      BY <1>1, <1>3, <2>0, <3>1, <3>2, <3>3 DEF HandleIsNewest
  <2>5. DeadIsQuiet(s)'
    BY <1>1, <1>8 DEF DeadIsQuiet
  <2>6. LeaseIsWritten(s)'
    BY <1>4, <1>5 DEF LeaseIsWritten
  <2>7. EveryProcessKnown(s)'
    <3> SUFFICES ASSUME ~crossed'[s], NEW h \in Gens, Alive(s, h)'
                 PROVE  /\ h > base'[s] => Current(s, h)'
                        /\ up' /\ h <= base'[s] => h \in told'[s] \cup lost'[s] \/ h = doubted'[s]
                        /\ \/ h \in told'[s] \cup lost'[s] \/ h \in {doubted'[s], lease'[s]}
                           \/ attempt'[s].pc = "lease" /\ h = attempt'[s].gen
      BY DEF EveryProcessKnown
    <3>1. CASE h = g
      <4>1. Current(s, h)' /\ attempt'[s].pc = "lease" /\ h = attempt'[s].gen
        BY <1>4, <1>5, <3>1 DEF Current
      <4>2. ~(h <= base'[s])
        BY <1>1, <1>3, <2>0, <3>1
      <4> QED
        BY <4>1, <4>2
    <3>2. CASE h # g
      <4>1. Alive(s, h) /\ ~crossed[s]
        BY <1>6, <2>1, <3>2 DEF Alive
      <4>2. /\ ~(h > base[s])
            /\ h <= base[s] => h \in told[s] \cup lost[s] \/ h = doubted[s]
            /\ h \in told[s] \cup lost[s] \/ h \in {doubted[s], lease[s]}
        BY <1>1, <1>8, <2>0, <2>1, <4>1 DEF EveryProcessKnown, Current
      <4> QED
        BY <1>1, <4>2
    <3> QED
      BY <3>1, <3>2
  <2> QED
    BY <2>2, <2>4, <2>5, <2>6, <2>7, <2>8 DEF ServiceInv
<1> QED
  BY <1>7, <1>9, <1>10, <1>11 DEF SupervisorInv

-----------------------------------------------------------------------------
(* The handlers of closed processes, the timers and the processes. *)

\* The handle is dropped once its process has ended.
LEMMA HandleCloseStep ==
    ASSUME SupervisorInv, Crosses, \A t \in Services : Crossing(t)' => crossed'[t],
           NEW s \in Services, HandleClose(s)
    PROVE  SupervisorInv'
<1>1. PICK g \in event[s] :
        /\ event' = [event EXCEPT ![s] = @ \ {g}]
        /\ IF Current(s, g)
           THEN /\ rec' = [rec EXCEPT ![s].cmd = 0]
                /\ closing' = [closing EXCEPT ![s] = @ \cup {g}]
           ELSE UNCHANGED <<rec, closing>>
        /\ UNCHANGED <<attempt, op, probe, lease, up, base, proc, told, counts, lost, doubted>>
  BY DEF HandleClose
<1>2. /\ TypeOK /\ StopKnows /\ \A t \in Services : ServiceInv(t)
      /\ rec[s] \in Record /\ g \in Gens /\ g # 0 /\ ~Alive(s, g)
  BY CatalogAssumption DEF SupervisorInv, TypeOK, Gens, ServiceInv, HandleIsNewest
<1>3. /\ event' \in [Services -> SUBSET Gens] /\ \A t \in Services : event'[t] \subseteq event[t]
  BY <1>1, <1>2 DEF TypeOK
<1>4. CASE ~Current(s, g)
  <2>1. UNCHANGED <<rec, closing>>
    BY <1>1, <1>4
  <2>2. TypeOK'
    BY <1>1, <1>2, <1>3, <2>1 DEF TypeOK, Crosses, counts
  <2>3. \A t \in Services : Calm(t)
    BY <1>1, <1>3, <2>1 DEF Calm, Ages, Leased, Alive
  <2>4. Calmly
    BY <1>1, <2>2, <2>3 DEF Calmly
  <2> QED
    BY <2>4, CalmlyKeeps
<1>5. CASE Current(s, g)
  <2> DEFINE q == [rec[s] EXCEPT !.cmd = 0]
  <2>1. /\ rec' = [rec EXCEPT ![s] = q] /\ closing' = [closing EXCEPT ![s] = @ \cup {g}]
        /\ rec[s].cmd = g /\ rec[s].gen = g
    BY <1>1, <1>2, <1>5 DEF Current, ServiceInv, HandleIsNewest
  <2>2. q \in Record /\ q.cmd = 0 /\ q.gen = g /\ q.state = rec[s].state
    BY <1>2, <2>1 DEF Record
  <2> HIDE DEF q
  <2>3. /\ rec' \in [Services -> Record] /\ rec'[s] = q
        /\ closing' \in [Services -> SUBSET Gens] /\ g \in closing'[s]
        /\ \A t \in Services \ {s} : rec'[t] = rec[t] /\ closing'[t] = closing[t]
    BY <1>2, <2>1, <2>2 DEF TypeOK
  <2>4. TypeOK'
    BY <1>1, <1>2, <1>3, <2>3 DEF TypeOK, Crosses, counts
  <2>5. up
    BY <1>2, <2>1, Running
  <2>6. ASSUME NEW t \in Services \ {s}
        PROVE  ServiceInv(t)'
    <3>1. Calm(t)
      BY <1>1, <1>3, <2>3 DEF Calm, Ages, Leased, Alive
    <3> QED
      BY <1>1, <1>2, <3>1, CalmStep
  <2>7. StopKnows'
    <3>1. ASSUME NEW t \in Services
          PROVE  /\ rec'[t].cmd \in {rec[t].cmd, 0} /\ rec'[t].gen = rec[t].gen
                 /\ rec'[t].state = rec[t].state
                 /\ rec[t].gen \in Nat
                 /\ \A h \in Gens : Alive(t, h)' => Alive(t, h)
      <4>1. rec[t].gen \in Nat
        BY <1>2, CatalogAssumption DEF TypeOK, Record, Gens
      <4>2. /\ rec'[t].cmd \in {rec[t].cmd, 0} /\ rec'[t].gen = rec[t].gen
            /\ rec'[t].state = rec[t].state
        BY <2>1, <2>2, <2>3
      <4> QED
        BY <1>1, <4>1, <4>2 DEF Alive
    <3>2. \A t \in Services : rec'[t].gen \in Nat /\ rec[t].gen <= rec'[t].gen
      BY <3>1
    <3> QED
      BY <1>1, <1>2, <3>1, <3>2, KnownStays
  <2>8. ServiceInv(s)'
    <3>1. /\ StateTellsTruth(s) /\ HandleIsNewest(s) /\ EveryProcessKnown(s)
          /\ DoubtIsShown(s) /\ (crossed[s] => crossed'[s])
      BY <1>2 DEF ServiceInv, Crosses
    <3>7. DoubtIsShown(s)'
      BY <1>1, <1>2, <2>1, <2>2, <2>3, <3>1 DEF DoubtIsShown
    <3>2. StateTellsTruth(s)'
      BY <2>2, <2>3 DEF StateTellsTruth
    <3>3. HandleIsNewest(s)'
      BY <1>1, <1>3, <2>1, <2>2, <2>3, <3>1 DEF HandleIsNewest, Alive
    <3>4. DeadIsQuiet(s)'
      BY <1>1, <2>5 DEF DeadIsQuiet
    <3>5. LeaseIsWritten(s)'
      BY <1>1, <2>2, <2>3, <3>1 DEF LeaseIsWritten, HandleIsNewest, Current
    <3>6. EveryProcessKnown(s)'
      <4> SUFFICES ASSUME ~crossed'[s], NEW h \in Gens, Alive(s, h)'
                   PROVE  /\ h > base'[s] => Current(s, h)'
                          /\ up' /\ h <= base'[s] => h \in told'[s] \cup lost'[s] \/ h = doubted'[s]
                          /\ \/ h \in told'[s] \cup lost'[s] \/ h \in {doubted'[s], lease'[s]}
                             \/ attempt'[s].pc = "lease" /\ h = attempt'[s].gen
        BY DEF EveryProcessKnown
      <4>1. ~crossed[s] /\ Alive(s, h) /\ h # g
        BY <1>1, <1>2, <3>1 DEF Alive
      <4>2. ~(h > base[s])
        BY <2>1, <3>1, <4>1 DEF EveryProcessKnown, Current
      <4> QED
        BY <1>1, <3>1, <4>1, <4>2 DEF EveryProcessKnown
    <3> QED
      BY <3>2, <3>3, <3>4, <3>5, <3>6, <3>7 DEF ServiceInv
  <2> QED
    BY <2>4, <2>6, <2>7, <2>8 DEF SupervisorInv
<1> QED
  BY <1>4, <1>5

\* What a restart that is due writes.
LEMMA ScheduleFields ==
    ASSUME NEW r \in Record, NEW g \in Gens
    PROVE  LET q == ScheduleRestart(r, g)
           IN  /\ q \in Record /\ q.cmd = r.cmd /\ q.gen = r.gen
               /\ q.state \in {"failed", "restart_wait"}
<1>1. /\ r.fails \in 0..Budget + 1 /\ r.fails \in Nat /\ Budget \in Nat
      /\ Budget + 1 \in 0..Budget + 1
  BY CatalogAssumption DEF Record
<1>2. CASE r.fails >= Budget
  BY <1>1, <1>2 DEF ScheduleRestart, Record
<1>3. CASE ~(r.fails >= Budget)
  <2>1. r.fails + 1 \in 0..Budget + 1
    BY <1>1, <1>3
  <2> QED
    BY <1>1, <1>3, <2>1 DEF ScheduleRestart, Record
<1> QED
  BY <1>2, <1>3

\* The handler writes the leases and decides: stopped, restarted, or replaced already.
LEMMA AfterCloseStep ==
    ASSUME SupervisorInv, Crosses, NEW s \in Services, AfterClose(s)
    PROVE  Calmly
<1> DEFINE asked == [rec[s] EXCEPT !.state = "stopped", !.stopping = FALSE]
           q(g) == IF rec[s].gen # g \/ rec[s].cmd # 0 THEN rec[s]
                   ELSE IF rec[s].stopping \/ ~rec[s].desired THEN asked
                   ELSE ScheduleRestart(rec[s], g)
<1>1. PICK g \in closing[s] :
        /\ closing' = [closing EXCEPT ![s] = @ \ {g}]
        /\ lease' = [t \in Services |-> rec[t].cmd]
        /\ rec' = [rec EXCEPT ![s] = q(g)]
        /\ UNCHANGED <<attempt, op, probe, up, world, counts, lost, doubted>>
  BY DEF AfterClose, Leases
<1>2. TypeOK /\ rec[s] \in Record /\ g \in Gens /\ up /\ rec[s].state # "unverified"
  BY Running, Undoubted DEF SupervisorInv, TypeOK
<1>3. asked \in Record /\ asked.cmd = rec[s].cmd /\ asked.gen = rec[s].gen /\ asked.state = "stopped"
  BY <1>2 DEF Record
<1> HIDE DEF asked
<1>4. /\ q(g) \in Record /\ q(g).cmd = rec[s].cmd /\ q(g).gen = rec[s].gen
      /\ \/ (q(g) = rec[s] /\ (rec[s].gen # g \/ rec[s].cmd # 0))
         \/ (rec[s].cmd = 0 /\ q(g).state \in {"stopped", "failed", "restart_wait"})
  BY <1>2, <1>3, ScheduleFields
<1> HIDE DEF q
<1>5. /\ rec' \in [Services -> Record] /\ rec'[s] = q(g)
      /\ closing' \in [Services -> SUBSET Gens] /\ closing'[s] = closing[s] \ {g}
      /\ \A t \in Services \ {s} : rec'[t] = rec[t] /\ closing'[t] = closing[t]
  BY <1>1, <1>2, <1>4 DEF TypeOK
<1>6. lease' \in [Services -> {0} \cup Gens] /\ \A t \in Services : lease'[t] = rec[t].cmd
  BY <1>1, <1>2 DEF TypeOK, Record
<1>7. TypeOK'
  BY <1>1, <1>2, <1>5, <1>6 DEF TypeOK, Crosses, world, counts
<1>8. \A t \in Services \ {s} : Calm(t)
  BY <1>1, <1>2, <1>5, <1>6 DEF Calm, Ages, Leased, Alive, world
<1>9. Calm(s)
  BY <1>1, <1>2, <1>4, <1>5, <1>6 DEF Calm, Ages, Leased, Alive, world
<1> QED
  BY <1>1, <1>7, <1>8, <1>9 DEF Calmly

\* A restart timer fires: it begins a start, joins one or finds none wanted.
LEMMA TimerStep ==
    ASSUME SupervisorInv, Crosses, NEW s \in Services, Timer(s)
    PROVE  Calmly
<1> DEFINE g == rec[s].timer
           a == [attempt[s] EXCEPT !.by = g]
           b == Fresh(s, TRUE, g)
<1>1. /\ TypeOK /\ rec[s] \in Record /\ attempt[s] \in Attempt /\ g \in {0} \cup Gens /\ up
      /\ UNCHANGED <<op, closing, probe, lease, up, world, counts, lost, doubted>>
  BY Running DEF Timer, SupervisorInv, TypeOK, Record
<1>2. /\ rec' = [rec EXCEPT ![s] = Untimed(rec[s])]
      /\ \/ attempt' = attempt
         \/ attempt' = [attempt EXCEPT ![s] = a]
         \/ /\ rec[s].cmd = 0 /\ rec[s].state # "unverified"
            /\ attempt' = [attempt EXCEPT ![s] = b]
  BY DEF Timer, Untimed
<1>3. /\ a \in Attempt /\ a.pc = attempt[s].pc /\ a.gen = attempt[s].gen
      /\ b \in Attempt /\ b.pc = "deps"
  <2> HIDE DEF g
  <2> QED
    BY <1>1, Begun DEF Attempt
<1> HIDE DEF a, b
<1>4. /\ rec' \in [Services -> Record] /\ rec'[s] = Untimed(rec[s])
      /\ \A t \in Services \ {s} : rec'[t] = rec[t]
  BY <1>1, <1>2, UntimedFields DEF TypeOK
<1>5. /\ attempt' \in [Services -> Attempt]
      /\ \A t \in Services \ {s} : attempt'[t] = attempt[t]
      /\ \/ (attempt'[s].pc = attempt[s].pc /\ attempt'[s].gen = attempt[s].gen)
         \/ /\ rec[s].cmd = 0 /\ rec[s].state # "unverified"
            /\ attempt'[s].pc = "deps"
  BY <1>1, <1>2, <1>3 DEF TypeOK
<1>6. TypeOK'
  BY <1>1, <1>4, <1>5 DEF TypeOK, Crosses, world, counts
<1>7. \A t \in Services \ {s} : Calm(t)
  BY <1>1, <1>4, <1>5, StillIsCalm DEF world
<1>8. Calm(s)
  BY <1>1, <1>4, <1>5, UntimedFields DEF Calm, Ages, Leased, Alive, world
<1> QED
  BY <1>1, <1>6, <1>7, <1>8 DEF Calmly

\* Failures are forgotten.
LEMMA ForgetStep ==
    ASSUME SupervisorInv, Crosses, NEW s \in Services, Forget(s)
    PROVE  Calmly
<1>1. /\ TypeOK /\ rec[s] \in Record /\ rec[s].fails \in 0..Budget + 1
      /\ UNCHANGED <<attempt, op, closing, probe, lease, up, world, counts, lost, doubted>>
  BY DEF Forget, SupervisorInv, TypeOK, Record
<1>2. PICK n \in 0..rec[s].fails - 1 : rec' = [rec EXCEPT ![s] = [rec[s] EXCEPT !.fails = n]]
  BY DEF Forget
<1>3. n \in 0..Budget + 1
  BY <1>1, CatalogAssumption
<1> DEFINE q == [rec[s] EXCEPT !.fails = n]
<1>4. /\ q \in Record /\ q.cmd = rec[s].cmd /\ q.gen = rec[s].gen /\ q.state = rec[s].state
      /\ q.timer = rec[s].timer
  BY <1>1, <1>3 DEF Record
<1>5. rec' = [rec EXCEPT ![s] = q]
  BY <1>2
<1> HIDE DEF q
<1>6. /\ rec' \in [Services -> Record] /\ rec'[s] = q
      /\ \A t \in Services \ {s} : rec'[t] = rec[t]
  BY <1>1, <1>4, <1>5 DEF TypeOK
<1>7. TypeOK'
  BY <1>1, <1>6 DEF TypeOK, Crosses, world, counts
<1>8. \A t \in Services \ {s} : Calm(t)
  BY <1>1, <1>6, StillIsCalm DEF world
<1>9. Calm(s)
  BY <1>1, <1>4, <1>6 DEF Calm, Ages, Leased, Alive, world
<1> QED
  BY <1>1, <1>7, <1>8, <1>9 DEF Calmly

\* A process binds its port or ends, or what it left behind ends.
LEMMA ProcessStep ==
    ASSUME SupervisorInv, Crosses, NEW s \in Services, NEW g \in Gens,
           Bind(s, g) \/ Exit(s, g) \/ OrphanEnds(s, g)
    PROVE  Calmly
<1>1. /\ TypeOK /\ proc[s][g] # "none"
      /\ UNCHANGED <<rec, attempt, op, closing, probe, lease, up, base, told, ops, crashes, lost, doubted>>
  BY DEF Bind, Exit, OrphanEnds, SupervisorInv, Alive, counts
<1>2. exits' \in 0..MaxExits
  BY <1>1, CatalogAssumption DEF Bind, Exit, OrphanEnds, TypeOK, counts
<1>3. PICK kind \in {"serving", "orphan", "gone"} :
         /\ proc' = [proc EXCEPT ![s] = [proc[s] EXCEPT ![g] = kind]]
         /\ kind = "serving" => Alive(s, g)
         /\ \/ event' = event
            \/ (Alive(s, g) /\ kind # "serving" /\ event' = [event EXCEPT ![s] = @ \cup {g}])
  BY DEF Bind, Exit, OrphanEnds, Alive
<1>4. /\ proc' \in [Services -> [Gens -> {"none", "up", "serving", "orphan", "gone"}]]
      /\ proc'[s][g] = kind
      /\ \A t \in Services, h \in Gens : proc'[t][h] = proc[t][h] \/ (t = s /\ h = g)
  BY <1>1, <1>3 DEF TypeOK
<1>5. /\ event' \in [Services -> SUBSET Gens]
      /\ \A t \in Services : \A h \in event'[t] :
            h \in event[t] \/ (t = s /\ h = g /\ Alive(s, g) /\ kind # "serving")
  <2>1. CASE event' = event
    BY <1>1, <2>1 DEF TypeOK
  <2>2. CASE Alive(s, g) /\ kind # "serving" /\ event' = [event EXCEPT ![s] = @ \cup {g}]
    BY <1>1, <2>2 DEF TypeOK
  <2> QED
    BY <1>3, <2>1, <2>2
<1>6. TypeOK'
  BY <1>1, <1>2, <1>4, <1>5 DEF TypeOK, Crosses
<1>7. ASSUME NEW t \in Services
      PROVE  Ages(t)
  BY <1>1, <1>3, <1>4, <1>5 DEF Ages, Alive
<1>8. \A t \in Services : Calm(t)
  BY <1>1, <1>7 DEF Calm, Leased
<1> QED
  BY <1>1, <1>6, <1>8 DEF Calmly

-----------------------------------------------------------------------------
(* The supervisor dies and comes back. *)

\* A supervisor that has died knows of no process; the lease file names those that were
\* there long enough, the others are lost.
LEMMA CrashStep ==
    ASSUME SupervisorInv, Crosses, Crash
    PROVE  SupervisorInv'
<1> DEFINE q(t) == [Stopped EXCEPT !.gen = rec[t].gen]
<1>1. /\ TypeOK /\ \A t \in Services : ServiceInv(t)
      /\ rec' = [t \in Services |-> q(t)]
      /\ base' = [t \in Services |-> rec[t].gen]
      /\ attempt' = [t \in Services |-> NoAttempt]
      /\ op' = IdleOp /\ up' = FALSE
      /\ closing' = [t \in Services |-> {}] /\ probe' = [t \in Services |-> 0]
      /\ event' = [t \in Services |-> {}]
      /\ crashes < MaxCrashes /\ crashes' = crashes + 1
      /\ lost' = [t \in Services |-> lost[t] \cup
             {g \in Gens : g = doubted[t] \/ (attempt[t].pc = "lease" /\ g = attempt[t].gen)}]
      /\ doubted' = [t \in Services |-> 0]
      /\ UNCHANGED <<lease, proc, told, ops, exits>>
  BY DEF SupervisorInv, Crash
<1>2. ASSUME NEW t \in Services
      PROVE  /\ q(t) \in Record /\ q(t).cmd = 0 /\ q(t).gen = rec[t].gen /\ q(t).timer = 0
             /\ q(t).state = "stopped" /\ rec[t].gen \in {0} \cup Gens
  <2>1. rec[t].gen \in {0} \cup Gens /\ 0 \in 0..Budget + 1
    BY <1>1, CatalogAssumption DEF TypeOK, Record
  <2> QED
    BY <2>1 DEF Stopped, Record
<1> HIDE DEF q
<1>3. /\ NoAttempt \in Attempt /\ NoAttempt.pc = "none" /\ IdleOp \in Operation
      /\ IdleOp.pc = "idle"
  BY DEF NoAttempt, Attempt, IdleOp, Operation
<1>4. crashes' \in 0..MaxCrashes
  BY <1>1, CatalogAssumption DEF TypeOK
<1>5. TypeOK'
  BY <1>1, <1>2, <1>3, <1>4 DEF TypeOK, Crosses
<1>6. ASSUME NEW t \in Services
      PROVE  ServiceInv(t)'
  <2>1. /\ HandleIsNewest(t) /\ EveryProcessKnown(t) /\ (crossed[t] => crossed'[t])
        /\ rec[t].gen \in Nat /\ Gens \subseteq Nat \ {0}
    BY <1>1, <1>2, CatalogAssumption DEF ServiceInv, Crosses, Gens
  <2>2. ~Crossing(t)'
    BY <1>1, <1>3 DEF Crossing
  <2>3. StateTellsTruth(t)' /\ LeaseIsWritten(t)' /\ DeadIsQuiet(t)'
    BY <1>1, <1>2, <1>3 DEF StateTellsTruth, LeaseIsWritten, DeadIsQuiet
  <2>4. HandleIsNewest(t)'
    BY <1>1, <1>2, <1>3, <2>1 DEF HandleIsNewest
  <2>5. EveryProcessKnown(t)'
    <3> SUFFICES ASSUME ~crossed'[t], NEW g \in Gens, Alive(t, g)'
                 PROVE  /\ g > base'[t] => Current(t, g)'
                        /\ up' /\ g <= base'[t] => g \in told'[t] \cup lost'[t] \/ g = doubted'[t]
                        /\ \/ g \in told'[t] \cup lost'[t] \/ g \in {doubted'[t], lease'[t]}
                           \/ attempt'[t].pc = "lease" /\ g = attempt'[t].gen
      BY DEF EveryProcessKnown
    <3>1. ~crossed[t] /\ Alive(t, g)
      BY <1>1, <2>1 DEF Alive
    <3>2. ~(g > rec[t].gen)
      BY <2>1, <3>1 DEF HandleIsNewest, Alive
    <3>3. /\ lost[t] \subseteq lost'[t] /\ told'[t] = told[t] /\ lease'[t] = lease[t]
          /\ g = doubted[t] \/ (attempt[t].pc = "lease" /\ g = attempt[t].gen) => g \in lost'[t]
      BY <1>1
    <3>4. g \in told'[t] \cup lost'[t] \/ g = lease'[t]
      BY <2>1, <3>1, <3>3 DEF EveryProcessKnown
    <3> QED
      BY <1>1, <3>2, <3>4
  <2>6. DoubtIsShown(t)'
    BY <1>1, <1>2 DEF DoubtIsShown
  <2> QED
    BY <2>2, <2>3, <2>4, <2>5, <2>6 DEF ServiceInv
<1>7. StopKnows'
  BY <1>1, NothingToKnow
<1> QED
  BY <1>5, <1>6, <1>7 DEF SupervisorInv

\* What the lease file names is told to end, or its service is in conflict because of it.
LEMMA RecoverStep ==
    ASSUME SupervisorInv, Crosses, \A t \in Services : Crossing(t)' => crossed'[t],
           RecoverLeases
    PROVE  SupervisorInv'
<1> DEFINE q(t) == [rec[t] EXCEPT !.state = "unverified"]
<1>1. PICK unsure \in SUBSET {s \in Services : lease[s] # 0} :
        /\ told' = [t \in Services |-> IF t \in unsure THEN told[t]
               ELSE told[t] \cup {g \in Gens : g = lease[t] /\ Alive(t, g)}]
        /\ rec' = [t \in Services |-> IF t \in unsure THEN q(t) ELSE rec[t]]
        /\ doubted' = [t \in Services |-> IF t \in unsure THEN lease[t] ELSE 0]
  BY DEF RecoverLeases
<1>2. /\ TypeOK /\ StopKnows /\ \A t \in Services : ServiceInv(t)
      /\ ~up /\ up' = TRUE
      /\ lease' = [t \in Services |-> 0]
      /\ UNCHANGED <<attempt, op, closing, probe, base, proc, event, counts, lost>>
  BY DEF SupervisorInv, RecoverLeases
<1>3. ASSUME NEW t \in Services
      PROVE  /\ q(t) \in Record /\ q(t).cmd = rec[t].cmd /\ q(t).gen = rec[t].gen
             /\ q(t).state = "unverified" /\ rec[t] \in Record
  <2>1. rec[t] \in Record
    BY <1>2 DEF TypeOK
  <2> QED
    BY <2>1 DEF Record, InConflict
<1> HIDE DEF q
<1>4. /\ rec' \in [Services -> Record] /\ doubted' \in [Services -> {0} \cup Gens]
      /\ told' \in [Services -> SUBSET Gens]
  BY <1>1, <1>2, <1>3 DEF TypeOK
<1>5. TypeOK'
  BY <1>2, <1>4 DEF TypeOK, Crosses, counts
<1>6. ASSUME NEW t \in Services
      PROVE  ServiceInv(t)'
  <2>1. /\ StateTellsTruth(t) /\ HandleIsNewest(t) /\ EveryProcessKnown(t) /\ DeadIsQuiet(t)
        /\ DoubtIsShown(t) /\ (crossed[t] => crossed'[t]) /\ (Crossing(t)' => crossed'[t])
    BY <1>2 DEF ServiceInv, Crosses
  <2>2. /\ rec[t].cmd = 0 /\ attempt[t].pc = "none" /\ closing[t] = {}
        /\ rec[t].state # "unverified" /\ doubted[t] = 0
    BY <1>2, <2>1 DEF DeadIsQuiet, DoubtIsShown
  <2>3. /\ rec'[t].cmd = 0 /\ rec'[t].gen = rec[t].gen
        /\ \/ t \in unsure /\ rec'[t].state = "unverified"
           \/ t \notin unsure /\ rec'[t].state = rec[t].state
    BY <1>1, <1>3, <2>2
  <2>4. StateTellsTruth(t)'
    BY <1>2, <2>1, <2>2, <2>3 DEF StateTellsTruth
  <2>5. HandleIsNewest(t)'
    BY <1>2, <2>1, <2>2, <2>3 DEF HandleIsNewest, Alive
  <2>6. LeaseIsWritten(t)' /\ DeadIsQuiet(t)'
    BY <1>2, <2>2 DEF LeaseIsWritten, DeadIsQuiet
  <2>7. EveryProcessKnown(t)'
    <3> SUFFICES ASSUME ~crossed'[t], NEW g \in Gens, Alive(t, g)'
                 PROVE  /\ g > base'[t] => Current(t, g)'
                        /\ g \in told'[t] \cup lost'[t] \/ g = doubted'[t]
      BY DEF EveryProcessKnown
    <3>1. ~crossed[t] /\ Alive(t, g) /\ g # 0
      BY <1>2, <2>1, CatalogAssumption DEF Alive, Gens
    <3>2. /\ g > base[t] => Current(t, g)
          /\ g \in told[t] \cup lost[t] \/ g = lease[t]
      BY <2>1, <2>2, <3>1 DEF EveryProcessKnown
    <3>3. g \in told'[t] \cup lost'[t] \/ g = doubted'[t]
      BY <1>1, <1>2, <3>1, <3>2
    <3> QED
      BY <1>2, <2>2, <2>3, <3>2, <3>3 DEF Current
  <2>8. DoubtIsShown(t)'
    BY <1>1, <1>2, <2>2, <2>3 DEF DoubtIsShown
  <2> QED
    BY <2>1, <2>4, <2>5, <2>6, <2>7, <2>8 DEF ServiceInv
<1>7. op' = IdleOp
  <2>1. PICK s \in Services : TRUE
    BY CatalogAssumption
  <2> QED
    BY <1>2, <2>1 DEF ServiceInv, DeadIsQuiet, StopKnows
<1>8. StopKnows'
  BY <1>7, NothingToKnow
<1> QED
  BY <1>5, <1>6, <1>8 DEF SupervisorInv

\* A recovery that can read nothing leaves what the lease file names to itself.
LEMMA RecoverNothingStep ==
    ASSUME SupervisorInv, Crosses, \A t \in Services : Crossing(t)' => crossed'[t],
           RecoverNothing
    PROVE  SupervisorInv'
<1>1. /\ TypeOK /\ StopKnows /\ \A t \in Services : ServiceInv(t)
      /\ ~up /\ up' = TRUE
      /\ lost' = [t \in Services |-> lost[t] \cup {g \in Gens : g = lease[t] /\ Alive(t, g)}]
      /\ UNCHANGED <<rec, attempt, op, closing, probe, lease, base, proc, event, told, counts, doubted>>
  BY DEF SupervisorInv, RecoverNothing, world
<1>2. TypeOK'
  BY <1>1 DEF TypeOK, Crosses, counts
<1>3. ASSUME NEW t \in Services
      PROVE  ServiceInv(t)'
  <2>1. /\ StateTellsTruth(t) /\ HandleIsNewest(t) /\ EveryProcessKnown(t) /\ DeadIsQuiet(t)
        /\ DoubtIsShown(t) /\ (crossed[t] => crossed'[t]) /\ (Crossing(t)' => crossed'[t])
    BY <1>1 DEF ServiceInv, Crosses
  <2>2. attempt[t].pc = "none" /\ rec[t].state # "unverified" /\ doubted[t] = 0
    BY <1>1, <2>1 DEF DeadIsQuiet, DoubtIsShown
  <2>3. StateTellsTruth(t)' /\ HandleIsNewest(t)'
    BY <1>1, <2>1 DEF StateTellsTruth, HandleIsNewest, Alive
  <2>4. LeaseIsWritten(t)' /\ DeadIsQuiet(t)' /\ DoubtIsShown(t)'
    BY <1>1, <2>2 DEF LeaseIsWritten, DeadIsQuiet, DoubtIsShown
  <2>5. EveryProcessKnown(t)'
    <3> SUFFICES ASSUME ~crossed'[t], NEW g \in Gens, Alive(t, g)'
                 PROVE  /\ g > base'[t] => Current(t, g)'
                        /\ g \in told'[t] \cup lost'[t]
      BY DEF EveryProcessKnown
    <3>1. ~crossed[t] /\ Alive(t, g) /\ g # 0
      BY <1>1, <2>1, CatalogAssumption DEF Alive, Gens
    <3>2. /\ g > base[t] => Current(t, g)
          /\ g \in told[t] \cup lost[t] \/ g = lease[t]
      BY <2>1, <2>2, <3>1 DEF EveryProcessKnown
    <3>3. g \in told'[t] \cup lost'[t]
      BY <1>1, <3>1, <3>2
    <3> QED
      BY <1>1, <3>2, <3>3 DEF Current
  <2> QED
    BY <2>1, <2>3, <2>4, <2>5 DEF ServiceInv
<1>4. op' = IdleOp
  <2>1. PICK s \in Services : TRUE
    BY CatalogAssumption
  <2> QED
    BY <1>1, <2>1 DEF ServiceInv, DeadIsQuiet, StopKnows
<1>5. StopKnows'
  BY <1>4, NothingToKnow
<1> QED
  BY <1>2, <1>3, <1>5 DEF SupervisorInv

-----------------------------------------------------------------------------
(* The theorems. *)

\* At the start no process and no operation is there.
LEMMA SupervisorStart == Init => SupervisorInv
<1> SUFFICES ASSUME Init
             PROVE  SupervisorInv
  OBVIOUS
<1>1. /\ Stopped \in Record /\ NoAttempt \in Attempt /\ IdleOp \in Operation
      /\ NoAttempt.pc = "none" /\ IdleOp.pc = "idle"
      /\ Stopped.state = "stopped" /\ Stopped.cmd = 0 /\ Stopped.gen = 0 /\ Stopped.timer = 0
  BY CatalogAssumption DEF Stopped, Record, NoAttempt, Attempt, IdleOp, Operation
<1>2. 0 \in 0..MaxOps /\ 0 \in 0..MaxExits /\ 0 \in 0..MaxCrashes
  BY CatalogAssumption
<1>3. TypeOK
  BY <1>1, <1>2 DEF Init, TypeOK
<1>4. StopKnows
  BY <1>1 DEF Init, StopKnows
<1>5. ASSUME NEW s \in Services
      PROVE  ServiceInv(s)
  <2>1. ~Crossing(s) /\ StateTellsTruth(s) /\ DeadIsQuiet(s) /\ LeaseIsWritten(s)
    BY <1>1 DEF Init, Crossing, StateTellsTruth, DeadIsQuiet, LeaseIsWritten
  <2>2. HandleIsNewest(s) /\ EveryProcessKnown(s) /\ DoubtIsShown(s)
    BY <1>1 DEF Init, HandleIsNewest, EveryProcessKnown, DoubtIsShown, Alive
  <2> QED
    BY <2>1, <2>2 DEF ServiceInv
<1> QED
  BY <1>3, <1>4, <1>5 DEF SupervisorInv

\* Every step keeps the invariant.
LEMMA SupervisorStep == SupervisorInv /\ [Next]_vars => SupervisorInv'
<1> SUFFICES ASSUME SupervisorInv, [Next]_vars
             PROVE  SupervisorInv'
  OBVIOUS
<1>1. CASE UNCHANGED vars
  <2>1. TypeOK' /\ StopKnows'
    BY <1>1 DEF SupervisorInv, TypeOK, StopKnows, Alive, vars
  <2>2. ASSUME NEW s \in Services
        PROVE  ServiceInv(s)'
    BY <1>1 DEF SupervisorInv, ServiceInv, Crossing, StateTellsTruth, HandleIsNewest, DeadIsQuiet,
                EveryProcessKnown, LeaseIsWritten, DoubtIsShown, Alive, Current, vars
  <2> QED
    BY <2>1, <2>2 DEF SupervisorInv
<1>2. CASE Next
  <2>1. Step /\ crossed' = [s \in Services |-> crossed[s] \/ Crossing(s)']
    BY <1>2 DEF Next
  <2>2. \A s \in Services : Crossing(s)' => crossed'[s]
    BY <2>1
  <2>3. Crosses
    <3>1. \A s \in Services : crossed[s] => crossed'[s]
      BY <2>1
    <3>2. \A s \in Services : crossed'[s] \in BOOLEAN
      BY <2>1 DEF SupervisorInv, TypeOK, Crossing
    <3>3. crossed' \in [Services -> BOOLEAN]
      <4>1. DOMAIN crossed' = Services /\ crossed' = [s \in Services |-> crossed'[s]]
        BY <2>1
      <4> QED
        BY <3>2, <4>1
    <3> QED
      BY <3>1, <3>3 DEF Crosses
  <2>4. ASSUME Calmly PROVE SupervisorInv'
    BY <2>2, <2>3, <2>4, CalmlyKeeps
  <2>5. CASE \E t \in Services \cup {All} : StartTarget(t) \/ RestartTarget(t) \/ StopTarget(t, FALSE)
    BY <2>3, <2>4, <2>5, TargetSteps
  <2>6. CASE StopTarget(All, TRUE)
    BY <2>3, <2>4, <2>6, TargetSteps
  <2>7. CASE Operates
    <3>1. CASE Released
      BY <2>2, <2>3, <2>4, <3>1, ConfirmedStep, ReleasedStep DEF Released
    <3>2. CASE StopSingle \/ Kill \/ Closed \/ CloseTimeout
      BY <2>3, <2>4, <3>2, StopSingleStep, KillStep, ClosedStep, CloseTimeoutStep
    <3>3. CASE StillHeld \/ LeaseStop \/ StartNext \/ Done
      BY <2>3, <2>4, <3>3, StillHeldStep, LeaseStopStep, StartNextStep, DoneStep
    <3> QED
      BY <2>7, <3>1, <3>2, <3>3 DEF Operates
  <2>8. ASSUME NEW s \in Services, Starts(s)
        PROVE  SupervisorInv'
    <3>1. CASE Spawn(s)
      BY <2>2, <2>3, <3>1, SpawnStep
    <3>2. CASE DepsHealthy(s) \/ NeedDep(s) \/ PortTaken(s)
      BY <2>3, <2>4, <3>2, DepsHealthyStep, NeedDepStep, PortTakenStep
    <3>3. CASE LeaseStart(s) \/ Superseded(s) \/ Healthy(s)
      BY <2>3, <2>4, <3>3, LeaseStartStep, SupersededStep, HealthyStep
    <3> QED
      BY <2>8, <3>1, <3>2, <3>3 DEF Starts
  <2>9. ASSUME NEW s \in Services, Handles(s)
        PROVE  SupervisorInv'
    <3>1. CASE HandleClose(s)
      BY <2>2, <2>3, <3>1, HandleCloseStep
    <3>2. CASE AfterClose(s) \/ Timer(s)
      BY <2>3, <2>4, <3>2, AfterCloseStep, TimerStep
    <3> QED
      BY <2>9, <3>1, <3>2 DEF Handles
  <2>10. ASSUME NEW s \in Services, StartTimeout(s) \/ Monitor(s) \/ GiveUpOn(s) \/ Forget(s)
         PROVE  SupervisorInv'
    BY <2>3, <2>4, <2>10, StartTimeoutStep, MonitorStep, GiveUpOnStep, ForgetStep
  <2>11. ASSUME NEW s \in Services, NEW g \in Gens, Bind(s, g) \/ Exit(s, g) \/ OrphanEnds(s, g)
         PROVE  SupervisorInv'
    BY <2>3, <2>4, <2>11, ProcessStep
  <2>12. CASE Crash \/ RecoverLeases \/ RecoverNothing
    BY <2>2, <2>3, <2>12, CrashStep, RecoverStep, RecoverNothingStep
  <2> QED
    BY <2>1, <2>5, <2>6, <2>7, <2>8, <2>9, <2>10, <2>11, <2>12 DEF Step
<1> QED
  BY <1>1, <1>2

\* The invariant, in every state: what a service is said to be agrees with the handle of
\* its process, the handle is that of the newest one, every process is known, told to end,
\* in doubt or lost, the lease file names it before it is probed, a lease in doubt shows as a
\* conflict, and a stop knows what it has seen.
THEOREM SupervisorTheorem == Spec => []SupervisorInv
<1> QED
  BY SupervisorStart, SupervisorStep, PTL DEF Spec

\* No process of any service runs unwatched, whatever operations, restart timers, exits
\* and crashes of the supervisor have met, and whether the leases could be read and verified
\* or not: one that is neither held, told to end nor shown in conflict is of an earlier
\* supervisor, and was lost with its lease.
THEOREM StrayTheorem == Spec => []NoStrayProcess
<1>1. SupervisorInv => NoStrayProcess
  <2> SUFFICES ASSUME SupervisorInv, up, NEW s \in Services, ~crossed[s], NEW g \in Gens, Alive(s, g)
               PROVE  \/ Current(s, g) \/ g \in told[s]
                      \/ g = doubted[s] /\ rec[s].state = "unverified"
                      \/ g <= base[s] /\ g \in lost[s]
    BY DEF NoStrayProcess
  <2>1. EveryProcessKnown(s) /\ DoubtIsShown(s) /\ base[s] \in Nat /\ g \in Nat \ {0}
    BY CatalogAssumption DEF SupervisorInv, ServiceInv, TypeOK, Gens
  <2> QED
    BY <2>1 DEF EveryProcessKnown, DoubtIsShown
<1> QED
  BY <1>1, SupervisorTheorem, PTL

\* Only a stop that has found no handle, or has given it up, reports a service as stopped.
LEMMA ReportStep ==
    ASSUME SupervisorInv, Step, NEW s \in Services, ReportsStopped(s), ~crossed[s]
    PROVE  rec[s].cmd = 0
<1>1. /\ s \in op.stop /\ op'.pc = "next" /\ s \notin op'.stop /\ op' # op
      /\ TypeOK /\ StopKnows /\ op \in Operation /\ op.stop \in SUBSET Services
  BY DEF ReportsStopped, SupervisorInv, TypeOK, Operation
<1>2. op.pc # "idle" /\ op.pc # "starting" /\ op' # IdleOp
  BY <1>1 DEF StopKnows, IdleOp
<1>3. \A t : StopDone(t).stop = op.stop \ {t}
  BY <1>1 DEF StopDone, Operation
<1>4. CASE Operates
  <2>1. CASE StopSingle
    <3>1. op' = StopDone(Last(op.stop)) /\ rec[Last(op.stop)].cmd = 0
      <4>1. PICK l \in Services : l = Last(op.stop) /\ l \in op.stop
        BY StopsLast, <2>1 DEF StopSingle
      <4>2. rec[l] \in Record
        BY <1>1 DEF TypeOK
      <4> DEFINE r == [rec[l] EXCEPT !.desired = FALSE, !.timer = 0]
      <4>3. r.cmd = rec[l].cmd
        BY <4>2 DEF Record
      <4>4. \/ op' = [op EXCEPT !.pc = "kill", !.seen = r.cmd]
            \/ (r.cmd = 0 /\ (op' = StopDone(l) \/ op' = [op EXCEPT !.pc = "confirm"]))
        BY <2>1, <4>1 DEF StopSingle
      <4> HIDE DEF r
      <4>5. \A n : /\ [op EXCEPT !.pc = "kill", !.seen = n].pc = "kill"
                   /\ [op EXCEPT !.pc = "confirm"].pc = "confirm"
        BY <1>1 DEF Operation
      <4>6. op' = StopDone(l) /\ r.cmd = 0
        BY <1>1, <4>4, <4>5
      <4> QED
        BY <4>1, <4>3, <4>6
    <3> QED
      BY <1>1, <1>3, <3>1
  <2>2. CASE Released
    <3>1. op' = StopDone(Last(op.stop)) /\ op.pc = "confirm"
      BY <1>1, <2>2 DEF Released, Operation
    <3> QED
      BY <1>1, <1>3, <3>1 DEF StopKnows
  <2>3. CASE LeaseStop
    BY <1>1, <1>3, <2>3 DEF StopKnows, LeaseStop
  <2>4. CASE Kill \/ Closed \/ CloseTimeout \/ StillHeld \/ StartNext \/ Done
    BY <1>1, <1>2, <2>4 DEF Kill, Closed, CloseTimeout, StillHeld, StartNext, Done, Operation
  <2> QED
    BY <1>4, <2>1, <2>2, <2>3, <2>4 DEF Operates
<1>5. CASE \E t \in Services \cup {All} : StartTarget(t) \/ RestartTarget(t) \/ StopTarget(t, FALSE)
  BY <1>2, <1>5 DEF StartTarget, RestartTarget, StopTarget, Asked
<1>6. CASE StopTarget(All, TRUE)
  BY <1>2, <1>6 DEF StopTarget, Asked
<1>7. ASSUME NEW t \in Services, Starts(t)
      PROVE  FALSE
  <2>1. ASSUME NEW r, Rejects(t, r)
        PROVE  FALSE
    BY <1>1, <1>2, <2>1 DEF Rejects
  <2>2. CASE Healthy(t)
    BY <1>1, <1>2, <2>2 DEF Healthy, Resolves, AwaitedByOp
  <2>3. CASE NeedDep(t) \/ PortTaken(t) \/ Superseded(t)
    BY <1>1, <2>1, <2>3 DEF NeedDep, PortTaken, Superseded
  <2>4. CASE DepsHealthy(t) \/ Spawn(t) \/ LeaseStart(t)
    BY <1>1, <2>4 DEF DepsHealthy, Spawn, LeaseStart
  <2> QED
    BY <1>7, <2>2, <2>3, <2>4 DEF Starts
<1>8. ASSUME NEW t \in Services, StartTimeout(t)
      PROVE  FALSE
  BY <1>1, <1>2, <1>8 DEF StartTimeout, Rejects
<1>9. ASSUME NEW t \in Services, Handles(t) \/ Monitor(t) \/ GiveUpOn(t) \/ Forget(t)
      PROVE  FALSE
  BY <1>1, <1>9 DEF Handles, HandleClose, AfterClose, Timer, Monitor, GiveUpOn, Forget
<1>10. ASSUME NEW t \in Services, NEW g \in Gens, Bind(t, g) \/ Exit(t, g) \/ OrphanEnds(t, g)
       PROVE  FALSE
  BY <1>1, <1>10 DEF Bind, Exit, OrphanEnds
<1>11. CASE Crash \/ RecoverLeases \/ RecoverNothing
  BY <1>1, <1>2, <1>11 DEF Crash, RecoverLeases, RecoverNothing
<1> QED
  BY <1>4, <1>5, <1>6, <1>7, <1>8, <1>9, <1>10, <1>11 DEF Step

\* A stop reports no service whose process still runs, for every catalog of services, all
\* budgets and any number of operations, exits and crashes.
THEOREM StopTheorem == Spec => StopEndsProcess
<1> DEFINE Reports == \A s \in Services : ReportsStopped(s) /\ ~crossed[s] =>
                          \A g \in Gens : g > base[s] => ~Alive(s, g)
<1>1. SupervisorInv /\ [Next]_vars => [Reports]_vars
  <2> SUFFICES ASSUME SupervisorInv, Next, NEW s \in Services, ReportsStopped(s), ~crossed[s],
                      NEW g \in Gens, g > base[s], Alive(s, g)
               PROVE  FALSE
    OBVIOUS
  <2>1. rec[s].cmd = 0
    BY ReportStep DEF Next
  <2>2. Current(s, g)
    BY DEF SupervisorInv, ServiceInv, EveryProcessKnown
  <2> QED
    BY <2>1, <2>2, CatalogAssumption DEF Current, Gens
<1> QED
  BY <1>1, SupervisorTheorem, PTL DEF Spec, StopEndsProcess
=============================================================================
