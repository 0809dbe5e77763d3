-------------------------- MODULE ObjectPublication --------------------------
(***************************************************************************)
(* ObjectPublicationCoordinator: the section that keeps the publication of *)
(* an object ("put the bytes, commit the reference") and the collection of *)
(* unreferenced objects ("read the references, delete the rest") apart.    *)
(* Publishers share the section, a collector has it alone, and publishers  *)
(* that come while a collector waits are kept out until it has gone.       *)
(***************************************************************************)
EXTENDS Naturals, Sequences, FiniteSets

CONSTANTS Publishers, Collectors

ASSUME ObjectPublicationConstants == IsFiniteSet(Publishers)

VARIABLES
    activePublishers,      \* the counter of the code
    collecting,            \* its flag, "yes" or "no"
    waitingPublishers,     \* whose promise is not resolved; all are at once
    waitingCollectors,     \* first come, first served
    publishing,            \* the publishers whose work runs
    sweeping               \* the collectors whose work runs

gate == <<activePublishers, collecting, waitingPublishers, waitingCollectors,
          publishing, sweeping>>

GateTypeOK ==
    /\ activePublishers \in Nat
    /\ collecting \in {"yes", "no"}
    /\ waitingPublishers \in SUBSET Publishers
    /\ waitingCollectors \in Seq(Collectors)
    /\ publishing \in SUBSET Publishers
    /\ sweeping \in SUBSET Collectors

GateInit ==
    /\ activePublishers = 0 /\ collecting = "no"
    /\ waitingPublishers = {} /\ waitingCollectors = << >>
    /\ publishing = {} /\ sweeping = {}

\* Seeded fault: a publisher does not mind a collector that waits.
AcquirePublisherAtOnce(p) ==
    /\ p \notin publishing \cup waitingPublishers
    /\ \/ /\ collecting = "no"
          /\ activePublishers' = activePublishers + 1
          /\ publishing' = publishing \cup {p}
          /\ UNCHANGED waitingPublishers
       \/ /\ collecting = "yes"
          /\ waitingPublishers' = waitingPublishers \cup {p}
          /\ UNCHANGED <<activePublishers, publishing>>
    /\ UNCHANGED <<collecting, waitingCollectors, sweeping>>

\* A publisher gets in at once unless a collector is inside or waits.
AcquirePublisher(p) ==
    /\ p \notin publishing \cup waitingPublishers
    /\ \/ /\ collecting = "no" /\ waitingCollectors = << >>
          /\ activePublishers' = activePublishers + 1
          /\ publishing' = publishing \cup {p}
          /\ UNCHANGED waitingPublishers
       \/ /\ collecting = "yes" \/ waitingCollectors # << >>
          /\ waitingPublishers' = waitingPublishers \cup {p}
          /\ UNCHANGED <<activePublishers, publishing>>
    /\ UNCHANGED <<collecting, waitingCollectors, sweeping>>

\* Seeded fault: a collector does not wait for the publishers inside.
AcquireCollectorAtOnce(c) ==
    /\ c \notin sweeping
    /\ \A k \in DOMAIN waitingCollectors : waitingCollectors[k] # c
    /\ \/ /\ collecting = "no"
          /\ collecting' = "yes"
          /\ sweeping' = sweeping \cup {c}
          /\ UNCHANGED waitingCollectors
       \/ /\ collecting = "yes"
          /\ waitingCollectors' = Append(waitingCollectors, c)
          /\ UNCHANGED <<collecting, sweeping>>
    /\ UNCHANGED <<activePublishers, waitingPublishers, publishing>>

AcquireCollector(c) ==
    /\ c \notin sweeping
    /\ \A k \in DOMAIN waitingCollectors : waitingCollectors[k] # c
    /\ \/ /\ collecting = "no" /\ activePublishers = 0
          /\ collecting' = "yes"
          /\ sweeping' = sweeping \cup {c}
          /\ UNCHANGED waitingCollectors
       \/ /\ collecting = "yes" \/ activePublishers # 0
          /\ waitingCollectors' = Append(waitingCollectors, c)
          /\ UNCHANGED <<collecting, sweeping>>
    /\ UNCHANGED <<activePublishers, waitingPublishers, publishing>>

\* Seeded fault: a failing publisher is released twice.
ReleasePublisherTwice(p) ==
    /\ p \in publishing
    /\ activePublishers' = activePublishers - 2
    /\ publishing' = publishing \ {p}
    /\ UNCHANGED <<collecting, sweeping, waitingPublishers, waitingCollectors>>

\* The last publisher lets the first waiting collector in.
ReleasePublisher(p) ==
    /\ p \in publishing
    /\ activePublishers' = activePublishers - 1
    /\ publishing' = publishing \ {p}
    /\ \/ /\ activePublishers = 1 /\ collecting = "no" /\ waitingCollectors # << >>
          /\ collecting' = "yes"
          /\ sweeping' = sweeping \cup {Head(waitingCollectors)}
          /\ waitingCollectors' = Tail(waitingCollectors)
       \/ /\ activePublishers # 1 \/ collecting = "yes" \/ waitingCollectors = << >>
          /\ UNCHANGED <<collecting, sweeping, waitingCollectors>>
    /\ UNCHANGED waitingPublishers

\* Seeded fault: the publishers that waited for the collector are not woken.
ReleaseCollectorAlone(c) ==
    /\ c \in sweeping
    /\ \/ /\ waitingCollectors # << >>
          /\ sweeping' = (sweeping \ {c}) \cup {Head(waitingCollectors)}
          /\ waitingCollectors' = Tail(waitingCollectors)
          /\ UNCHANGED collecting
       \/ /\ waitingCollectors = << >>
          /\ collecting' = "no"
          /\ sweeping' = sweeping \ {c}
          /\ UNCHANGED waitingCollectors
    /\ UNCHANGED <<activePublishers, waitingPublishers, publishing>>

\* A collector lets the next one in; the last lets all waiting publishers in.
ReleaseCollector(c) ==
    /\ c \in sweeping
    /\ \/ /\ waitingCollectors # << >>
          /\ sweeping' = (sweeping \ {c}) \cup {Head(waitingCollectors)}
          /\ waitingCollectors' = Tail(waitingCollectors)
          /\ UNCHANGED <<collecting, activePublishers, waitingPublishers, publishing>>
       \/ /\ waitingCollectors = << >>
          /\ collecting' = "no"
          /\ sweeping' = sweeping \ {c}
          /\ activePublishers' = activePublishers + Cardinality(waitingPublishers)
          /\ publishing' = publishing \cup waitingPublishers
          /\ waitingPublishers' = {}
          /\ UNCHANGED waitingCollectors

\* The process dies, and with it the coordinator; a new one is empty.
GateRestart ==
    /\ activePublishers' = 0 /\ collecting' = "no"
    /\ waitingPublishers' = {} /\ waitingCollectors' = << >>
    /\ publishing' = {} /\ sweeping' = {}

GateNext ==
    \/ \E p \in Publishers : AcquirePublisher(p) \/ ReleasePublisher(p)
    \/ \E c \in Collectors : AcquireCollector(c) \/ ReleaseCollector(c)
    \/ GateRestart

GateSpec == GateInit /\ [][GateNext]_gate
-----------------------------------------------------------------------------
\* A collector is alone in the section, whatever the counter says: no object is
\* deleted between its put and the commit of its reference.
Exclusion ==
    /\ sweeping # {} => publishing = {}
    /\ \A c, d \in sweeping : c = d

\* No wake-up is lost: whoever waits has somebody inside whose release lets it
\* in, or lets in the collector it waits for.
NoLostWakeup ==
    /\ waitingCollectors # << >> => publishing \cup sweeping # {}
    /\ waitingPublishers # {} => sweeping # {} \/ waitingCollectors # << >>

\* Once a collection waits, no later publisher gets in before it
\* (objectPublicationCoordinator.ts:34), so checkpoints cannot starve it.
NoOvertaking == [][publishing' \subseteq publishing \/ waitingCollectors = << >>]_gate

\* No collector waits twice, or waits while it is inside.
WaitOnce ==
    /\ \A j, k \in DOMAIN waitingCollectors :
         waitingCollectors[j] = waitingCollectors[k] => j = k
    /\ \A k \in DOMAIN waitingCollectors : waitingCollectors[k] \notin sweeping

\* The inductive strengthening: counter and flag tell who is inside.
GateInv ==
    /\ GateTypeOK
    /\ activePublishers = Cardinality(publishing)
    /\ collecting = "yes" <=> sweeping # {}
    /\ publishing \cap waitingPublishers = {}
    /\ Exclusion
    /\ NoLostWakeup
    /\ WaitOnce
=============================================================================
