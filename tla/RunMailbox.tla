----------------------------- MODULE RunMailbox -----------------------------
(***************************************************************************)
(* What a run promises the user who steers it while it works: a message is *)
(* accepted at most once, the model's durable history takes the accepted   *)
(* messages in order and never gives one back, a run that ends with an     *)
(* answer has taken every message it accepted, and nothing is accepted or  *)
(* delivered while it is not open.                                         *)
(* RunInputs is the implementation and refines this module.                *)
(***************************************************************************)
EXTENDS Naturals, Sequences

CONSTANT Inputs            \* the client's message identities (steeringId)

VARIABLES
    accepted,              \* the messages taken in, in arrival order
    delivered,             \* how many of them the durable model history holds
    phase                  \* "open", "answered" or "dropped"

mailbox == <<accepted, delivered, phase>>

TypeOK ==
    /\ accepted \in Seq(Inputs)
    /\ delivered \in 0..Len(accepted)
    /\ phase \in {"open", "answered", "dropped"}

Init ==
    /\ accepted = <<>>
    /\ delivered = 0
    /\ phase = "open"

Accept(i) ==
    /\ phase = "open"
    /\ \A s \in 1..Len(accepted) : accepted[s] # i
    /\ accepted' = Append(accepted, i)
    /\ UNCHANGED <<delivered, phase>>

\* A checkpoint takes a whole batch: the next messages, without a gap.
Deliver ==
    /\ phase = "open"
    /\ delivered' \in (delivered + 1)..Len(accepted)
    /\ UNCHANGED <<accepted, phase>>

Answer ==
    /\ phase = "open"
    /\ delivered = Len(accepted)
    /\ phase' = "answered"
    /\ UNCHANGED <<accepted, delivered>>

\* Failure, or a cancellation, which may come even after the answer.
Drop ==
    /\ phase # "dropped"
    /\ phase' = "dropped"
    /\ UNCHANGED <<accepted, delivered>>

\* A question still open when the run was dropped may be answered: it goes on.
Reopen ==
    /\ phase = "dropped"
    /\ phase' = "open"
    /\ UNCHANGED <<accepted, delivered>>

Next == (\E i \in Inputs : Accept(i)) \/ Deliver \/ Answer \/ Drop \/ Reopen

Spec == Init /\ [][Next]_mailbox
=============================================================================
