----------------------------- MODULE AtLeastOnce -----------------------------
(***************************************************************************)
(* What the outbox promises the application, without workers, claims,      *)
(* attempts or circuits: an accepted event stays queued until its consumer *)
(* has processed it or the queue has given up on it, both are settled for  *)
(* good unless an operator requeues a dead event, and only then may it be  *)
(* removed, or when its endpoint is.                                       *)
(***************************************************************************)
CONSTANT Events

VARIABLES
    state,     \* of each event
    received   \* events the consumer has processed at least once

vars == <<state, received>>

States == {"absent", "queued", "delivered", "dead", "removed"}

Init ==
    /\ state = [e \in Events |-> "absent"]
    /\ received = {}

\* Every event of S moves to s; an event that is already there does not count.
Move(S, s) == state' = [e \in Events |-> IF e \in S THEN s ELSE state[e]]

Accept(S) ==
    /\ \A e \in S : state[e] = "absent"
    /\ Move(S, "queued")
    /\ UNCHANGED received

\* The consumer may see an event more than once, and even after its removal.
Consume(e) ==
    /\ state[e] # "absent"
    /\ received' = received \cup {e}
    /\ UNCHANGED state

Deliver(e) ==
    /\ state[e] = "queued"
    /\ e \in received
    /\ Move({e}, "delivered")
    /\ UNCHANGED received

GiveUp(e) ==
    /\ state[e] = "queued"
    /\ Move({e}, "dead")
    /\ UNCHANGED received

Requeue(S) ==
    /\ \A e \in S : state[e] = "dead"
    /\ Move(S, "queued")
    /\ UNCHANGED received

Remove(S) ==
    /\ \A e \in S : state[e] \in {"queued", "delivered", "dead"}
    /\ Move(S, "removed")
    /\ UNCHANGED received

Next ==
    \/ \E S \in SUBSET Events : Accept(S) \/ Requeue(S) \/ Remove(S)
    \/ \E e \in Events : Consume(e) \/ Deliver(e) \/ GiveUp(e)

Spec == Init /\ [][Next]_vars
=============================================================================
