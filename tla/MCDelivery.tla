----------------------------- MODULE MCDelivery -----------------------------
(* Instances of Delivery for TLC.                                          *)
EXTENDS Delivery, TLC

CONSTANTS p1, p2, e1, e2, w1, w2

\* One event, or two of one endpoint, or one for each of two endpoints.
OneEvent     == [e \in {e1} |-> p1]
SameEndpoint == [e \in {e1, e2} |-> p1]
TwoEndpoints == [e \in {e1, e2} |-> IF e = e1 THEN p1 ELSE p2]

WorkerSymmetry == Permutations({w1, w2})
=============================================================================
