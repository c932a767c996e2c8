------------------------------ MODULE MCOutbox ------------------------------
(* Instances of Outbox for TLC.                                            *)
EXTENDS Outbox, TLC

CONSTANTS send1, send2, fan, k1, k2

\* Two sends with one key, and a broadcast over that key and another.
Covers == [c \in {send1, send2, fan} |-> IF c = fan THEN {k1, k2} ELSE {k1}]

SendSymmetry == Permutations({send1, send2})
=============================================================================
