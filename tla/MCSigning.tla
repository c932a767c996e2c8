----------------------------- MODULE MCSigning -----------------------------
(* Two consumers, for TLC: an endpoint whose secret is rotated at one and  *)
(* that is moved to the other.                                             *)
EXTENDS Signing

CONSTANTS u1, u2, s1, s2

ThreeHomes == {<<u1, s1>>, <<u1, s2>>, <<u2, s2>>}

\* Clocks that agree, and consumers whose clock is behind by more than the
\* tolerance: what they receive is from the future, and becomes fresh.
SomeSkews == {0, -1}
=============================================================================
