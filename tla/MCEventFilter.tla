---------------------------- MODULE MCEventFilter ----------------------------
(* One endpoint, short event types and every filter, for TLC.              *)
EXTENDS EventFilter

CONSTANT p1

ShortTypes ==
    UNION {[1..n -> {"a", "_", ".", "\\"}] : n \in 1..3} \cup {<<" ">>, <<"a", "^">>}

SomePatterns ==
    {<<"*">>, <<"_", ".", "*">>, <<"a", ".", "*">>, <<"\\", ".", "*">>, <<"a", ".">>, <<" ">>}
=============================================================================
