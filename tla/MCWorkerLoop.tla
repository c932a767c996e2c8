---------------------------- MODULE MCWorkerLoop ----------------------------
(* Two loops, as during a rolling deploy, for TLC.                         *)
EXTENDS WorkerLoop

CONSTANTS w1, w2

\* Over PostgreSQL, two timeouts a whole second apart, and two within the
\* same second. Over SQLite, whose timeouts are constants of whole
\* seconds, a stuck timeout of two POSTs stands for four (120 s and 30 s).
TwoTimings ==
    [postgres |-> {[second |-> 2, http |-> 2, stuck |-> 4],
                   [second |-> 3, http |-> 4, stuck |-> 5]},
     sqlite |-> {[second |-> 1, http |-> 1, stuck |-> 2]}]
=============================================================================
