------------------------------ MODULE Backoff ------------------------------
(***************************************************************************)
(* The two pauses record_failure sets: the delay of the event's next retry *)
(* (next_delay of retry.rs) and, from the fifth failure in a row on, the   *)
(* time the endpoint's circuit is opened for, as each backend computes     *)
(* them: POWER in double precision in storage.rs, u64 arithmetic in        *)
(* backends/sqlite.rs and retry.rs, which panics in a debug build and      *)
(* wraps in a release build. Delivery.tla and SqliteDelivery.tla count     *)
(* failures up to the threshold only; here the count goes on.              *)
(***************************************************************************)
EXTENDS Integers, FiniteSetsExt

CONSTANTS
    Builds,         \* of "postgres", "sqlite_debug" and "sqlite_release"
    InitialDelays,  \* values of initial_delay_ms
    MaxAttempts,    \* of the endpoint
    Stretch,        \* bound on the failures in a row that are followed
    LongOutage      \* failures in a row there may have been before

Threshold == 5        \* consecutive_failures that open the circuit
Cap       == 320      \* minutes: 64 times 5 in SQL, min(320) in Rust
DelayCap  == 3600000  \* milliseconds, passed to next_delay
WordBits  == 64       \* of a u64
MaxPower  == 1023     \* POWER(2, x) is out of range for a larger x

ASSUME BackoffAssumption ==
    /\ Builds \subseteq {"postgres", "sqlite_debug", "sqlite_release"}
    /\ InitialDelays \subseteq Nat \ {0}
    /\ {MaxAttempts, Stretch, LongOutage} \subseteq Nat \ {0}
    /\ LongOutage >= Threshold

VARIABLES
    build,      \* the one that runs
    failures,   \* consecutive_failures of the endpoint
    circuit,    \* circuit_open_until: "closed" (NULL), "open" or "elapsed"
    minutes,    \* how long it was last opened for, 0 while closed
    initial,    \* initial_delay_ms of the endpoint
    attempts,   \* of one of its events, MaxAttempts when that is dead
    delay,      \* bounds of the delay drawn for its next retry, in order
    loop,       \* "running", or "gone" once a panic has unwound it
    lost        \* history: a failed delivery left no trace in the database

vars == <<build, failures, circuit, minutes, initial, attempts, delay, loop, lost>>

TypeOK ==
    /\ build \in Builds
    /\ failures \in 0..LongOutage + Stretch
    /\ circuit \in {"closed", "open", "elapsed"}
    /\ minutes \in 0..Cap
    /\ initial \in InitialDelays
    /\ attempts \in 0..MaxAttempts
    /\ delay \in Nat \X Nat
    /\ loop \in {"running", "gone"}
    /\ lost \in BOOLEAN

-----------------------------------------------------------------------------
(* Products that are capped, and factors that a word has lost.             *)

\* Every cap is below 2^CapBits.
CapBits == 22

\* A wrong form of the next definition: caps one doubling too late.
CappedLate(n, x, cap) ==
    IF n = 0 THEN 0
    ELSE IF x >= CapBits \/ n > (2 * cap) \div 2^x THEN 2 * cap
    ELSE n * 2^x

\* n * 2^x, capped. What is beyond the cap may be beyond any word, and is not
\* computed.
Capped(n, x, cap) ==
    IF n = 0 THEN 0
    ELSE IF x >= CapBits \/ n > cap \div 2^x THEN cap
    ELSE n * 2^x

\* 5 * 2^x in a word is this number times 2^x: the other bits of 5 are shifted out.
Kept(x, bits) ==
    IF x + 3 <= bits THEN 5
    ELSE IF x >= bits THEN 0
    ELSE 5 % 2^(bits - x)

-----------------------------------------------------------------------------
\* A wrong form of the next definition: the product is kept in 32 bits.
OverflowsEarly(x) ==
    \/ build = "postgres" /\ x > MaxPower
    \/ build = "sqlite_debug" /\ x + 2 >= 32

\* Whether computing 5 * 2^x is an error: of the SQL statement, or a panic.
Overflows(x) ==
    \/ build = "postgres" /\ x > MaxPower
    \/ build = "sqlite_debug" /\ x + 2 >= WordBits

\* Wrong forms of the next definition: the exponent starts at 1, and the
\* product is kept in a byte.
OpenMinutesDoubled(x) ==
    IF build = "postgres" THEN 5 * Capped(1, x + 1, Cap \div 5)
    ELSE Capped(Kept(x + 1, WordBits), x + 1, Cap)

OpenMinutesInByte(x) == Capped(Kept(x, 8), x, Cap)

\* 5 * 2^x, capped: the power over PostgreSQL, the product, in a word, over SQLite.
OpenMinutes(x) ==
    IF build = "postgres" THEN 5 * Capped(1, x, Cap \div 5)
    ELSE Capped(Kept(x, WordBits), x, Cap)

\* A wrong form of the next definition: the shift is not limited, so that it
\* is taken modulo the width of a word.
NextDelayMasked(attempt) ==
    LET ceiling == Capped(initial, attempt % WordBits, DelayCap)
    IN  <<Min({initial, ceiling}), ceiling>>

\* next_delay draws from this range; gen_range panics on an empty one. A product
\* that saturates is beyond the cap as well.
NextDelay(attempt) ==
    LET ceiling == Capped(initial, Min({attempt, 62}), DelayCap)
    IN  <<Min({initial, ceiling}), ceiling>>

-----------------------------------------------------------------------------
\* An endpoint that works, or one that has long been down.
Init ==
    /\ build \in Builds
    /\ initial \in InitialDelays
    /\ \/ failures = 0 /\ circuit = "closed" /\ minutes = 0
       \/ /\ build = "postgres" /\ failures = LongOutage
          /\ circuit = "open" /\ minutes = OpenMinutes(LongOutage - Threshold)
    /\ attempts = 0
    /\ delay = <<0, 0>>
    /\ loop = "running"
    /\ lost = FALSE

\* The bound on the counts that are explored.
Followed(n) == n \in 0..Stretch \/ n \in LongOutage..LongOutage + Stretch

\* The event's part of record_failure: dead, or the next retry.
ScheduleRetry ==
    /\ attempts' = attempts + 1
    /\ delay' = IF attempts + 1 >= MaxAttempts THEN delay ELSE NextDelay(attempts + 1)

\* record_failure, to its commit, for this event or another of the endpoint.
CountFailure ==
    /\ loop = "running"
    /\ Followed(failures + 1)
    /\ failures + 1 < Threshold \/ ~Overflows(failures + 1 - Threshold)
    /\ failures' = failures + 1
    /\ minutes' = IF failures + 1 < Threshold THEN 0
                  ELSE OpenMinutes(failures + 1 - Threshold)
    /\ circuit' = IF failures + 1 < Threshold THEN "closed"
                  ELSE IF minutes' = 0 THEN "elapsed" ELSE "open"
    /\ \/ attempts < MaxAttempts /\ ScheduleRetry
       \/ UNCHANGED <<attempts, delay>>
    /\ UNCHANGED <<loop, lost>>

\* The same call when the arithmetic fails: the transaction rolls back. The
\* task of a PostgreSQL worker ends with it, the run loop of SQLite does too,
\* because a panic unwinds it.
FailToCount ==
    /\ loop = "running"
    /\ Followed(failures + 1)
    /\ failures + 1 >= Threshold
    /\ Overflows(failures + 1 - Threshold)
    /\ lost' = TRUE
    /\ loop' = IF build = "sqlite_debug" THEN "gone" ELSE loop
    /\ UNCHANGED <<failures, circuit, minutes, attempts, delay>>

\* record_success of another event; retry_dead_event and retry_all_dead, which
\* also start the event over if it is dead.
ResetCircuit ==
    /\ loop = "running"
    /\ failures' = 0
    /\ circuit' = "closed"
    /\ minutes' = 0
    /\ \/ attempts = MaxAttempts /\ attempts' = 0
       \/ UNCHANGED attempts
    /\ UNCHANGED <<delay, loop, lost>>

\* circuit_open_until <= NOW(): claim_due_events takes the endpoint's events
\* again. The columns stay as they are.
Elapse ==
    /\ circuit = "open"
    /\ circuit' = "elapsed"
    /\ UNCHANGED <<failures, minutes, attempts, delay, loop, lost>>

Next ==
    /\ CountFailure \/ FailToCount \/ ResetCircuit \/ Elapse
    /\ UNCHANGED <<build, initial>>

Spec == Init /\ [][Next]_vars

-----------------------------------------------------------------------------
(* Properties.                                                             *)

\* first, doubled n times, never above cap.
Doubled(first, cap, n) ==
    LET d[i \in Nat] == IF i = 0 THEN Min({first, cap}) ELSE Min({2 * d[i - 1], cap})
    IN  d[n]

\* A release build has shifted all digits out of the word.
Wrapped == build = "sqlite_release" /\ failures >= Threshold + WordBits

\* Whatever the arithmetic behind it, the circuit is opened for as long as the
\* table of docs/02-circuit-breaker.md says, until the word wraps: 5 minutes
\* from the fifth failure on, doubled by each further one, capped at 320.
DurationsFollowTable ==
    ~Wrapped => minutes = IF failures < Threshold THEN 0
                          ELSE Doubled(5, Cap, Min({failures - Threshold, 20}))

\* However often the event is tried and whatever its initial delay, the n-th
\* retry comes within the initial delay doubled n times, capped at an hour, as
\* the table of webhooksmith/README.md says, and never before the initial delay
\* unless that is beyond the cap; the range it is drawn from is never empty.
DelaysFollowTable ==
    attempts \in 1..MaxAttempts - 1 =>
        /\ delay[2] = Doubled(initial, DelayCap, Min({attempts, 25}))
        /\ delay[1] = Min({initial, DelayCap})
        /\ delay[1] <= delay[2]

\* Until a success or an operator closes it, a circuit that has opened is never
\* reopened for a shorter time, and a new failure never leaves it elapsed, until
\* the word wraps.
BacksOff ==
    [][circuit' # "closed" /\ ~Wrapped' =>
          /\ minutes' >= minutes
          /\ failures' # failures => circuit' = "open"]_vars

\* A failed delivery counts, for its event and for the endpoint, and leaves the
\* loop running, as long as the endpoint has not failed more than 66 times in a
\* row (over PostgreSQL, 1028 times).
EveryFailureCounts ==
    [][lost' # lost => failures >= (IF build = "postgres" THEN 1028 ELSE 66)]_vars

-----------------------------------------------------------------------------
\* The inductive invariant behind the theorems of BackoffProofs: the pauses are
\* those of the counts, and a debug build does not get beyond its arithmetic.
PausesFollowCounts ==
    /\ minutes = IF failures < Threshold THEN 0 ELSE OpenMinutes(failures - Threshold)
    /\ attempts \in 1..MaxAttempts - 1 => delay = NextDelay(attempts)
    /\ build = "sqlite_debug" => failures < Threshold + WordBits

BackoffInv == TypeOK /\ PausesFollowCounts
=============================================================================
