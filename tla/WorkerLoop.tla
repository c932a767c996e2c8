----------------------------- MODULE WorkerLoop -----------------------------
(***************************************************************************)
(* run and run_graceful of worker.rs (PostgreSQL) and sqlite_engine.rs:    *)
(* cycles of run_once, sleeps after empty and failed ones, the look at the *)
(* shutdown future between them, and the clocks of http_timeout and of the *)
(* reaper. Several loops share one queue, as during a rolling deploy; run  *)
(* is run_graceful with a future that never resolves. Events are counted   *)
(* here, not told apart: what happens to each of them is the subject of    *)
(* Delivery.tla and SqliteDelivery.tla.                                    *)
(***************************************************************************)
EXTENDS Naturals, FiniteSets

CONSTANTS
    Loops,
    BatchSize,
    MaxQueue,    \* bound on the events waiting to be claimed
    Timings,     \* per engine, what builders are given: records of ticks
    Latencies    \* bounds on what a delivery spends outside its POST

ASSUME WorkerLoopAssumption ==
    /\ IsFiniteSet(Loops)
    /\ BatchSize \in Nat \ {0}
    /\ MaxQueue \in Nat
    /\ Latencies \subseteq Nat
    /\ \A engine \in {"postgres", "sqlite"} :
          Timings[engine] \subseteq [second : Nat \ {0}, http : Nat, stuck : Nat]

VARIABLES
    engine,     \* "postgres" or "sqlite", for good
    timing,     \* http_timeout and stuck_timeout, and how long a second is
    latency,    \* the bound of Latencies that holds
    queue,      \* events that are due
    pc,         \* where each loop is
    inflight,   \* deliveries of its batch that have not ended
    size,       \* how many the batch had
    age,        \* ticks since it was claimed: NOW() - delivering_since
    spent,      \* ticks since its current delivery began
    overtaken,  \* loops the reaper has taken a batch from that was alive
    signalled,  \* loops whose shutdown future has resolved
    late,       \* history: batches a loop has claimed since, counted up to 2
    draining    \* history: ticks it has been delivering since

setup == <<engine, timing, latency>>
batchVars == <<inflight, size, age, spent>>
signalVars == <<signalled, late, draining>>
loopVars == <<queue, pc, batchVars, overtaken, signalVars>>
vars == <<setup, loopVars>>

\* Loops whose batch is not done.
Alive == {w \in Loops : pc[w] = "deliver" /\ inflight[w] > 0}

\* The builder's assertion on the two durations.
Validated(t) == t.http < t.stuck

\* with_stuck_timeout keeps whole seconds of it.
StuckTicks == (timing.stuck \div timing.second) * timing.second

\* How long one delivery takes, and how long a batch of n: the tasks of a
\* PostgreSQL worker run at once, SQLite's deliveries one after the other.
DeliveryTime == timing.http + latency
BatchTime(n) == IF engine = "postgres" THEN DeliveryTime ELSE n * DeliveryTime

MaxAge == StuckTicks + 1                     \* older makes no difference
MaxDrain == BatchTime(BatchSize) + 1

TypeOK ==
    /\ engine \in {"postgres", "sqlite"}
    /\ timing \in Timings[engine] /\ latency \in Latencies
    /\ queue \in 0..MaxQueue
    /\ pc \in [Loops -> {"recover", "claim", "deliver", "check", "rest",
                         "returned", "unwound"}]
    /\ inflight \in [Loops -> 0..BatchSize]
    /\ size \in [Loops -> 0..BatchSize]
    /\ age \in [Loops -> 0..MaxAge]
    /\ spent \in [Loops -> 0..DeliveryTime]
    /\ overtaken \subseteq Alive
    /\ signalled \subseteq Loops
    /\ late \in [Loops -> 0..2]
    /\ draining \in [Loops -> 0..MaxDrain]

Init ==
    /\ engine \in {"postgres", "sqlite"}
    /\ timing \in {t \in Timings[engine] : Validated(t)}
    /\ latency \in Latencies
    /\ queue = 0
    /\ pc = [w \in Loops |-> "recover"]
    /\ inflight = [w \in Loops |-> 0]
    /\ size = [w \in Loops |-> 0]
    /\ age = [w \in Loops |-> 0]
    /\ spent = [w \in Loops |-> 0]
    /\ overtaken = {}
    /\ signalled = {}
    /\ late = [w \in Loops |-> 0]
    /\ draining = [w \in Loops |-> 0]

GoTo(w, step) == pc' = [pc EXCEPT ![w] = step]

\* n with a bound.
UpTo(n, bound) == IF n < bound THEN n ELSE bound

\* An event is enqueued, its backoff or its endpoint's circuit elapses.
Enqueue ==
    /\ queue < MaxQueue
    /\ queue' = queue + 1
    /\ UNCHANGED <<pc, batchVars, overtaken, signalVars>>

\* The shutdown future resolves; it may have before the loop was started.
Signal(w) ==
    /\ w \notin signalled
    /\ signalled' = signalled \cup {w}
    /\ UNCHANGED <<queue, pc, batchVars, overtaken, late, draining>>

\* The clocks of the batches that are alive advance.
Clocks ==
    /\ age' = [w \in Loops |-> IF w \in Alive THEN UpTo(age[w] + 1, MaxAge) ELSE age[w]]
    /\ spent' = [w \in Loops |->
                    IF w \in Alive THEN UpTo(spent[w] + 1, DeliveryTime) ELSE spent[w]]
    /\ draining' = [w \in Loops |-> IF w \in Alive \cap signalled
                                       THEN UpTo(draining[w] + 1, MaxDrain) ELSE draining[w]]
    /\ UNCHANGED <<queue, pc, inflight, size, overtaken, signalled, late>>

\* A wrong form of the next definition: a body that is still arriving when
\* http_timeout has passed is waited for.
TickForEver == Clocks

\* Time passes. http_timeout covers a POST to the end of its answer, and the
\* statements around it take no longer than the latency.
Tick ==
    /\ \A w \in Alive : spent[w] < DeliveryTime
    /\ Clocks

\* A wrong form of the next definition: rounds the stuck timeout down once more.
StuckASecondEarly == {v \in Alive \ overtaken : age[v] + timing.second > StuckTicks}

\* recover_stuck_deliveries, as far as it meets batches that are alive.
Stuck == {v \in Alive \ overtaken : age[v] > StuckTicks}

\* Their deliveries that have not ended: the events the reaper makes due again.
Undone == {d \in Stuck \X (1..BatchSize) : d[2] <= inflight[d[1]]}

\* run_once begins. An error of the reaper ends the cycle over PostgreSQL and
\* is ignored over SQLite.
Recover(w) ==
    /\ pc[w] = "recover"
    /\ \/ /\ GoTo(w, "claim")
          /\ queue' = UpTo(queue + Cardinality(Undone), MaxQueue)
          /\ overtaken' = overtaken \cup Stuck
       \/ /\ GoTo(w, IF engine = "postgres" THEN "rest" ELSE "claim")
          /\ UNCHANGED <<queue, overtaken>>
    /\ UNCHANGED <<batchVars, signalVars>>

\* claim_due_events finds nothing or fails, or the cycle has a batch.
Claim(w) ==
    /\ pc[w] = "claim"
    /\ \/ /\ GoTo(w, "rest")
          /\ UNCHANGED <<queue, inflight, size, late>>
       \/ /\ queue > 0
          /\ LET n == UpTo(queue, BatchSize) IN
             /\ queue' = queue - n
             /\ inflight' = [inflight EXCEPT ![w] = n]
             /\ size' = [size EXCEPT ![w] = n]
          /\ late' = [late EXCEPT ![w] = IF w \in signalled THEN UpTo(@ + 1, 2) ELSE @]
          /\ GoTo(w, "deliver")
    /\ UNCHANGED <<age, spent, overtaken, signalled, draining>>

\* What the end of a delivery, the last of its batch or not, does to the clocks.
EndBatch(w, last) ==
    /\ spent' = IF last \/ engine = "sqlite" THEN [spent EXCEPT ![w] = 0] ELSE spent
    /\ age' = IF last THEN [age EXCEPT ![w] = 0] ELSE age
    /\ size' = IF last THEN [size EXCEPT ![w] = 0] ELSE size
    /\ overtaken' = IF last THEN overtaken \ {w} ELSE overtaken

\* A wrong form of the next definition: a timed-out task is counted again when
\* it ends.
EndDeliveryTwice(w) ==
    /\ pc[w] = "deliver"
    /\ inflight[w] > 0
    /\ \E n \in {1, 2} : inflight' = [inflight EXCEPT ![w] = @ - n]
    /\ EndBatch(w, inflight[w] = 1)
    /\ UNCHANGED <<queue, pc, signalVars>>

\* A delivery ends, with whatever outcome; over SQLite the next begins.
EndDelivery(w) ==
    /\ w \in Alive
    /\ inflight' = [inflight EXCEPT ![w] = @ - 1]
    /\ EndBatch(w, inflight[w] = 1)
    /\ UNCHANGED <<queue, pc, signalVars>>

\* A delivery panics. A spawned task only fails its JoinHandle; the loop over
\* SQLite delivers in its own task and unwinds.
Panic(w) ==
    /\ w \in Alive
    /\ \/ /\ engine = "postgres"
          /\ inflight' = [inflight EXCEPT ![w] = @ - 1]
          /\ EndBatch(w, inflight[w] = 1)
          /\ UNCHANGED pc
       \/ /\ engine = "sqlite"
          /\ inflight' = [inflight EXCEPT ![w] = 0]
          /\ EndBatch(w, TRUE)
          /\ GoTo(w, "unwound")
    /\ UNCHANGED <<queue, signalVars>>

\* join_all, or the end of the loop over the batch.
Join(w) ==
    /\ pc[w] = "deliver"
    /\ inflight[w] = 0
    /\ GoTo(w, "check")
    /\ UNCHANGED <<queue, batchVars, overtaken, signalVars>>

\* A wrong form of the next definition: looks at the future after idle cycles
\* only.
CheckNothing(w) ==
    /\ pc[w] = "check"
    /\ GoTo(w, "recover")
    /\ UNCHANGED <<queue, batchVars, overtaken, signalVars>>

\* After a batch: select!, biased towards the shutdown future.
Check(w) ==
    /\ pc[w] = "check"
    /\ GoTo(w, IF w \in signalled THEN "returned" ELSE "recover")
    /\ UNCHANGED <<queue, batchVars, overtaken, signalVars>>

\* After an empty or failed cycle: the same against a sleep, which ends it only
\* if the future has not resolved by then.
Rest(w) ==
    /\ pc[w] = "rest"
    /\ GoTo(w, IF w \in signalled THEN "returned" ELSE "recover")
    /\ UNCHANGED <<queue, batchVars, overtaken, signalVars>>

Step(w) ==
    \/ Recover(w) \/ Claim(w) \/ EndDelivery(w) \/ Join(w) \/ Check(w) \/ Rest(w)

Next ==
    /\ Enqueue \/ Tick \/ \E w \in Loops : Step(w) \/ Panic(w) \/ Signal(w)
    /\ UNCHANGED setup

Spec == Init /\ [][Next]_vars

\* Statements, POSTs (http_timeout) and sleeps end. Nobody need send a signal.
FairSpec == Spec /\ \A w \in Loops : WF_loopVars(Step(w))

-----------------------------------------------------------------------------
(* Properties.                                                             *)

\* The reaper of one loop takes no batch from another that is alive, as long as
\* a batch of that size is done within whole seconds of the stuck timeout: the
\* builder's check on http_timeout is not enough for that by itself. This is
\* what Delivery.tla assumes where tasks are not slow.
ReaperSparesLiveBatches ==
    \A w \in overtaken : BatchTime(size[w]) > StuckTicks

\* Of the queue a loop takes at most one more batch once it is to stop, however
\* the signal falls between its statements and however full the queue is.
AtMostOneLateBatch == \A w \in Loops : late[w] <= 1

\* Whether the signal meets a batch or is followed by a late one, a loop goes on
\* delivering for no longer than one batch takes: http_timeout over PostgreSQL,
\* that for every event of a batch over SQLite.
DrainIsBounded == \A w \in Loops : draining[w] <= BatchTime(BatchSize)

\* A signalled loop returns, or has unwound, although the queue never runs dry,
\* the database keeps failing and deliveries panic.
ReturnsAfterSignal ==
    \A w \in Loops : w \in signalled ~> pc[w] \in {"returned", "unwound"}

-----------------------------------------------------------------------------
(* The inductive invariant behind the theorems of WorkerLoopProofs.        *)

\* The most that can have passed since the batch of a loop was claimed: SQLite's
\* deliveries that have ended took their time each.
Elapsed(w) ==
    IF engine = "postgres"
    THEN spent[w]
    ELSE (size[w] - inflight[w]) * DeliveryTime + spent[w]

\* Only a batch has deliveries, and without one the clocks are at zero.
BatchesFollowSteps ==
    \A w \in Loops :
        /\ pc[w] # "deliver" => inflight[w] = 0
        /\ inflight[w] = 0 => size[w] = 0 /\ age[w] = 0 /\ spent[w] = 0
        /\ inflight[w] <= size[w]

\* No batch is older than its deliveries have taken.
AgesFollowDeliveries == \A w \in Loops : age[w] <= Elapsed(w)

\* A loop that has claimed since its signal looks at the future next.
LateLoopsStop ==
    \A w \in Loops :
        /\ late[w] <= 1
        /\ late[w] > 0 => w \in signalled /\ pc[w] \in {"deliver", "check", "returned", "unwound"}

\* Draining began with the batch in hand or later, and no other follows it.
DrainsFollowDeliveries ==
    \A w \in Loops :
        /\ draining[w] > 0 => w \in signalled /\ pc[w] \in {"deliver", "check", "returned", "unwound"}
        /\ inflight[w] > 0 => draining[w] <= Elapsed(w)
        /\ draining[w] <= BatchTime(BatchSize)

LoopInv ==
    /\ TypeOK
    /\ BatchesFollowSteps /\ AgesFollowDeliveries
    /\ LateLoopsStop /\ DrainsFollowDeliveries
    /\ ReaperSparesLiveBatches
=============================================================================
