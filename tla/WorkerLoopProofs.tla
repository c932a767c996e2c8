-------------------------- MODULE WorkerLoopProofs --------------------------
(***************************************************************************)
(* Proofs about WorkerLoop, for any finite set of loops, any batch size,   *)
(* queue bound, timeouts that the builder accepts, and latencies.          *)
(***************************************************************************)
EXTENDS WorkerLoop, FiniteSetTheorems, TLAPS

USE WorkerLoopAssumption DEF WorkerLoopAssumption

-----------------------------------------------------------------------------
(* Durations.                                                              *)

\* The durations are natural numbers.
LEMMA DurationTypes ==
    ASSUME TypeOK
    PROVE  DeliveryTime \in Nat /\ StuckTicks \in Nat
<1>1. timing \in [second : Nat \ {0}, http : Nat, stuck : Nat] /\ latency \in Nat
    BY DEF TypeOK
<1>2. timing.second \in Nat \ {0} /\ timing.http \in Nat /\ timing.stuck \in Nat
    BY <1>1
<1>3. timing.stuck \div timing.second \in Nat
    BY <1>2
<1> QED BY <1>1, <1>2, <1>3 DEF DeliveryTime, StuckTicks

\* Deliveries one after the other: one more takes its own time longer.
LEMMA OneMore ==
    ASSUME NEW n \in Nat, NEW d \in Nat
    PROVE  n * d \in Nat /\ (n + 1) * d = n * d + d
  OBVIOUS

\* A longer batch takes no less time.
LEMMA LongerBatch ==
    ASSUME NEW m \in Nat, NEW n \in Nat, m <= n, NEW d \in Nat
    PROVE  m * d <= n * d
<1>1. PICK k \in Nat : n = m + k
    <2>1. n - m \in Nat /\ n = m + (n - m)
        OBVIOUS
    <2> QED BY <2>1
<1>2. n * d = m * d + k * d
    BY <1>1
<1>3. m * d \in Nat /\ n * d \in Nat /\ k * d \in Nat
    BY OneMore
<1> QED BY <1>2, <1>3

\* What a loop has delivered so far is within what its batch may take, and that
\* within what a full batch may take.
LEMMA ElapsedIsBounded ==
    ASSUME TypeOK, BatchesFollowSteps, NEW w \in Loops, inflight[w] > 0
    PROVE  /\ Elapsed(w) \in Nat
           /\ BatchTime(size[w]) \in Nat /\ BatchTime(BatchSize) \in Nat
           /\ Elapsed(w) <= BatchTime(size[w])
           /\ BatchTime(size[w]) <= BatchTime(BatchSize)
<1> DEFINE d == DeliveryTime
           m == size[w] - inflight[w]
           n == size[w] - 1
<1>1. d \in Nat
    BY DurationTypes
<1>2. /\ spent[w] \in Nat /\ spent[w] <= d
      /\ m \in Nat /\ n \in Nat /\ m <= n /\ size[w] = n + 1
      /\ size[w] \in Nat /\ size[w] <= BatchSize /\ BatchSize \in Nat
    BY <1>1 DEF TypeOK, BatchesFollowSteps
<1>3. CASE engine = "postgres"
    BY <1>1, <1>2, <1>3 DEF Elapsed, BatchTime
<1>4. CASE engine = "sqlite"
    <2>1. /\ m * d <= n * d /\ size[w] * d = n * d + d
          /\ size[w] * d <= BatchSize * d
          /\ m * d \in Nat /\ n * d \in Nat /\ size[w] * d \in Nat /\ BatchSize * d \in Nat
        <3> HIDE DEF d, m, n
        <3>1. m * d <= n * d
            BY <1>1, <1>2, LongerBatch
        <3>2. size[w] * d = n * d + d
            BY <1>1, <1>2, OneMore
        <3>3. size[w] * d <= BatchSize * d
            BY <1>1, <1>2, LongerBatch
        <3> QED BY <1>1, <1>2, <3>1, <3>2, <3>3, OneMore
    <2>2. /\ Elapsed(w) = m * d + spent[w]
          /\ BatchTime(size[w]) = size[w] * d /\ BatchTime(BatchSize) = BatchSize * d
        BY <1>4 DEF Elapsed, BatchTime
    <2> HIDE DEF d, m, n
    <2> QED BY <1>1, <1>2, <2>1, <2>2
<1> QED BY <1>3, <1>4 DEF TypeOK

BoundedOK ==
    \A w \in Loops : inflight[w] > 0 => Elapsed(w) <= BatchTime(BatchSize)

\* What has elapsed is within what a full batch may take.
LEMMA Bounded == TypeOK /\ BatchesFollowSteps => BoundedOK
<1> SUFFICES ASSUME TypeOK, BatchesFollowSteps, NEW w \in Loops, inflight[w] > 0
             PROVE  Elapsed(w) <= BatchTime(BatchSize)
    BY DEF BoundedOK
<1> QED BY ElapsedIsBounded

\* The same in the next state.
LEMMA BoundedNext == TypeOK' /\ BatchesFollowSteps' => BoundedOK'
  BY Bounded, PTL

\* A full batch takes a natural number of ticks.
LEMMA BatchTimeType ==
    ASSUME TypeOK
    PROVE  BatchTime(BatchSize) \in Nat /\ MaxDrain \in Nat /\ MaxAge \in Nat
<1>1. DeliveryTime \in Nat /\ StuckTicks \in Nat
    BY DurationTypes
<1>2. BatchSize * DeliveryTime \in Nat
    BY <1>1, OneMore
<1> QED BY <1>1, <1>2 DEF BatchTime, MaxDrain, MaxAge

\* The reaper makes a natural number of events due.
LEMMA UndoneType ==
    ASSUME TypeOK
    PROVE  Cardinality(Undone) \in Nat
<1>1. IsFiniteSet(Stuck)
    BY FS_Subset DEF Stuck, Alive
<1>2. IsFiniteSet(1..BatchSize)
    BY FS_Interval
<1>3. IsFiniteSet(Stuck \X (1..BatchSize))
    BY <1>1, <1>2, FS_Product
<1>4. IsFiniteSet(Undone)
    BY <1>3, FS_Subset DEF Undone
<1> QED BY <1>4, FS_CardinalityType

-----------------------------------------------------------------------------
(* Types.                                                                  *)

\* The initial states are well-formed.
LEMMA TypeInit == Init => TypeOK
<1> SUFFICES ASSUME Init PROVE TypeOK
    OBVIOUS
<1>1. /\ timing \in [second : Nat \ {0}, http : Nat, stuck : Nat] /\ latency \in Nat
      /\ timing \in Timings[engine] /\ latency \in Latencies
    BY DEF Init
<1>2. DeliveryTime \in Nat /\ StuckTicks \in Nat
    <2>1. timing.second \in Nat \ {0} /\ timing.http \in Nat /\ timing.stuck \in Nat
        BY <1>1
    <2>2. timing.stuck \div timing.second \in Nat
        BY <2>1
    <2> QED BY <1>1, <2>1, <2>2 DEF DeliveryTime, StuckTicks
<1>3. BatchTime(BatchSize) \in Nat
    BY <1>2, OneMore DEF BatchTime
<1> QED BY <1>1, <1>2, <1>3 DEF Init, TypeOK, MaxAge, MaxDrain, Alive

\* The end of a delivery concerns one loop: either its batch is done and its
\* clocks are at zero again, or the batch has one delivery fewer.
LEMMA EndFacts ==
    ASSUME TypeOK, BatchesFollowSteps, NEW w \in Loops, EndDelivery(w) \/ Panic(w)
    PROVE  /\ w \in Alive
           /\ UNCHANGED <<queue, signalVars>>
           /\ pc' \in [Loops -> {"recover", "claim", "deliver", "check", "rest",
                                 "returned", "unwound"}]
           /\ inflight' \in [Loops -> 0..BatchSize]
           /\ size' \in [Loops -> 0..BatchSize]
           /\ age' \in [Loops -> 0..MaxAge]
           /\ spent' \in [Loops -> 0..DeliveryTime]
           /\ \A v \in Loops \ {w} :
                 /\ pc'[v] = pc[v] /\ inflight'[v] = inflight[v] /\ size'[v] = size[v]
                 /\ age'[v] = age[v] /\ spent'[v] = spent[v]
           /\ \/ /\ inflight'[w] = 0 /\ size'[w] = 0 /\ age'[w] = 0 /\ spent'[w] = 0
                 /\ pc'[w] \in {"deliver", "unwound"} /\ overtaken' = overtaken \ {w}
              \/ /\ inflight[w] > 1 /\ inflight'[w] = inflight[w] - 1
                 /\ size'[w] = size[w] /\ age'[w] = age[w]
                 /\ spent'[w] = IF engine = "sqlite" THEN 0 ELSE spent[w]
                 /\ pc'[w] = "deliver" /\ overtaken' = overtaken
<1>1. w \in Alive /\ UNCHANGED <<queue, signalVars>>
    BY DEF EndDelivery, Panic
<1>2. DeliveryTime \in Nat /\ MaxAge \in Nat
    BY DurationTypes, BatchTimeType
<1>3. inflight[w] \in 1..BatchSize /\ pc[w] = "deliver"
    BY <1>1 DEF TypeOK, Alive
<1>4. CASE /\ inflight' = [inflight EXCEPT ![w] = @ - 1] /\ pc' = pc
           /\ EndBatch(w, inflight[w] = 1)
    <2>1. CASE inflight[w] = 1
        <3>1. /\ spent' = [spent EXCEPT ![w] = 0] /\ age' = [age EXCEPT ![w] = 0]
              /\ size' = [size EXCEPT ![w] = 0] /\ overtaken' = overtaken \ {w}
              /\ inflight' = [inflight EXCEPT ![w] = 0]
            BY <1>4, <2>1 DEF EndBatch
        <3> QED BY <1>1, <1>2, <1>3, <1>4, <3>1 DEF TypeOK
    <2>2. CASE inflight[w] # 1
        <3>1. /\ spent' = IF engine = "sqlite" THEN [spent EXCEPT ![w] = 0] ELSE spent
              /\ UNCHANGED <<age, size, overtaken>>
            BY <1>4, <2>2 DEF EndBatch
        <3> QED BY <1>1, <1>2, <1>3, <1>4, <2>2, <3>1 DEF TypeOK
    <2> QED BY <2>1, <2>2
<1>5. CASE /\ inflight' = [inflight EXCEPT ![w] = 0] /\ GoTo(w, "unwound")
           /\ EndBatch(w, TRUE)
    <2>1. /\ spent' = [spent EXCEPT ![w] = 0] /\ age' = [age EXCEPT ![w] = 0]
          /\ size' = [size EXCEPT ![w] = 0] /\ overtaken' = overtaken \ {w}
        BY <1>5 DEF EndBatch
    <2> QED BY <1>1, <1>2, <1>5, <2>1 DEF TypeOK, GoTo
<1> QED BY <1>4, <1>5 DEF EndDelivery, Panic

\* Cycles, the clock and the signal keep the types.
LEMMA TypeNext == TypeOK /\ BatchesFollowSteps /\ [Next]_vars => TypeOK'
<1> SUFFICES ASSUME TypeOK, BatchesFollowSteps, [Next]_vars PROVE TypeOK'
    OBVIOUS
<1>0. CASE UNCHANGED vars
    BY <1>0 DEF TypeOK, Alive, MaxAge, MaxDrain, StuckTicks, BatchTime, DeliveryTime,
                vars, setup, loopVars, batchVars, signalVars
<1> SUFFICES ASSUME Next PROVE TypeOK'
    BY <1>0
<1>a. UNCHANGED <<engine, timing, latency>>
    BY DEF Next, setup
<1>b. DeliveryTime' = DeliveryTime /\ MaxAge' = MaxAge /\ MaxDrain' = MaxDrain
    BY <1>a DEF DeliveryTime, StuckTicks, MaxAge, MaxDrain, BatchTime
<1>c. DeliveryTime \in Nat /\ MaxAge \in Nat /\ MaxDrain \in Nat
    BY DurationTypes, BatchTimeType
<1> USE <1>a, <1>b, <1>c DEF TypeOK, GoTo, batchVars, signalVars
<1>1. CASE Enqueue
    BY <1>1 DEF Enqueue, Alive
<1>2. CASE Tick
    <2>1. /\ age' \in [Loops -> 0..MaxAge] /\ spent' \in [Loops -> 0..DeliveryTime]
          /\ draining' \in [Loops -> 0..MaxDrain]
        <3> HIDE <1>b
        <3> QED BY <1>2 DEF Tick, Clocks, UpTo
    <2> QED BY <1>2, <2>1 DEF Tick, Clocks, Alive
<1>3. ASSUME NEW w \in Loops, Recover(w) PROVE TypeOK'
    <2>1. queue' \in 0..MaxQueue
        BY <1>3, UndoneType DEF Recover, UpTo
    <2>2. Stuck \subseteq Alive
        BY DEF Stuck
    <2>3. Alive' = Alive
        BY <1>3 DEF Recover, Alive
    <2> QED BY <1>3, <2>1, <2>2, <2>3 DEF Recover
<1>4. ASSUME NEW w \in Loops, Claim(w) PROVE TypeOK'
    <2>1. w \notin Alive
        BY <1>4 DEF Claim, Alive
    <2>2. \A v \in Loops \ {w} : pc'[v] = pc[v] /\ inflight'[v] = inflight[v]
        BY <1>4 DEF Claim
    <2>3. overtaken' \subseteq Alive'
        BY <1>4, <2>1, <2>2 DEF Claim, Alive
    <2>4. CASE GoTo(w, "rest") /\ UNCHANGED <<queue, inflight, size, late>>
        BY <1>4, <2>3, <2>4 DEF Claim
    <2>5. CASE queue > 0 /\ GoTo(w, "deliver")
        <3>1. UpTo(queue, BatchSize) \in 0..BatchSize /\ UpTo(queue, BatchSize) <= queue
            BY DEF UpTo
        <3>2. queue' \in 0..MaxQueue
            BY <1>4, <3>1 DEF Claim
        <3>3. inflight' \in [Loops -> 0..BatchSize] /\ size' \in [Loops -> 0..BatchSize]
            BY <1>4, <3>1 DEF Claim
        <3>4. late' \in [Loops -> 0..2]
            BY <1>4 DEF Claim, UpTo
        <3> QED BY <1>4, <2>3, <2>5, <3>2, <3>3, <3>4 DEF Claim
    <2> QED BY <1>4, <2>4, <2>5 DEF Claim
<1>5. ASSUME NEW w \in Loops, EndDelivery(w) \/ Panic(w) PROVE TypeOK'
    <2>1. overtaken' \subseteq Alive'
        <3> SUFFICES ASSUME NEW v \in overtaken' PROVE v \in Alive'
            OBVIOUS
        <3>1. v \in overtaken /\ v \in Loops /\ pc[v] = "deliver" /\ inflight[v] > 0
            BY <1>5, EndFacts DEF Alive
        <3>2. pc'[v] = "deliver" /\ inflight'[v] > 0
            BY <1>5, <3>1, EndFacts
        <3> QED BY <3>1, <3>2 DEF Alive
    <2> QED BY <1>5, <2>1, EndFacts
<1>6. ASSUME NEW w \in Loops, Join(w) \/ Check(w) \/ Rest(w) PROVE TypeOK'
    <2>1. w \notin overtaken
        BY <1>6 DEF Join, Check, Rest, Alive
    <2>2. overtaken' \subseteq Alive'
        BY <1>6, <2>1 DEF Join, Check, Rest, Alive
    <2> QED BY <1>6, <2>2 DEF Join, Check, Rest
<1>7. ASSUME NEW w \in Loops, Signal(w) PROVE TypeOK'
    BY <1>7 DEF Signal, Alive
<1> QED BY <1>1, <1>2, <1>3, <1>4, <1>5, <1>6, <1>7 DEF Next, Step

-----------------------------------------------------------------------------
(* The steps of a loop.                                                    *)

\* Only a loop that delivers has deliveries and clocks that run.
LEMMA BatchesNext ==
    ASSUME TypeOK, BatchesFollowSteps, [Next]_vars
    PROVE  BatchesFollowSteps'
<1>0. CASE UNCHANGED vars
    BY <1>0 DEF BatchesFollowSteps, vars, loopVars, batchVars
<1> SUFFICES ASSUME Next PROVE BatchesFollowSteps'
    BY <1>0
<1> USE DEF BatchesFollowSteps, TypeOK, GoTo, batchVars, signalVars
<1>1. CASE Enqueue
    BY <1>1 DEF Enqueue
<1>2. CASE Tick
    BY <1>2 DEF Tick, Clocks, Alive
<1>3. ASSUME NEW w \in Loops, Recover(w) PROVE BatchesFollowSteps'
    BY <1>3 DEF Recover
<1>4. ASSUME NEW w \in Loops, Claim(w) PROVE BatchesFollowSteps'
    <2>1. CASE GoTo(w, "rest") /\ UNCHANGED <<queue, inflight, size, late>>
        BY <1>4, <2>1 DEF Claim
    <2>2. CASE queue > 0 /\ GoTo(w, "deliver")
        <3>1. UpTo(queue, BatchSize) \in 1..BatchSize
            BY <2>2 DEF UpTo
        <3>2. /\ \A v \in Loops \ {w} : /\ pc'[v] = pc[v] /\ inflight'[v] = inflight[v]
                                        /\ size'[v] = size[v] /\ age'[v] = age[v]
                                        /\ spent'[v] = spent[v]
              /\ pc'[w] = "deliver"
              /\ inflight'[w] = UpTo(queue, BatchSize) /\ size'[w] = UpTo(queue, BatchSize)
            BY <1>4, <2>2 DEF Claim
        <3> QED BY <3>1, <3>2
    <2> QED BY <1>4, <2>1, <2>2 DEF Claim
<1>5. ASSUME NEW w \in Loops, EndDelivery(w) \/ Panic(w) PROVE BatchesFollowSteps'
    <2> SUFFICES ASSUME NEW v \in Loops
                 PROVE  /\ pc'[v] # "deliver" => inflight'[v] = 0
                        /\ inflight'[v] = 0 => size'[v] = 0 /\ age'[v] = 0 /\ spent'[v] = 0
                        /\ inflight'[v] <= size'[v]
        OBVIOUS
    <2>1. CASE v # w
        BY <1>5, <2>1, EndFacts
    <2>2. CASE v = w
        BY <1>5, <2>2, EndFacts
    <2> QED BY <2>1, <2>2
<1>6. ASSUME NEW w \in Loops, Join(w) \/ Check(w) \/ Rest(w) PROVE BatchesFollowSteps'
    BY <1>6 DEF Join, Check, Rest
<1>7. ASSUME NEW w \in Loops, Signal(w) PROVE BatchesFollowSteps'
    BY <1>7 DEF Signal
<1> QED BY <1>1, <1>2, <1>3, <1>4, <1>5, <1>6, <1>7 DEF Next, Step

-----------------------------------------------------------------------------
(* The clocks.                                                             *)

\* A delivery that ends before the last takes no time out of what has elapsed.
LEMMA EndKeepsElapsed ==
    ASSUME TypeOK, BatchesFollowSteps, [Next]_vars, NEW w \in Loops,
           EndDelivery(w) \/ Panic(w), inflight'[w] > 0, setup' = setup
    PROVE  Elapsed(w) \in Nat /\ Elapsed(w)' \in Nat /\ Elapsed(w) <= Elapsed(w)'
<1>1. /\ inflight[w] > 1 /\ inflight'[w] = inflight[w] - 1 /\ size'[w] = size[w]
      /\ spent'[w] = IF engine = "sqlite" THEN 0 ELSE spent[w]
    BY EndFacts
<1>2. /\ DeliveryTime \in Nat /\ DeliveryTime' = DeliveryTime /\ engine' = engine
      /\ spent[w] \in Nat /\ spent[w] <= DeliveryTime
    BY DurationTypes DEF setup, DeliveryTime, TypeOK
<1>3. CASE engine = "postgres"
    BY <1>1, <1>2, <1>3 DEF Elapsed
<1>4. CASE engine = "sqlite"
    <2> DEFINE m == size[w] - inflight[w]
               d == DeliveryTime
    <2>1. m \in Nat /\ size'[w] - inflight'[w] = m + 1
        BY <1>1 DEF TypeOK, BatchesFollowSteps
    <2>2. (m + 1) * d = m * d + d /\ m * d \in Nat
        <3> HIDE DEF m, d
        <3> QED BY <1>2, <2>1, OneMore DEF d
    <2>3. Elapsed(w) = m * d + spent[w] /\ Elapsed(w)' = (m + 1) * d
        <3>1. Elapsed(w)' = (size'[w] - inflight'[w]) * DeliveryTime' + spent'[w]
            BY <1>2, <1>4 DEF Elapsed
        <3>2. (m + 1) * d \in Nat
            BY <1>2, <2>1, OneMore
        <3> QED BY <1>1, <1>2, <1>4, <2>1, <3>1, <3>2 DEF Elapsed
    <2> HIDE DEF m
    <2> QED BY <1>2, <2>2, <2>3
<1> QED BY <1>3, <1>4 DEF TypeOK

\* While a batch is alive a tick adds one to what has elapsed.
LEMMA TickElapses ==
    ASSUME TypeOK, BatchesFollowSteps, NEW w \in Alive, Tick, setup' = setup
    PROVE  Elapsed(w)' = Elapsed(w) + 1 /\ Elapsed(w) \in Nat
<1>1. /\ spent'[w] = spent[w] + 1 /\ spent[w] \in Nat
      /\ size' = size /\ inflight' = inflight
      /\ DeliveryTime' = DeliveryTime /\ engine' = engine
    BY DurationTypes DEF Tick, Clocks, UpTo, Alive, TypeOK, setup, DeliveryTime
<1>2. Elapsed(w) \in Nat
    BY ElapsedIsBounded DEF Alive
<1>3. (size[w] - inflight[w]) * DeliveryTime \in Nat
    <2>1. size[w] - inflight[w] \in Nat
        BY DEF TypeOK, BatchesFollowSteps, Alive
    <2> QED BY <2>1, DurationTypes, OneMore
<1> QED BY <1>1, <1>2, <1>3 DEF Elapsed

\* A loop that is left alone has the same time behind it.
LEMMA ElapsedStays ==
    ASSUME NEW w \in Loops, setup' = setup, inflight'[w] = inflight[w], size'[w] = size[w],
           spent'[w] = spent[w]
    PROVE  Elapsed(w)' = Elapsed(w)
  BY DEF Elapsed, DeliveryTime, setup

ElapsedOK ==
    \A w \in Loops : /\ Elapsed(w) \in Nat
                     /\ inflight[w] = 0 => Elapsed(w) = 0

\* Without a batch nothing has elapsed.
LEMMA ElapsedType == TypeOK /\ BatchesFollowSteps => ElapsedOK
<1> SUFFICES ASSUME TypeOK, BatchesFollowSteps, NEW w \in Loops
             PROVE  Elapsed(w) \in Nat /\ (inflight[w] = 0 => Elapsed(w) = 0)
    BY DEF ElapsedOK
<1>1. CASE inflight[w] = 0
    <2>1. size[w] - inflight[w] = 0 /\ spent[w] = 0 /\ 0 * DeliveryTime = 0
        BY <1>1, DurationTypes DEF BatchesFollowSteps
    <2> QED BY <2>1 DEF Elapsed
<1>2. CASE inflight[w] > 0
    BY <1>2, ElapsedIsBounded
<1> QED BY <1>1, <1>2 DEF TypeOK

\* The same in the next state.
LEMMA ElapsedTypeNext == TypeOK' /\ BatchesFollowSteps' => ElapsedOK'
  BY ElapsedType, PTL

\* A batch is never older than the deliveries it has behind it may have taken.
LEMMA AgesNext ==
    ASSUME TypeOK, TypeOK', BatchesFollowSteps, BatchesFollowSteps', AgesFollowDeliveries,
           [Next]_vars
    PROVE  AgesFollowDeliveries'
<1>0. setup' = setup
    BY DEF Next, vars
<1>1. /\ \A w \in Loops : Elapsed(w)' \in Nat
      /\ \A w \in Loops : inflight'[w] = 0 => Elapsed(w)' = 0
    <2>1. ElapsedOK'
        BY ElapsedTypeNext
    <2> QED BY <2>1 DEF ElapsedOK
<1>a. ASSUME NEW v \in Loops, inflight'[v] = inflight[v], size'[v] = size[v],
             spent'[v] = spent[v], age'[v] = age[v]
      PROVE  age'[v] <= Elapsed(v)'
    BY <1>0, <1>a, ElapsedStays DEF AgesFollowDeliveries
<1>b. ASSUME NEW v \in Loops, inflight'[v] = 0
      PROVE  age'[v] <= Elapsed(v)'
    <2>1. Elapsed(v)' = 0
        BY <1>1, <1>b
    <2> QED BY <1>b, <2>1 DEF BatchesFollowSteps
<1> SUFFICES ASSUME NEW v \in Loops PROVE age'[v] <= Elapsed(v)'
    BY DEF AgesFollowDeliveries
<1>2. CASE UNCHANGED vars
    BY <1>2, <1>a DEF vars, loopVars, batchVars
<1>3. CASE Tick
    <2>1. CASE v \in Alive
        <3>1. age'[v] = UpTo(age[v] + 1, MaxAge)
            BY <1>3, <2>1 DEF Tick, Clocks
        <3>2. Elapsed(v)' = Elapsed(v) + 1 /\ Elapsed(v) \in Nat
            BY <1>0, <1>3, <2>1, TickElapses
        <3>3. age[v] \in Nat /\ age[v] <= Elapsed(v) /\ MaxAge \in Nat
            BY BatchTimeType DEF TypeOK, AgesFollowDeliveries
        <3> QED BY <3>1, <3>2, <3>3 DEF UpTo
    <2>2. CASE v \notin Alive
        BY <1>3, <1>a, <2>2 DEF Tick, Clocks
    <2> QED BY <2>1, <2>2
<1>4. ASSUME NEW w \in Loops, Claim(w) PROVE age'[v] <= Elapsed(v)'
    <2>1. CASE v = w
        <3>1. age'[w] = 0
            BY <1>4 DEF Claim, BatchesFollowSteps
        <3>2. Elapsed(w)' \in Nat
            BY <1>1
        <3> QED BY <2>1, <3>1, <3>2
    <2>2. CASE v # w
        BY <1>4, <1>a, <2>2 DEF Claim, TypeOK
    <2> QED BY <2>1, <2>2
<1>5. ASSUME NEW w \in Loops, EndDelivery(w) \/ Panic(w) PROVE age'[v] <= Elapsed(v)'
    <2>1. CASE v # w
        BY <1>5, <1>a, <2>1, EndFacts
    <2>2. CASE v = w /\ inflight'[w] = 0
        BY <1>b, <2>2
    <2>3. CASE v = w /\ inflight'[w] # 0
        <3>1. inflight'[w] > 0 /\ age'[w] = age[w]
            BY <1>5, <2>3, EndFacts DEF TypeOK
        <3>2. Elapsed(w) \in Nat /\ Elapsed(w)' \in Nat /\ Elapsed(w) <= Elapsed(w)'
            BY <1>0, <1>5, <3>1, EndKeepsElapsed
        <3>3. age[w] \in Nat /\ age[w] <= Elapsed(w)
            BY DEF TypeOK, AgesFollowDeliveries
        <3> QED BY <2>3, <3>1, <3>2, <3>3
    <2> QED BY <2>1, <2>2, <2>3
<1> QED
    BY <1>2, <1>3, <1>4, <1>5, <1>a
    DEF Next, Step, Enqueue, Recover, Join, Check, Rest, Signal, batchVars, signalVars

\* No batch is taken for stuck before a batch of its size may be done.
LEMMA ReaperNext ==
    ASSUME TypeOK, TypeOK', BatchesFollowSteps, AgesFollowDeliveries, ReaperSparesLiveBatches,
           [Next]_vars
    PROVE  ReaperSparesLiveBatches'
<1>0. /\ setup' = setup /\ StuckTicks' = StuckTicks
      /\ \A n : BatchTime(n)' = BatchTime(n)
    BY DEF Next, vars, setup, StuckTicks, BatchTime, DeliveryTime
<1> SUFFICES ASSUME NEW v \in overtaken' PROVE BatchTime(size'[v]) > StuckTicks
    BY <1>0 DEF ReaperSparesLiveBatches, BatchTime, DeliveryTime, setup
<1>a. CASE v \in overtaken /\ size'[v] = size[v]
    BY <1>a DEF ReaperSparesLiveBatches
<1>1. ASSUME NEW w \in Loops, Recover(w) PROVE BatchTime(size'[v]) > StuckTicks
    <2>1. size' = size /\ (v \in overtaken \/ v \in Stuck)
        BY <1>1 DEF Recover, batchVars
    <2>2. CASE v \in Stuck
        <3>1. v \in Loops /\ inflight[v] > 0 /\ age[v] > StuckTicks
            BY <2>2 DEF Stuck, Alive
        <3>2. age[v] <= Elapsed(v) /\ age[v] \in Nat /\ StuckTicks \in Nat
            BY <3>1, DurationTypes DEF AgesFollowDeliveries, TypeOK
        <3>3. /\ Elapsed(v) <= BatchTime(size[v])
              /\ Elapsed(v) \in Nat /\ BatchTime(size[v]) \in Nat
            BY <3>1, ElapsedIsBounded
        <3> QED BY <2>1, <3>1, <3>2, <3>3
    <2> QED BY <1>a, <2>1, <2>2
<1>2. ASSUME NEW w \in Loops, Claim(w) PROVE BatchTime(size'[v]) > StuckTicks
    <2>1. v \in overtaken /\ v # w
        BY <1>2 DEF Claim, TypeOK, Alive
    <2>2. size'[v] = size[v]
        BY <1>2, <2>1 DEF Claim, TypeOK, Alive
    <2> QED BY <1>a, <2>1, <2>2
<1>3. ASSUME NEW w \in Loops, EndDelivery(w) \/ Panic(w)
      PROVE  BatchTime(size'[v]) > StuckTicks
    <2>1. v \in overtaken /\ v \in Loops /\ size'[v] = size[v]
        <3>1. v \in Loops /\ inflight'[v] # 0
            BY DEF TypeOK, Alive
        <3> QED BY <1>3, <3>1, EndFacts
    <2> QED BY <1>a, <2>1
<1> QED
    BY <1>1, <1>2, <1>3, <1>a
    DEF Next, Step, Enqueue, Tick, Clocks, Join, Check, Rest, Signal, batchVars, signalVars,
        vars, loopVars

-----------------------------------------------------------------------------
(* Shutting down.                                                          *)

\* Whoever has claimed or drained since its signal meets the future at the end
\* of the batch, and returns.
LEMMA LateNext ==
    ASSUME TypeOK, BatchesFollowSteps, LateLoopsStop, [Next]_vars
    PROVE  LateLoopsStop'
<1>0. CASE UNCHANGED vars
    BY <1>0 DEF LateLoopsStop, vars, loopVars, signalVars
<1> SUFFICES ASSUME Next PROVE LateLoopsStop'
    BY <1>0
<1> USE DEF LateLoopsStop, GoTo, batchVars, signalVars
<1>1. CASE Enqueue
    BY <1>1 DEF Enqueue
<1>2. CASE Tick
    BY <1>2 DEF Tick, Clocks
<1>3. ASSUME NEW w \in Loops, Recover(w) PROVE LateLoopsStop'
    BY <1>3 DEF Recover, TypeOK
<1>4. ASSUME NEW w \in Loops, Claim(w) PROVE LateLoopsStop'
    <2>1. CASE GoTo(w, "rest") /\ UNCHANGED <<queue, inflight, size, late>>
        BY <1>4, <2>1 DEF Claim, TypeOK
    <2>2. CASE queue > 0 /\ GoTo(w, "deliver")
        <3>1. late[w] = 0
            BY <1>4 DEF Claim, TypeOK
        <3>2. late' = [late EXCEPT ![w] = IF w \in signalled THEN UpTo(@ + 1, 2) ELSE @]
            BY <1>4, <2>2 DEF Claim, TypeOK
        <3>3. late'[w] = IF w \in signalled THEN 1 ELSE 0
            BY <3>1, <3>2 DEF UpTo, TypeOK
        <3> QED BY <1>4, <2>2, <3>2, <3>3 DEF Claim, TypeOK
    <2> QED BY <1>4, <2>1, <2>2 DEF Claim
<1>5. ASSUME NEW w \in Loops, EndDelivery(w) \/ Panic(w) PROVE LateLoopsStop'
    <2>1. pc[w] = "deliver" /\ pc'[w] \in {"deliver", "unwound"}
        BY <1>5, EndFacts DEF Alive
    <2> QED BY <1>5, <2>1, EndFacts
<1>6. ASSUME NEW w \in Loops, Join(w) \/ Check(w) \/ Rest(w) PROVE LateLoopsStop'
    BY <1>6 DEF Join, Check, Rest, TypeOK
<1>7. ASSUME NEW w \in Loops, Signal(w) PROVE LateLoopsStop'
    BY <1>7 DEF Signal
<1> QED BY <1>1, <1>2, <1>3, <1>4, <1>5, <1>6, <1>7 DEF Next, Step

\* A drain is no longer than the deliveries it has behind it may have taken.
LEMMA DrainsNext ==
    ASSUME TypeOK, TypeOK', BatchesFollowSteps, BatchesFollowSteps', DrainsFollowDeliveries,
           [Next]_vars
    PROVE  DrainsFollowDeliveries'
<1> DEFINE Stops == {"deliver", "check", "returned", "unwound"}
<1>0. /\ setup' = setup /\ BatchTime(BatchSize)' = BatchTime(BatchSize)
      /\ BatchTime(BatchSize) \in Nat /\ BatchTime(BatchSize) + 1 = MaxDrain
    BY BatchTimeType DEF Next, vars, setup, BatchTime, DeliveryTime, MaxDrain
<1>1. \A w \in Loops : Elapsed(w)' \in Nat
    <2>1. ElapsedOK'
        BY ElapsedTypeNext
    <2> QED BY <2>1 DEF ElapsedOK
<1>a. \A v \in Loops :
          /\ draining[v] \in Nat
          /\ draining[v] > 0 => v \in signalled /\ pc[v] \in Stops
          /\ inflight[v] > 0 => draining[v] <= Elapsed(v)
          /\ draining[v] <= BatchTime(BatchSize)
    BY DEF DrainsFollowDeliveries, TypeOK
<1> SUFFICES ASSUME NEW v \in Loops
             PROVE  /\ draining'[v] > 0 => v \in signalled' /\ pc'[v] \in Stops
                    /\ inflight'[v] > 0 => draining'[v] <= Elapsed(v)'
                    /\ draining'[v] <= BatchTime(BatchSize)
    BY <1>0 DEF DrainsFollowDeliveries
<1> DEFINE Goal == /\ draining'[v] > 0 => v \in signalled' /\ pc'[v] \in Stops
                   /\ inflight'[v] > 0 => draining'[v] <= Elapsed(v)'
                   /\ draining'[v] <= BatchTime(BatchSize)
<1>b. ASSUME inflight'[v] = inflight[v], size'[v] = size[v], spent'[v] = spent[v],
             draining'[v] = draining[v], pc'[v] = pc[v] \/ pc'[v] \in Stops,
             v \in signalled => v \in signalled'
      PROVE  Goal
    <2>1. Elapsed(v)' = Elapsed(v)
        BY <1>0, <1>b, ElapsedStays
    <2> QED BY <1>a, <1>b, <2>1
<1>c. ASSUME draining[v] = 0, draining'[v] = 0
      PROVE  Goal
    BY <1>0, <1>1, <1>c
<1>2. CASE UNCHANGED vars
    BY <1>2, <1>b DEF vars, loopVars, batchVars, signalVars
<1>3. CASE Tick
    <2>1. CASE v \in Alive \cap signalled
        <3>1. /\ draining'[v] = UpTo(draining[v] + 1, MaxDrain) /\ signalled' = signalled
              /\ pc' = pc /\ pc[v] = "deliver"
              /\ inflight[v] > 0 /\ inflight'[v] > 0 /\ size' = size /\ inflight' = inflight
            BY <1>3, <2>1 DEF Tick, Clocks, Alive
        <3>2. Elapsed(v)' = Elapsed(v) + 1 /\ Elapsed(v) \in Nat
            BY <1>0, <1>3, <2>1, TickElapses
        <3>3. Elapsed(v)' <= BatchTime(BatchSize)
            <4>1. BoundedOK'
                BY BoundedNext
            <4> QED BY <1>0, <3>1, <4>1 DEF BoundedOK
        <3>4. draining'[v] = draining[v] + 1 /\ draining[v] <= Elapsed(v)
            BY <1>0, <1>a, <3>1, <3>2, <3>3 DEF UpTo
        <3> QED BY <1>0, <1>a, <2>1, <3>1, <3>2, <3>3, <3>4
    <2>2. CASE v \in Alive \ signalled
        BY <1>3, <1>a, <1>c, <2>2 DEF Tick, Clocks
    <2>3. CASE v \notin Alive
        BY <1>3, <1>b, <2>3 DEF Tick, Clocks
    <2> QED BY <2>1, <2>2, <2>3
<1>4. ASSUME NEW w \in Loops, Recover(w) \/ Claim(w) \/ Rest(w) PROVE Goal
    <2>1. CASE v = w
        <3>1. draining' = draining /\ pc[w] \notin Stops
            BY <1>4 DEF Recover, Claim, Rest, signalVars
        <3> QED BY <1>a, <1>c, <2>1, <3>1
    <2>2. CASE v # w
        BY <1>4, <1>b, <2>2 DEF Recover, Claim, Rest, GoTo, signalVars, batchVars, TypeOK
    <2> QED BY <2>1, <2>2
<1>5. ASSUME NEW w \in Loops, EndDelivery(w) \/ Panic(w) PROVE Goal
    <2>0. draining' = draining /\ signalled' = signalled
        BY <1>5, EndFacts DEF signalVars
    <2>1. CASE v # w
        BY <1>5, <1>b, <2>0, <2>1, EndFacts
    <2>2. CASE v = w
        <3>1. inflight[v] > 0 /\ pc'[v] \in Stops
            BY <1>5, <2>2, EndFacts DEF Alive
        <3>2. inflight'[v] > 0 => Elapsed(v) <= Elapsed(v)' /\ Elapsed(v) \in Nat
            BY <1>0, <1>5, <2>2, EndKeepsElapsed
        <3> QED BY <1>1, <1>a, <2>0, <3>1, <3>2
    <2> QED BY <2>1, <2>2
<1>6. ASSUME NEW w \in Loops, Join(w) PROVE Goal
    BY <1>6, <1>b DEF Join, GoTo, signalVars, batchVars, TypeOK
<1>7. ASSUME NEW w \in Loops, Check(w) PROVE Goal
    <2>1. CASE v = w /\ w \notin signalled
        BY <1>7, <1>a, <1>c, <2>1 DEF Check, signalVars
    <2>2. CASE v # w \/ w \in signalled
        BY <1>7, <1>b, <2>2 DEF Check, GoTo, signalVars, batchVars, TypeOK
    <2> QED BY <2>1, <2>2
<1>8. ASSUME NEW w \in Loops, Signal(w) PROVE Goal
    BY <1>8, <1>b DEF Signal, batchVars
<1>9. CASE Enqueue
    BY <1>9, <1>b DEF Enqueue, batchVars, signalVars
<1> QED
    BY <1>2, <1>3, <1>4, <1>5, <1>6, <1>7, <1>8, <1>9 DEF Next, Step

-----------------------------------------------------------------------------
(* The theorems.                                                           *)

\* No loop has a batch at first.
LEMMA InvInit == Init => LoopInv
<1> SUFFICES ASSUME Init PROVE LoopInv
    OBVIOUS
<1>1. TypeOK
    BY TypeInit
<1>2. BatchesFollowSteps
    BY DEF Init, BatchesFollowSteps
<1>3. AgesFollowDeliveries
    BY <1>1, <1>2, ElapsedType DEF ElapsedOK, Init, AgesFollowDeliveries
<1>4. DrainsFollowDeliveries
    BY <1>1, BatchTimeType DEF Init, DrainsFollowDeliveries
<1> QED
    BY <1>1, <1>2, <1>3, <1>4 DEF Init, LoopInv, LateLoopsStop, ReaperSparesLiveBatches

\* The parts of the invariant hold each other up.
LEMMA InvNext == LoopInv /\ [Next]_vars => LoopInv'
<1> SUFFICES ASSUME LoopInv, [Next]_vars PROVE LoopInv'
    OBVIOUS
<1>1. /\ TypeOK /\ BatchesFollowSteps /\ AgesFollowDeliveries
      /\ LateLoopsStop /\ DrainsFollowDeliveries /\ ReaperSparesLiveBatches
    BY DEF LoopInv
<1>2. TypeOK' /\ BatchesFollowSteps'
    BY <1>1, TypeNext, BatchesNext
<1>3. AgesFollowDeliveries'
    BY <1>1, <1>2, AgesNext
<1>4. LateLoopsStop'
    BY <1>1, LateNext
<1>5. DrainsFollowDeliveries'
    BY <1>1, <1>2, DrainsNext
<1>6. ReaperSparesLiveBatches'
    BY <1>1, <1>2, ReaperNext
<1> QED BY <1>2, <1>3, <1>4, <1>5, <1>6 DEF LoopInv

\* The strengthened invariant holds in every reachable state.
LEMMA Invariance == Spec => []LoopInv
  BY InvInit, InvNext, PTL DEF Spec

\* Positions, counts and clocks keep their types, and only batches that are
\* alive are counted as overtaken.
THEOREM TypeCorrect == Spec => []TypeOK
<1>1. LoopInv => TypeOK
    BY DEF LoopInv
<1> QED BY <1>1, Invariance, PTL

\* recover_stuck_deliveries of one loop and the batch of another: none is taken
\* early, over either engine and with whatever durations the builder accepts.
THEOREM LiveBatchesSpared == Spec => []ReaperSparesLiveBatches
<1>1. LoopInv => ReaperSparesLiveBatches
    BY DEF LoopInv
<1> QED BY <1>1, Invariance, PTL

\* run_graceful takes at most one more batch after its signal.
THEOREM OneLateBatch == Spec => []AtMostOneLateBatch
<1>1. LoopInv => AtMostOneLateBatch
    BY DEF LoopInv, LateLoopsStop, AtMostOneLateBatch
<1> QED BY <1>1, Invariance, PTL

\* run_graceful delivers for no longer after its signal than one batch takes.
THEOREM BoundedDrain == Spec => []DrainIsBounded
<1>1. LoopInv => DrainIsBounded
    BY DEF LoopInv, DrainsFollowDeliveries, DrainIsBounded
<1> QED BY <1>1, Invariance, PTL
=============================================================================
