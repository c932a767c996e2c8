------------------------ MODULE SqliteDeliveryProofs ------------------------
(***************************************************************************)
(* Proofs about SqliteDelivery, for any number of endpoints, events, run   *)
(* loops and callers, any batch size and circuit threshold.                *)
(***************************************************************************)
EXTENDS SqliteDelivery, FiniteSetTheorems, SequenceTheorems, TLAPS

USE SqliteAssumption DEF SqliteAssumption

-----------------------------------------------------------------------------
(* Batches as sequences.                                                   *)

\* A batch is its first event and the rest.
LEMMA HeadAndTail ==
    ASSUME NEW s \in Seq(Events), s # <<>>
    PROVE  /\ Head(s) \in Events
           /\ Tail(s) \in Seq(Events)
           /\ Len(s) = 1 <=> Tail(s) = <<>>
           /\ Range(s) = {Head(s)} \cup Range(Tail(s))
           /\ IsInjective(s) => IsInjective(Tail(s)) /\ Head(s) \notin Range(Tail(s))
<1>1. /\ Head(s) \in Events /\ Tail(s) \in Seq(Events)
      /\ Len(Tail(s)) = Len(s) - 1 /\ Len(s) \in Nat \ {0}
      /\ \A i \in 1..Len(Tail(s)) : Tail(s)[i] = s[i + 1]
      /\ Head(s) = s[1]
    BY HeadTailProperties, EmptySeq
<1>2. Len(s) = 1 <=> Tail(s) = <<>>
    <2>1. \A r \in Seq(Events) : r # <<>> => Len(r) \in Nat \ {0}
        BY EmptySeq
    <2>2. Len(Tail(s)) = 0 => Tail(s) = <<>>
        BY <1>1, <2>1
    <2>3. Tail(s) = <<>> => Len(Tail(s)) = 0
        BY EmptySeq
    <2> QED BY <1>1, <2>2, <2>3
<1>3. /\ Range(s) = {s[i] : i \in 1..Len(s)}
      /\ Range(Tail(s)) = {Tail(s)[i] : i \in 1..Len(Tail(s))}
    <2>1. DOMAIN s = 1..Len(s) /\ DOMAIN Tail(s) = 1..Len(Tail(s))
        BY <1>1, LenProperties
    <2> QED BY <2>1 DEF Range
<1>4. \A i \in 1..Len(s) : i = 1 \/ i - 1 \in 1..Len(Tail(s))
    BY <1>1
<1>5. \A i \in 1..Len(Tail(s)) : i + 1 \in 1..Len(s)
    BY <1>1
<1>6. Range(s) = {Head(s)} \cup Range(Tail(s))
    <2>1. ASSUME NEW i \in 1..Len(s) PROVE s[i] \in {Head(s)} \cup Range(Tail(s))
        BY <1>1, <1>3, <1>4
    <2>2. ASSUME NEW i \in 1..Len(Tail(s)) PROVE Tail(s)[i] \in Range(s)
        BY <1>1, <1>3, <1>5
    <2>3. Head(s) \in Range(s)
        BY <1>1, <1>3
    <2> QED BY <1>3, <2>1, <2>2, <2>3
<1>7. ASSUME IsInjective(s)
      PROVE  IsInjective(Tail(s)) /\ Head(s) \notin Range(Tail(s))
    <2>1. \A i, j \in 1..Len(s) : s[i] = s[j] => i = j
        BY <1>7, LenProperties DEF IsInjective
    <2>2. DOMAIN Tail(s) = 1..Len(Tail(s))
        BY <1>1, LenProperties
    <2>3. ASSUME NEW i \in 1..Len(Tail(s)), NEW j \in 1..Len(Tail(s)), Tail(s)[i] = Tail(s)[j]
          PROVE  i = j
        BY <1>1, <1>5, <2>1, <2>3
    <2>4. ASSUME NEW i \in 1..Len(Tail(s)) PROVE Tail(s)[i] # Head(s)
        <3>1. i + 1 \in 1..Len(s) /\ 1 \in 1..Len(s) /\ i + 1 # 1
            BY <1>1, <1>5
        <3> QED BY <1>1, <2>1, <3>1
    <2> QED BY <1>3, <2>2, <2>3, <2>4 DEF IsInjective
<1> QED BY <1>1, <1>2, <1>6, <1>7

\* A batch that has kept one more event.
LEMMA OneMoreKept ==
    ASSUME NEW s \in Seq(Events), NEW e \in Events
    PROVE  /\ Append(s, e) \in Seq(Events) /\ Append(s, e) # <<>>
           /\ Range(Append(s, e)) = Range(s) \cup {e}
           /\ IsInjective(s) /\ e \notin Range(s) => IsInjective(Append(s, e))
<1> DEFINE t == Append(s, e)
<1>1. /\ t \in Seq(Events) /\ t # <<>> /\ Len(t) = Len(s) + 1 /\ Len(s) \in Nat
      /\ \A i \in 1..Len(s) : t[i] = s[i]
      /\ t[Len(s) + 1] = e
    BY AppendProperties, LenProperties
<1> HIDE DEF t
<1>2. Range(s) = {s[i] : i \in 1..Len(s)} /\ Range(t) = {t[i] : i \in 1..Len(t)}
    BY <1>1, RangeEquality
<1>3. \A i \in 1..Len(t) : i \in 1..Len(s) \/ i = Len(s) + 1
    BY <1>1
<1>4. \A i \in 1..Len(s) : i \in 1..Len(t)
    BY <1>1
<1>5. Range(t) = Range(s) \cup {e}
    <2>1. Len(s) + 1 \in 1..Len(t)
        BY <1>1
    <2>2. \A i \in 1..Len(t) : t[i] \in Range(s) \cup {e}
        BY <1>1, <1>2, <1>3
    <2>3. \A i \in 1..Len(s) : s[i] \in Range(t)
        BY <1>1, <1>2, <1>4
    <2> QED BY <1>1, <1>2, <2>1, <2>2, <2>3
<1>6. ASSUME IsInjective(s), e \notin Range(s) PROVE IsInjective(t)
    <2>1. /\ \A i, j \in 1..Len(s) : s[i] = s[j] => i = j
          /\ DOMAIN t = 1..Len(t)
        BY <1>1, <1>6, LenProperties DEF IsInjective
    <2>2. \A i \in 1..Len(s) : s[i] # e
        BY <1>2, <1>6
    <2>3. ASSUME NEW i \in 1..Len(t), NEW j \in 1..Len(t), t[i] = t[j] PROVE i = j
        BY <1>1, <1>3, <2>1, <2>2, <2>3
    <2> QED BY <2>1, <2>3 DEF IsInjective
<1> QED BY <1>1, <1>5, <1>6 DEF t

\* The empty batch.
LEMMA EmptyBatch == <<>> \in Seq(Events) /\ Range(<<>>) = {} /\ IsInjective(<<>>)
<1>1. <<>> \in Seq(Events) /\ DOMAIN <<>> = {}
    BY EmptySeq, LenProperties
<1> QED BY <1>1 DEF Range, IsInjective

\* A batch that is selected has each of its events once.
LEMMA Selected ==
    ASSUME NEW S \in SUBSET Events,
           NEW ids \in Injection(1..(IF Cardinality(S) < BatchSize THEN Cardinality(S)
                                     ELSE BatchSize), S)
    PROVE  ids \in Seq(Events) /\ IsInjective(ids) /\ Range(ids) \subseteq S
<1> DEFINE n == IF Cardinality(S) < BatchSize THEN Cardinality(S) ELSE BatchSize
<1>1. n \in Nat
    BY FS_Subset, FS_CardinalityType
<1> HIDE DEF n
<1>2. ids \in [1..n -> S] /\ IsInjective(ids)
    BY DEF Injection, n
<1>3. ids \in Seq(Events)
    BY <1>1, <1>2, SeqDef
<1>4. Range(ids) \subseteq S
    BY <1>2 DEF Range
<1> QED BY <1>2, <1>3, <1>4

-----------------------------------------------------------------------------
(* The steps of a run loop.                                                *)

Phases == Claiming \cup Delivering

LoopTypes ==
    /\ phase \in [Workers -> Phases]
    /\ todo \in [Workers -> Seq(Events)]
    /\ done \in [Workers -> Seq(Events)]
    /\ snapshot \in [Workers -> MaxAttemptsValues \cup {0}]

\* What a step does to a loop other than the one that takes it.
Steady(v) ==
    /\ phase'[v] = phase[v] /\ todo'[v] = todo[v] /\ done'[v] = done[v]
    /\ snapshot'[v] = snapshot[v]

\* A loop goes to a phase with a batch.
LEMMA GoToFacts ==
    ASSUME LoopTypes, NEW w \in Workers, NEW ph \in Phases, NEW ids \in Seq(Events),
           GoTo(w, ph, ids)
    PROVE  /\ LoopTypes' /\ call' = call /\ \A v \in Workers \ {w} : Steady(v)
           /\ phase'[w] = ph /\ todo'[w] = ids /\ done'[w] = <<>>
  BY EmptyBatch DEF GoTo, LoopTypes, Steady

\* A claiming phase goes on to the next event, or the loop to the next phase
\* with what this one has kept, or back to the start if that is nothing.
LEMMA AdvanceFacts ==
    ASSUME LoopTypes, NEW w \in Workers, todo[w] # <<>>, NEW kept \in Seq(Events),
           NEW next \in Phases, Advance(w, kept, next)
    PROVE  /\ LoopTypes' /\ call' = call /\ \A v \in Workers \ {w} : Steady(v)
           /\ \/ /\ Tail(todo[w]) # <<>> /\ phase'[w] = phase[w]
                 /\ todo'[w] = Tail(todo[w]) /\ done'[w] = kept
              \/ /\ Tail(todo[w]) = <<>> /\ kept # <<>>
                 /\ phase'[w] = next /\ todo'[w] = kept /\ done'[w] = <<>>
              \/ phase'[w] = "recover" /\ todo'[w] = <<>> /\ done'[w] = <<>>
<1>1. todo[w] \in Seq(Events)
    BY DEF LoopTypes
<1>2. Tail(todo[w]) \in Seq(Events) /\ (Len(todo[w]) = 1 <=> Tail(todo[w]) = <<>>)
    BY <1>1, HeadAndTail
<1>3. CASE Len(todo[w]) = 1
    <2>1. GoTo(w, IF kept = <<>> THEN "recover" ELSE next, kept)
        BY <1>3 DEF Advance
    <2>2. (IF kept = <<>> THEN "recover" ELSE next) \in Phases
        BY DEF Phases, Claiming
    <2> QED BY <1>2, <1>3, <2>1, <2>2, GoToFacts
<1>4. CASE Len(todo[w]) # 1
    <2>1. /\ todo' = [todo EXCEPT ![w] = Tail(todo[w])]
          /\ done' = [done EXCEPT ![w] = kept]
          /\ phase' = phase /\ snapshot' = snapshot /\ call' = call
        BY <1>4 DEF Advance
    <2>2. LoopTypes' /\ \A v \in Workers \ {w} : Steady(v)
        BY <1>2, <2>1 DEF LoopTypes, Steady
    <2>3. todo'[w] = Tail(todo[w]) /\ done'[w] = kept
        BY <2>1 DEF LoopTypes
    <2>4. Tail(todo[w]) # <<>>
        BY <1>2, <1>4
    <2> QED BY <2>1, <2>2, <2>3, <2>4
<1> QED BY <1>3, <1>4

\* A delivery ends and the loop goes on to the next event of its batch.
LEMMA FinishFacts ==
    ASSUME LoopTypes, NEW w \in Workers, todo[w] # <<>>, Finish(w)
    PROVE  /\ LoopTypes' /\ call' = call /\ \A v \in Workers \ {w} : Steady(v)
           /\ todo'[w] = Tail(todo[w]) /\ done'[w] = <<>>
           /\ phase'[w] = IF Tail(todo[w]) = <<>> THEN "recover" ELSE "deliver"
<1>1. todo[w] \in Seq(Events)
    BY DEF LoopTypes
<1>2. Tail(todo[w]) \in Seq(Events) /\ (Len(todo[w]) = 1 <=> Tail(todo[w]) = <<>>)
    BY <1>1, HeadAndTail
<1>3. {"recover", "deliver"} \subseteq Phases
    BY DEF Phases, Claiming, Delivering
<1> QED BY <1>2, <1>3, GoToFacts DEF Finish

\* A delivery takes a turn.
LEMMA TurnFacts ==
    ASSUME LoopTypes, NEW w \in Workers, NEW ph \in Phases,
           phase' = [phase EXCEPT ![w] = ph], UNCHANGED <<todo, done>>,
           snapshot' \in [Workers -> MaxAttemptsValues \cup {0}],
           \A v \in Workers \ {w} : snapshot'[v] = snapshot[v]
    PROVE  /\ LoopTypes' /\ \A v \in Workers \ {w} : Steady(v)
           /\ phase'[w] = ph /\ todo'[w] = todo[w] /\ done'[w] = done[w]
  BY DEF LoopTypes, Steady

LoopStep(w) ==
    Claim(w) \/ Deliver(w) \/ FailClaim(w) \/ Crash(w) \/ LoseDelivery(w)

\* Whatever a loop does concerns its own batch, which it follows through its
\* phases; only its SELECT adds events to it.
LEMMA LoopSteps ==
    ASSUME TypeOK, BatchesFollowSteps, NEW w \in Workers, LoopStep(w)
    PROVE  /\ LoopTypes' /\ call' = call /\ \A v \in Workers \ {w} : Steady(v)
           /\ phase'[w] \in {"recover", "select"} <=> todo'[w] = <<>>
           /\ phase'[w] \in Delivering \cup {"recover", "select"} => done'[w] = <<>>
           /\ Batch(w)' \subseteq Batch(w) \cup {e \in Events : status[e] \in Queued}
<1> DEFINE Goal == /\ LoopTypes' /\ call' = call /\ \A v \in Workers \ {w} : Steady(v)
                   /\ phase'[w] \in {"recover", "select"} <=> todo'[w] = <<>>
                   /\ phase'[w] \in Delivering \cup {"recover", "select"} => done'[w] = <<>>
                   /\ Batch(w)' \subseteq Batch(w) \cup {e \in Events : status[e] \in Queued}
<1>a. LoopTypes /\ todo[w] \in Seq(Events) /\ done[w] \in Seq(Events)
    BY DEF LoopTypes, TypeOK, Phases
<1>b. ASSUME NEW ph \in {"recover", "select"}, GoTo(w, ph, <<>>) PROVE Goal
    <2>1. ph \in Phases
        BY DEF Phases, Claiming
    <2> QED BY <1>a, <1>b, <2>1, GoToFacts, EmptyBatch DEF Batch
<1>c. ASSUME NEW ph \in Delivering, phase' = [phase EXCEPT ![w] = ph],
             UNCHANGED <<todo, done, call>>, phase[w] \in Delivering,
             snapshot' \in [Workers -> MaxAttemptsValues \cup {0}],
             \A v \in Workers \ {w} : snapshot'[v] = snapshot[v]
      PROVE  Goal
    <2>1. ph \in Phases
        BY DEF Phases
    <2>2. todo[w] # <<>> /\ done[w] = <<>>
        BY <1>c DEF BatchesFollowSteps, Delivering
    <2> QED BY <1>a, <1>c, <2>1, <2>2, TurnFacts DEF Batch, Delivering
<1>d. ASSUME phase[w] \in Delivering, Finish(w) PROVE Goal
    <2>1. todo[w] # <<>>
        BY <1>d DEF BatchesFollowSteps, Delivering
    <2>2. Range(Tail(todo[w])) \subseteq Range(todo[w])
        BY <1>a, <2>1, HeadAndTail
    <2>3. Batch(w)' \subseteq Batch(w)
        BY <1>a, <1>d, <2>1, <2>2, FinishFacts, EmptyBatch DEF Batch
    <2> QED BY <1>a, <1>d, <2>1, <2>3, FinishFacts DEF Delivering
<1>e. ASSUME phase[w] \in {"mark", "fetch"}, NEW kept \in Seq(Events),
             Range(kept) \subseteq Batch(w), NEW next \in Phases,
             next \notin {"recover", "select"}, Advance(w, kept, next)
      PROVE  Goal
    <2>1. todo[w] # <<>>
        BY <1>e DEF BatchesFollowSteps
    <2>2. Range(Tail(todo[w])) \subseteq Range(todo[w])
        BY <1>a, <2>1, HeadAndTail
    <2>3. /\ LoopTypes' /\ call' = call /\ \A v \in Workers \ {w} : Steady(v)
          /\ \/ /\ Tail(todo[w]) # <<>> /\ phase'[w] = phase[w]
                /\ todo'[w] = Tail(todo[w]) /\ done'[w] = kept
             \/ /\ Tail(todo[w]) = <<>> /\ kept # <<>>
                /\ phase'[w] = next /\ todo'[w] = kept /\ done'[w] = <<>>
             \/ phase'[w] = "recover" /\ todo'[w] = <<>> /\ done'[w] = <<>>
        BY <1>a, <1>e, <2>1, AdvanceFacts
    <2>4. Batch(w)' \subseteq Batch(w)
        BY <1>e, <2>2, <2>3, EmptyBatch DEF Batch
    <2> QED BY <1>e, <2>3, <2>4 DEF Delivering
<1>1. CASE Recover(w)
    BY <1>1, <1>b DEF Recover
<1>2. CASE Select(w)
    <2> DEFINE size == IF Cardinality(Claimable) < BatchSize
                       THEN Cardinality(Claimable) ELSE BatchSize
    <2>1. PICK ids \in Injection(1..size, Claimable) :
             GoTo(w, IF ids = <<>> THEN "recover" ELSE "mark", ids)
        BY <1>2 DEF Select
    <2>2. ids \in Seq(Events) /\ Range(ids) \subseteq Claimable
        BY Selected DEF Claimable
    <2>3. (IF ids = <<>> THEN "recover" ELSE "mark") \in Phases
        BY DEF Phases, Claiming
    <2>4. /\ LoopTypes' /\ call' = call /\ \A v \in Workers \ {w} : Steady(v)
          /\ phase'[w] = (IF ids = <<>> THEN "recover" ELSE "mark")
          /\ todo'[w] = ids /\ done'[w] = <<>>
        BY <1>a, <2>1, <2>2, <2>3, GoToFacts
    <2>5. Batch(w)' \subseteq Claimable
        BY <2>2, <2>4, EmptyBatch DEF Batch
    <2> QED BY <2>4, <2>5 DEF Claimable, Delivering
<1>3. CASE Mark(w)
    <2>1. todo[w] # <<>>
        BY <1>3 DEF Mark, BatchesFollowSteps
    <2>2. /\ Append(done[w], Head(todo[w])) \in Seq(Events)
          /\ Range(Append(done[w], Head(todo[w]))) \subseteq Batch(w)
        BY <1>a, <2>1, HeadAndTail, OneMoreKept DEF Batch
    <2>3. phase[w] = "mark" /\ Advance(w, Append(done[w], Head(todo[w])), "fetch")
        BY <1>3 DEF Mark
    <2>4. "fetch" \in Phases
        BY DEF Phases, Claiming
    <2> QED BY <1>e, <2>2, <2>3, <2>4
<1>4. CASE Fetch(w)
    <2>1. todo[w] # <<>>
        BY <1>4 DEF Fetch, BatchesFollowSteps
    <2>2. /\ Append(done[w], Head(todo[w])) \in Seq(Events)
          /\ Range(Append(done[w], Head(todo[w]))) \subseteq Batch(w)
        BY <1>a, <2>1, HeadAndTail, OneMoreKept DEF Batch
    <2>3. Range(done[w]) \subseteq Batch(w)
        BY DEF Batch
    <2>4. CASE Advance(w, Append(done[w], Head(todo[w])), "deliver")
        BY <1>4, <1>e, <2>2, <2>4 DEF Fetch, Phases, Delivering
    <2>5. CASE Advance(w, done[w], "deliver")
        BY <1>4, <1>a, <1>e, <2>3, <2>5 DEF Fetch, Phases, Delivering
    <2> QED BY <1>4, <2>4, <2>5 DEF Fetch
<1>5. CASE FailClaim(w) \/ Crash(w)
    BY <1>5, <1>b DEF FailClaim, Crash
<1>6. CASE FetchEndpoint(w)
    <2>1. EndpointOf[Current(w)] \in Endpoints
        <3>1. todo[w] # <<>>
            BY <1>6 DEF FetchEndpoint, BatchesFollowSteps
        <3> QED BY <1>a, <3>1, HeadAndTail DEF Current
    <2>2. /\ snapshot' \in [Workers -> MaxAttemptsValues \cup {0}]
          /\ \A v \in Workers \ {w} : snapshot'[v] = snapshot[v]
        BY <1>6, <2>1 DEF FetchEndpoint, TypeOK
    <2> QED BY <1>6, <1>c, <2>2 DEF FetchEndpoint, Delivering
<1>7. CASE FindDisabled(w) \/ FindDeleted(w) \/ LogOrphan(w)
    <2>1. snapshot' = snapshot
        BY <1>7 DEF FindDisabled, FindDeleted, LogOrphan, Turn
    <2> QED BY <1>7, <1>a, <1>c, <2>1
            DEF FindDisabled, FindDeleted, LogOrphan, Turn, Delivering, LoopTypes
<1>8. ASSUME NEW consumed \in BOOLEAN, NEW answer \in {"succeeded", "failed"},
             Post(w, consumed, answer)
      PROVE  Goal
    BY <1>8, <1>a, <1>c DEF Post, Delivering, LoopTypes
<1>9. CASE \/ BuryOrphan(w) \/ ResetToPending(w) \/ RecordSuccess(w) \/ RecordFailure(w)
           \/ LoseDelivery(w)
    BY <1>9, <1>d
    DEF BuryOrphan, ResetToPending, RecordSuccess, RecordFailure, LoseDelivery, Delivering
<1> QED BY <1>1, <1>2, <1>3, <1>4, <1>5, <1>6, <1>7, <1>8, <1>9 DEF LoopStep, Claim, Deliver

\* Only a POST has a success to record, and only a logged orphan is buried.
LEMMA PhaseSteps ==
    ASSUME TypeOK, BatchesFollowSteps, NEW w \in Workers, LoopStep(w),
           phase'[w] \in {"succeeded", "burying"}
    PROVE  \/ LogOrphan(w)
           \/ \E consumed \in BOOLEAN, answer \in {"succeeded", "failed"} :
                 Post(w, consumed, answer)
<1>0. LoopTypes
    BY DEF LoopTypes, TypeOK, Phases
<1>a. ASSUME NEW ph \in Phases, NEW ids \in Seq(Events), GoTo(w, ph, ids)
      PROVE  phase'[w] = ph
    BY <1>0, <1>a, GoToFacts
<1>b. ASSUME phase[w] \in Delivering, Finish(w) PROVE FALSE
    <2>1. todo[w] # <<>>
        BY <1>b DEF BatchesFollowSteps, Delivering
    <2> QED BY <1>0, <1>b, <2>1, FinishFacts
<1>1. CASE Claim(w)
    <2>1. phase[w] \in {"recover", "select", "mark", "fetch"}
        BY <1>1 DEF Claim, Recover, Select, Mark, Fetch
    <2>2. ASSUME phase[w] \in {"mark", "fetch"}, NEW kept \in Seq(Events),
                 NEW next \in {"fetch", "deliver"}, Advance(w, kept, next)
          PROVE  FALSE
        <3>1. todo[w] # <<>> /\ next \in Phases
            BY <2>2 DEF BatchesFollowSteps, Phases, Claiming, Delivering
        <3> QED BY <1>0, <2>2, <3>1, AdvanceFacts
    <2>3. ASSUME phase[w] \in {"mark", "fetch"}
          PROVE  /\ done[w] \in Seq(Events)
                 /\ Append(done[w], Head(todo[w])) \in Seq(Events)
        <3>1. todo[w] # <<>> /\ todo[w] \in Seq(Events) /\ done[w] \in Seq(Events)
            BY <1>0, <2>3 DEF BatchesFollowSteps, LoopTypes
        <3> QED BY <3>1, HeadAndTail, OneMoreKept
    <2>4. CASE Mark(w)
        <3>1. phase[w] = "mark" /\ Advance(w, Append(done[w], Head(todo[w])), "fetch")
            BY <2>4 DEF Mark
        <3> QED BY <2>2, <2>3, <3>1
    <2>5. CASE Fetch(w)
        <3>1. /\ phase[w] = "fetch"
              /\ \/ Advance(w, Append(done[w], Head(todo[w])), "deliver")
                 \/ Advance(w, done[w], "deliver")
            BY <2>5 DEF Fetch
        <3> QED BY <2>2, <2>3, <3>1
    <2>6. CASE Recover(w) \/ Select(w)
        BY <1>0, <2>6 DEF Recover, Select, GoTo, LoopTypes
    <2> QED BY <1>1, <2>4, <2>5, <2>6 DEF Claim
<1>2. CASE FailClaim(w) \/ Crash(w)
    BY <1>0, <1>2 DEF FailClaim, Crash, GoTo, LoopTypes
<1>3. CASE \/ BuryOrphan(w) \/ ResetToPending(w) \/ RecordSuccess(w) \/ RecordFailure(w)
           \/ LoseDelivery(w)
    BY <1>3, <1>b
    DEF BuryOrphan, ResetToPending, RecordSuccess, RecordFailure, LoseDelivery, Delivering
<1>4. CASE FetchEndpoint(w) \/ FindDisabled(w) \/ FindDeleted(w)
    BY <1>0, <1>4 DEF FetchEndpoint, FindDisabled, FindDeleted, Turn, LoopTypes
<1> QED BY <1>1, <1>2, <1>3, <1>4 DEF LoopStep, Deliver

-----------------------------------------------------------------------------
(* Types.                                                                  *)

RowTypes ==
    /\ endpoint \in [Endpoints -> {"unborn", "enabled", "disabled", "deleted"}]
    /\ maxAttempts \in [Endpoints -> MaxAttemptsValues \cup {0}]
    /\ failures \in [Endpoints -> 0..CircuitThreshold]
    /\ circuit \in [Endpoints -> {"closed", "open", "elapsed"}]
    /\ status \in [Events -> Rows \cup {"unborn", "gone"}]
    /\ attempts \in [Events -> 0..AttemptsCap]
    /\ due \in SUBSET Events
    /\ stuck \in SUBSET Events
    /\ log \in [Events -> SUBSET {"success", "failure"}]
    /\ received \in SUBSET Events

CallTypes ==
    call \in [Callers -> [step : {"idle", "checked", "known", "requeued", "fanout"},
                          event : Events \cup {NoEvent},
                          endpoints : SUBSET Endpoints]]

\* The type invariant in its three parts.
LEMMA TypeParts == TypeOK <=> RowTypes /\ LoopTypes /\ CallTypes
  BY DEF TypeOK, RowTypes, LoopTypes, CallTypes, Phases

\* The initial states are well-formed.
LEMMA TypeInit == Init => TypeOK
<1> SUFFICES ASSUME Init PROVE TypeOK
    OBVIOUS
<1>1. RowTypes
    BY DEF Init, RowTypes, Rows
<1>2. LoopTypes
    BY EmptyBatch DEF Init, LoopTypes, Phases, Claiming
<1>3. CallTypes
    BY DEF Init, CallTypes, Idle
<1> QED BY <1>1, <1>2, <1>3, TypeParts

\* The event of a delivery.
LEMMA CurrentType ==
    ASSUME TypeOK, BatchesFollowSteps, NEW w \in Workers, phase[w] \in Delivering
    PROVE  /\ Current(w) \in Events /\ EndpointOf[Current(w)] \in Endpoints
           /\ Current(w) \in Batch(w) /\ todo[w] # <<>>
<1>1. todo[w] \in Seq(Events) /\ todo[w] # <<>>
    BY DEF TypeOK, BatchesFollowSteps, Delivering
<1> QED BY <1>1, HeadAndTail DEF Current, Batch

\* Setting a status keeps the rows' types.
LEMMA SetStatusType ==
    ASSUME TypeOK, NEW S, NEW s \in Rows \cup {"gone"}, SetStatus(S, s)
    PROVE  status' \in [Events -> Rows \cup {"unborn", "gone"}] /\ stuck' \in SUBSET Events
  BY DEF TypeOK, SetStatus

\* Columns keep their types through the statements of a run loop.
LEMMA LoopRowTypes ==
    ASSUME TypeOK, BatchesFollowSteps, NEW w \in Workers, LoopStep(w)
    PROVE  RowTypes'
<1>0. RowTypes
    BY TypeParts
<1>a. CASE UNCHANGED <<endpointVars, eventVars, log, received>>
    BY <1>0, <1>a DEF RowTypes, endpointVars, eventVars
<1>1. CASE Recover(w)
    <2>1. CASE ReturnStuck
        <3>1. status' \in [Events -> Rows \cup {"unborn", "gone"}] /\ stuck' \in SUBSET Events
            BY <2>1, SetStatusType DEF ReturnStuck, Rows, Queued
        <3> QED BY <1>0, <2>1, <3>1 DEF ReturnStuck, RowTypes, endpointVars
    <2> QED BY <1>1, <1>a, <2>1 DEF Recover
<1>2. CASE Mark(w)
    <2>1. status' \in [Events -> Rows \cup {"unborn", "gone"}] /\ stuck' \in SUBSET Events
        BY <1>2, SetStatusType DEF Mark, Rows
    <2> QED BY <1>0, <1>2, <2>1 DEF Mark, RowTypes, endpointVars
<1>3. CASE LogOrphan(w)
    BY <1>0, <1>3 DEF LogOrphan, LogAttempt, RowTypes, endpointVars, eventVars
<1>4. CASE BuryOrphan(w)
    <2>1. status' \in [Events -> Rows \cup {"unborn", "gone"}] /\ stuck' \in SUBSET Events
        BY <1>4, SetStatusType DEF BuryOrphan, Rows
    <2> QED BY <1>0, <1>4, <2>1 DEF BuryOrphan, RowTypes, endpointVars
<1>5. CASE ResetToPending(w)
    <2>0. Current(w) \in Events
        BY <1>5, CurrentType DEF ResetToPending, Delivering
    <2>1. status' \in [Events -> Rows \cup {"unborn", "gone"}] /\ stuck' \in SUBSET Events
        BY <1>5, SetStatusType DEF ResetToPending, Rows, Queued
    <2> QED BY <1>0, <1>5, <2>0, <2>1 DEF ResetToPending, RowTypes, endpointVars
<1>6. ASSUME NEW consumed \in BOOLEAN, NEW answer \in {"succeeded", "failed"},
             Post(w, consumed, answer)
      PROVE  RowTypes'
    <2>0. Current(w) \in Events
        BY <1>6, CurrentType DEF Post, Delivering
    <2> QED BY <1>0, <1>6, <2>0 DEF Post, RowTypes, endpointVars, eventVars
<1>7. CASE RecordSuccess(w)
    <2> DEFINE e == Current(w)
    <2>0. e \in Events /\ EndpointOf[e] \in Endpoints
        BY <1>7, CurrentType DEF RecordSuccess, Delivering
    <2> HIDE DEF e
    <2>1. log' \in [Events -> SUBSET {"success", "failure"}]
        BY <1>0, <1>7, <2>0 DEF RecordSuccess, LogAttempt, RowTypes, e
    <2>2. CASE status[e] = "delivering"
        <3>1. /\ SetStatus({e}, "delivered") /\ CountAttempt(e) /\ due' = due \ {e}
              /\ ResetCircuit(EndpointOf[e])
            BY <1>7, <2>2 DEF RecordSuccess, e
        <3>2. status' \in [Events -> Rows \cup {"unborn", "gone"}] /\ stuck' \in SUBSET Events
            BY <3>1, SetStatusType DEF Rows
        <3>3. attempts' \in [Events -> 0..AttemptsCap] /\ due' \in SUBSET Events
            BY <1>0, <2>0, <3>1 DEF RowTypes, CountAttempt
        <3>4. /\ failures' \in [Endpoints -> 0..CircuitThreshold]
              /\ circuit' \in [Endpoints -> {"closed", "open", "elapsed"}]
            BY <1>0, <2>0, <3>1 DEF RowTypes, ResetCircuit
        <3> QED BY <1>0, <1>7, <2>1, <3>2, <3>3, <3>4 DEF RecordSuccess, RowTypes
    <2>3. CASE status[e] # "delivering"
        BY <1>0, <1>7, <2>1, <2>3 DEF RecordSuccess, RowTypes, eventVars, e
    <2> QED BY <2>2, <2>3
<1>8. CASE RecordFailure(w)
    <2> DEFINE e == Current(w)
    <2>0. e \in Events /\ EndpointOf[e] \in Endpoints
        BY <1>8, CurrentType DEF RecordFailure, Delivering
    <2> HIDE DEF e
    <2>1. log' \in [Events -> SUBSET {"success", "failure"}]
        BY <1>0, <1>8, <2>0 DEF RecordFailure, LogAttempt, RowTypes, e
    <2>2. /\ status' \in [Events -> Rows \cup {"unborn", "gone"}] /\ stuck' \in SUBSET Events
          /\ attempts' \in [Events -> 0..AttemptsCap] /\ due' \in SUBSET Events
        <3>1. CASE status[e] = "delivering"
            <4>1. /\ SetStatus({e}, IF Exhausts(w, e) THEN "dead" ELSE "failed")
                  /\ CountAttempt(e) /\ due' = due \ {e}
                BY <1>8, <3>1 DEF RecordFailure, e
            <4>2. (IF Exhausts(w, e) THEN "dead" ELSE "failed") \in Rows
                BY DEF Rows, Queued
            <4>3. status' \in [Events -> Rows \cup {"unborn", "gone"}] /\ stuck' \in SUBSET Events
                BY <4>1, <4>2, SetStatusType
            <4>4. attempts' \in [Events -> 0..AttemptsCap]
                BY <1>0, <2>0, <4>1 DEF RowTypes, CountAttempt
            <4>5. due' \in SUBSET Events
                BY <1>0, <4>1 DEF RowTypes
            <4> QED BY <4>3, <4>4, <4>5
        <3>2. CASE status[e] # "delivering"
            BY <1>0, <1>8, <3>2 DEF RecordFailure, RowTypes, eventVars, e
        <3> QED BY <3>1, <3>2
    <2>3. /\ failures' \in [Endpoints -> 0..CircuitThreshold]
          /\ circuit' \in [Endpoints -> {"closed", "open", "elapsed"}]
        <3>1. CASE CountFailure(EndpointOf[e])
            BY <1>0, <2>0, <3>1 DEF RowTypes, CountFailure
        <3>2. CASE UNCHANGED <<failures, circuit>>
            BY <1>0, <3>2 DEF RowTypes
        <3> QED BY <1>8, <3>1, <3>2 DEF RecordFailure, e
    <2> QED BY <1>0, <1>8, <2>1, <2>2, <2>3 DEF RecordFailure, RowTypes
<1> QED
    BY <1>1, <1>2, <1>3, <1>4, <1>5, <1>6, <1>7, <1>8, <1>a
    DEF LoopStep, Claim, Deliver, Select, Fetch, FailClaim, Crash, FetchEndpoint, FindDisabled,
        FindDeleted, LoseDelivery

\* A step of the application, of a caller or of time: it leaves the loops alone.
OtherStep ==
    \/ Administer
    \/ \E c \in Callers : CallSteps(c) \/ AbandonCall(c)
    \/ Elapse

\* Every step is one of a loop or leaves the loops alone.
LEMMA StepKinds == Next => (OtherStep \/ \E w \in Workers : LoopStep(w))
  BY DEF Next, Fail, OtherStep, LoopStep

\* Deleting rows keeps their types.
LEMMA DeleteType ==
    ASSUME TypeOK, NEW S \in SUBSET Events, DeleteRows(S)
    PROVE  /\ status' \in [Events -> Rows \cup {"unborn", "gone"}] /\ stuck' \in SUBSET Events
           /\ attempts' \in [Events -> 0..AttemptsCap] /\ due' \in SUBSET Events
           /\ log' \in [Events -> SUBSET {"success", "failure"}]
<1>1. status' \in [Events -> Rows \cup {"unborn", "gone"}] /\ stuck' \in SUBSET Events
    BY SetStatusType DEF DeleteRows
<1> QED BY <1>1 DEF DeleteRows, TypeOK

\* Requeueing rows keeps their types.
LEMMA RequeueType ==
    ASSUME TypeOK, NEW S \in SUBSET Events, Requeue(S)
    PROVE  /\ status' \in [Events -> Rows \cup {"unborn", "gone"}] /\ stuck' \in SUBSET Events
           /\ attempts' \in [Events -> 0..AttemptsCap] /\ due' \in SUBSET Events
<1>1. status' \in [Events -> Rows \cup {"unborn", "gone"}] /\ stuck' \in SUBSET Events
    BY SetStatusType DEF Requeue, Rows, Queued
<1> QED BY <1>1 DEF Requeue, TypeOK

\* So does inserting one.
LEMMA InsertType ==
    ASSUME TypeOK, NEW e \in Events, InsertEvent(e)
    PROVE  RowTypes'
<1>1. status' \in [Events -> Rows \cup {"unborn", "gone"}]
    BY DEF InsertEvent, TypeOK, Rows, Queued
<1> QED BY <1>1 DEF InsertEvent, TypeOK, RowTypes, endpointVars

\* What is not a loop keeps the types of the rows too.
LEMMA OtherRowTypes == ASSUME TypeOK, OtherStep PROVE RowTypes'
<1>0. RowTypes
    BY TypeParts
<1>1. ASSUME NEW p \in Endpoints, NEW m \in MaxAttemptsValues,
             RegisterEndpoint(p, m) \/ UpdateMaxAttempts(p, m) \/ SetEnabled(p)
      PROVE  RowTypes'
    BY <1>0, <1>1
    DEF RegisterEndpoint, UpdateMaxAttempts, SetEnabled, RowTypes, eventVars
<1>2. ASSUME NEW p \in Endpoints, SetEnabled(p) PROVE RowTypes'
    BY <1>0, <1>2 DEF SetEnabled, RowTypes, eventVars
<1>3. ASSUME NEW p \in Endpoints, DeleteEndpoint(p) PROVE RowTypes'
    <2>1. /\ status' \in [Events -> Rows \cup {"unborn", "gone"}] /\ stuck' \in SUBSET Events
          /\ attempts' \in [Events -> 0..AttemptsCap] /\ due' \in SUBSET Events
          /\ log' \in [Events -> SUBSET {"success", "failure"}]
        BY <1>3, DeleteType DEF DeleteEndpoint
    <2> QED BY <1>0, <1>3, <2>1 DEF DeleteEndpoint, ResetCircuit, RowTypes
<1>4. ASSUME NEW s \in {"delivered", "dead"}, NEW S \in SUBSET Events, Cleanup(s, S)
      PROVE  RowTypes'
    <2>1. /\ status' \in [Events -> Rows \cup {"unborn", "gone"}] /\ stuck' \in SUBSET Events
          /\ attempts' \in [Events -> 0..AttemptsCap] /\ due' \in SUBSET Events
          /\ log' \in [Events -> SUBSET {"success", "failure"}]
        BY <1>4, DeleteType DEF Cleanup
    <2> QED BY <1>0, <1>4, <2>1 DEF Cleanup, RowTypes, endpointVars
<1>5. ASSUME NEW e \in Events, InsertEvent(e) PROVE RowTypes'
    BY <1>5, InsertType
<1>6. CASE ReturnStuck
    <2>1. status' \in [Events -> Rows \cup {"unborn", "gone"}] /\ stuck' \in SUBSET Events
        BY <1>6, SetStatusType DEF ReturnStuck, Rows, Queued
    <2> QED BY <1>0, <1>6, <2>1 DEF ReturnStuck, RowTypes, endpointVars
<1>7. ASSUME NEW S \in SUBSET Events, Requeue(S), UNCHANGED <<endpointVars, log, received>>
      PROVE  RowTypes'
    BY <1>0, <1>7, RequeueType DEF RowTypes, endpointVars
<1>8. ASSUME NEW p \in Endpoints, ResetCircuit(p),
             UNCHANGED <<endpoint, maxAttempts, eventVars, log, received>>
      PROVE  RowTypes'
    BY <1>0, <1>8 DEF ResetCircuit, RowTypes, eventVars
<1>9. CASE Elapse
    BY <1>0, <1>9
    DEF Elapse, BackoffElapses, StuckTimeoutElapses, CircuitElapses, RowTypes, endpointVars,
        eventVars
<1>10. CASE UNCHANGED <<endpointVars, eventVars, log, received>>
    BY <1>0, <1>10 DEF RowTypes, endpointVars, eventVars
<1>11. ASSUME Administer PROVE RowTypes'
    BY <1>11, <1>1, <1>2, <1>3, <1>4, <1>5, <1>6 DEF Administer, Send, RecoverByHand
<1>12. ASSUME NEW c \in Callers, CallSteps(c) \/ AbandonCall(c) PROVE RowTypes'
    <2>1. CASE RetryKnown(c)
        BY <1>7, <2>1 DEF RetryKnown
    <2>2. ASSUME NEW p \in Endpoints, RetryAllDead(c, p) PROVE RowTypes'
        BY <1>7, <2>2 DEF RetryAllDead
    <2>3. CASE CloseCircuit(c)
        <3>1. call[c].endpoints \subseteq Endpoints
            BY DEF TypeOK
        <3> QED BY <1>8, <2>3, <3>1 DEF CloseCircuit
    <2>4. ASSUME NEW e \in Events, FanOut(c, e) PROVE RowTypes'
        BY <1>5, <2>4 DEF FanOut
    <2> QED BY <1>10, <1>12, <2>1, <2>2, <2>3, <2>4
            DEF CallSteps, BeginBroadcast, CheckDead, LookUpEndpoint, AbandonCall
<1> QED BY <1>9, <1>11, <1>12 DEF OtherStep

\* A call keeps its type.
LEMMA OtherCallTypes ==
    ASSUME TypeOK, CallsHaveTheirEvent, OtherStep
    PROVE  CallTypes' /\ CallsHaveTheirEvent'
<1>0. CallTypes
    BY TypeParts
<1> DEFINE CallType == [step : {"idle", "checked", "known", "requeued", "fanout"},
                        event : Events \cup {NoEvent}, endpoints : SUBSET Endpoints]
<1> DEFINE Goal == CallTypes' /\ CallsHaveTheirEvent'
<1>a. ASSUME NEW c \in Callers, NEW r \in CallType, Proceed(c, r),
             r.step \in {"checked", "known"} => r.event \in Events
      PROVE  Goal
    BY <1>0, <1>a DEF Proceed, CallTypes, CallsHaveTheirEvent
<1>b. Idle \in CallType
    BY DEF Idle
<1>c. Idle.step \notin {"checked", "known"}
    BY DEF Idle
<1>1. CASE call' = call
    BY <1>0, <1>1 DEF CallTypes, CallsHaveTheirEvent
<1>2. ASSUME NEW c \in Callers, CallSteps(c) \/ AbandonCall(c) PROVE Goal
    <2>0. call[c] \in CallType
        BY <1>0 DEF CallTypes
    <2>1. CASE BeginBroadcast(c)
        <3>1. [step |-> "fanout", event |-> NoEvent,
               endpoints |-> {p \in Endpoints : endpoint[p] = "enabled"}] \in CallType
            OBVIOUS
        <3> QED BY <1>a, <2>1, <3>1 DEF BeginBroadcast
    <2>2. ASSUME NEW e \in Events, FanOut(c, e) PROVE Goal
        <3>1. [call[c] EXCEPT !.endpoints = @ \ {EndpointOf[e]}] \in CallType
            BY <2>0
        <3> QED BY <1>a, <1>b, <1>c, <2>2, <3>1 DEF FanOut
    <2>3. ASSUME NEW e \in Events, CheckDead(c, e) PROVE Goal
        <3>1. [step |-> "checked", event |-> e, endpoints |-> {}] \in CallType
            OBVIOUS
        <3> QED BY <1>a, <2>3, <3>1 DEF CheckDead
    <2>4. CASE LookUpEndpoint(c)
        <3>0. call[c].event \in Events
            BY <2>4 DEF LookUpEndpoint, CallsHaveTheirEvent
        <3>1. (IF status[call[c].event] \in Rows THEN {EndpointOf[call[c].event]} ELSE {})
                  \subseteq Endpoints
            BY <3>0
        <3>2. [call[c] EXCEPT !.step = "known",
                              !.endpoints = IF status[call[c].event] \in Rows
                                            THEN {EndpointOf[call[c].event]} ELSE {}] \in CallType
            BY <2>0, <3>1
        <3> QED BY <1>a, <2>4, <3>0, <3>2 DEF LookUpEndpoint
    <2>5. CASE RetryKnown(c)
        <3>1. [call[c] EXCEPT !.step = "requeued", !.event = NoEvent] \in CallType
            BY <2>0
        <3> QED BY <1>a, <1>b, <1>c, <2>5, <3>1 DEF RetryKnown
    <2>6. ASSUME NEW p \in Endpoints, RetryAllDead(c, p) PROVE Goal
        <3>1. [step |-> "requeued", event |-> NoEvent, endpoints |-> {p}] \in CallType
            OBVIOUS
        <3> QED BY <1>a, <2>6, <3>1 DEF RetryAllDead
    <2>7. CASE CloseCircuit(c) \/ AbandonCall(c)
        BY <1>a, <1>b, <1>c, <2>7 DEF CloseCircuit, AbandonCall
    <2> QED BY <1>2, <2>1, <2>2, <2>3, <2>4, <2>5, <2>6, <2>7 DEF CallSteps
<1> QED
    BY <1>1, <1>2
    DEF OtherStep, Administer, RegisterEndpoint, UpdateMaxAttempts, SetEnabled, DeleteEndpoint,
        Cleanup, Send, RecoverByHand, Elapse, BackoffElapses, StuckTimeoutElapses, CircuitElapses

\* Types, batches and calls: a call knows an event only while it has one, and a
\* batch has a current event while it is delivered.
LEMMA TypeNext ==
    ASSUME TypeOK, BatchesFollowSteps, CallsHaveTheirEvent, [Next]_vars
    PROVE  TypeOK' /\ BatchesFollowSteps' /\ CallsHaveTheirEvent'
<1>1. CASE UNCHANGED vars
    BY <1>1 DEF TypeOK, BatchesFollowSteps, CallsHaveTheirEvent, vars
<1>2. CASE OtherStep
    <2>1. UNCHANGED loopVars
        BY <1>2
        DEF OtherStep, Administer, RegisterEndpoint, UpdateMaxAttempts, SetEnabled,
            DeleteEndpoint, Cleanup, Send, InsertEvent, RecoverByHand, CallSteps, AbandonCall,
            BeginBroadcast, FanOut, CheckDead, LookUpEndpoint, RetryKnown, RetryAllDead,
            CloseCircuit, Elapse, BackoffElapses, StuckTimeoutElapses, CircuitElapses
    <2>2. BatchesFollowSteps'
        BY <2>1 DEF BatchesFollowSteps, loopVars
    <2>3. LoopTypes'
        BY <2>1, TypeParts DEF LoopTypes, loopVars
    <2>4. RowTypes' /\ CallTypes' /\ CallsHaveTheirEvent'
        BY <1>2, OtherRowTypes, OtherCallTypes
    <2> QED BY <2>2, <2>3, <2>4 DEF TypeOK, RowTypes, LoopTypes, CallTypes, Phases
<1>3. ASSUME NEW w \in Workers, LoopStep(w)
      PROVE  TypeOK' /\ BatchesFollowSteps' /\ CallsHaveTheirEvent'
    <2>1. /\ LoopTypes' /\ call' = call /\ \A v \in Workers \ {w} : Steady(v)
          /\ phase'[w] \in {"recover", "select"} <=> todo'[w] = <<>>
          /\ phase'[w] \in Delivering \cup {"recover", "select"} => done'[w] = <<>>
        BY <1>3, LoopSteps
    <2>2. BatchesFollowSteps'
        BY <2>1 DEF BatchesFollowSteps, Steady
    <2>3. CallTypes' /\ CallsHaveTheirEvent'
        BY <2>1, TypeParts DEF CallTypes, CallsHaveTheirEvent
    <2>4. RowTypes'
        BY <1>3, LoopRowTypes
    <2> QED BY <2>1, <2>2, <2>3, <2>4 DEF TypeOK, RowTypes, LoopTypes, CallTypes, Phases
<1> QED BY <1>1, <1>2, <1>3, StepKinds

\* The type invariant, with the shape of batches and calls that it needs.
TypeInv == TypeOK /\ BatchesFollowSteps /\ CallsHaveTheirEvent

\* The typing invariant holds in every state.
LEMMA TypeInvariance == Spec => []TypeInv
<1>1. Init => TypeInv
    <2>1. Init => TypeOK
        BY TypeInit
    <2> QED BY <2>1 DEF Init, TypeInv, BatchesFollowSteps, CallsHaveTheirEvent, Delivering, Idle
<1>2. TypeInv /\ [Next]_vars => TypeInv'
    BY TypeNext DEF TypeInv
<1> QED BY <1>1, <1>2, PTL DEF Spec

\* Columns, batches and calls keep their types.
THEOREM TypeCorrect == Spec => []TypeOK
<1>1. TypeInv => TypeOK
    BY DEF TypeInv
<1> QED BY <1>1, TypeInvariance, PTL

-----------------------------------------------------------------------------
(* Endpoints and rows.                                                     *)

\* A row appears only for an endpoint that is registered, and goes with it.
\* An INSERT finds its endpoint registered.
LEMMA InsertFacts ==
    ASSUME TypeOK, ForeignKeysHold, NEW e \in Events, InsertEvent(e)
    PROVE  ForeignKeysHold'
  BY DEF InsertEvent, ForeignKeysHold, Registered, endpointVars, TypeOK

\* A row is inserted under an endpoint that is there, and an endpoint leaves with
\* its rows.
LEMMA ForeignKeysNext ==
    ASSUME TypeInv, ForeignKeysHold, [Next]_vars
    PROVE  ForeignKeysHold'
<1> USE DEF TypeInv
<1>a. ASSUME \A e \in Events : status'[e] \in Rows => status[e] \in Rows,
             UNCHANGED endpoint
      PROVE  ForeignKeysHold'
    BY <1>a DEF ForeignKeysHold, Registered
<1>b. ASSUME NEW S, NEW s \in Rows, SetStatus(S, s), \A e \in S : status[e] \in Rows,
             UNCHANGED endpoint
      PROVE  ForeignKeysHold'
    BY <1>a, <1>b DEF SetStatus
<1>c. ASSUME UNCHANGED <<status, endpoint>> PROVE ForeignKeysHold'
    BY <1>a, <1>c
<1>d. {"pending", "failed", "delivering", "delivered", "dead"} \subseteq Rows
    BY DEF Rows, Queued
<1>1. CASE UNCHANGED vars
    BY <1>1, <1>c DEF vars
<1>e. ASSUME ReturnStuck PROVE ForeignKeysHold'
    BY <1>b, <1>d, <1>e DEF ReturnStuck, endpointVars
<1>2. ASSUME Administer PROVE ForeignKeysHold'
    <2>1. ASSUME NEW p \in Endpoints, NEW m \in MaxAttemptsValues,
                 RegisterEndpoint(p, m) \/ UpdateMaxAttempts(p, m)
          PROVE  ForeignKeysHold'
        BY <2>1
        DEF RegisterEndpoint, UpdateMaxAttempts, eventVars, ForeignKeysHold, Registered, TypeOK
    <2>2. ASSUME NEW p \in Endpoints, SetEnabled(p) PROVE ForeignKeysHold'
        BY <2>2 DEF SetEnabled, eventVars, ForeignKeysHold, Registered, TypeOK
    <2>3. ASSUME NEW p \in Endpoints, DeleteEndpoint(p) PROVE ForeignKeysHold'
        BY <2>3
        DEF DeleteEndpoint, DeleteRows, SetStatus, ForeignKeysHold, Registered, TypeOK, Rows,
            Queued
    <2>4. ASSUME NEW s \in {"delivered", "dead"}, NEW S \in SUBSET Events, Cleanup(s, S)
          PROVE  ForeignKeysHold'
        BY <1>a, <2>4 DEF Cleanup, DeleteRows, SetStatus, endpointVars, Rows, Queued
    <2>5. ASSUME NEW e \in Events, Send(e) PROVE ForeignKeysHold'
        BY <2>5, InsertFacts DEF Send
    <2> QED BY <1>2, <1>e, <2>1, <2>2, <2>3, <2>4, <2>5 DEF Administer, RecoverByHand
<1>3. ASSUME NEW c \in Callers, CallSteps(c) \/ AbandonCall(c) PROVE ForeignKeysHold'
    <2>1. CASE RetryKnown(c)
        BY <1>b, <1>d, <2>1 DEF RetryKnown, Requeue, endpointVars
    <2>2. ASSUME NEW p \in Endpoints, RetryAllDead(c, p) PROVE ForeignKeysHold'
        BY <1>b, <1>d, <2>2 DEF RetryAllDead, Requeue, endpointVars
    <2>3. ASSUME NEW e \in Events, FanOut(c, e) PROVE ForeignKeysHold'
        BY <2>3, InsertFacts DEF FanOut
    <2> QED
        BY <1>3, <1>c, <2>1, <2>2, <2>3
        DEF CallSteps, BeginBroadcast, CheckDead, LookUpEndpoint, AbandonCall, CloseCircuit,
            endpointVars, eventVars
<1>4. CASE Elapse
    BY <1>4, <1>c
    DEF Elapse, BackoffElapses, StuckTimeoutElapses, CircuitElapses, endpointVars, eventVars
<1>5. ASSUME NEW w \in Workers, LoopStep(w) PROVE ForeignKeysHold'
    <2>1. CASE Recover(w)
        BY <1>c, <1>e, <2>1 DEF Recover, endpointVars, eventVars
    <2>2. CASE Mark(w)
        BY <1>b, <1>d, <2>2 DEF Mark, endpointVars
    <2>3. CASE BuryOrphan(w)
        BY <1>b, <1>d, <2>3 DEF BuryOrphan, endpointVars
    <2>4. CASE ResetToPending(w)
        BY <1>b, <1>d, <2>4 DEF ResetToPending, endpointVars
    <2>5. CASE RecordSuccess(w)
        <3>1. CASE status[Current(w)] = "delivering"
            BY <1>b, <1>d, <2>5, <3>1 DEF RecordSuccess
        <3>2. CASE status[Current(w)] # "delivering"
            BY <1>c, <2>5, <3>2 DEF RecordSuccess, eventVars
        <3> QED BY <3>1, <3>2
    <2>6. CASE RecordFailure(w)
        <3>1. CASE status[Current(w)] = "delivering"
            <4>1. SetStatus({Current(w)}, "dead") \/ SetStatus({Current(w)}, "failed")
                BY <2>6, <3>1 DEF RecordFailure
            <4>2. \A e \in {Current(w)} : status[e] \in Rows
                BY <1>d, <3>1
            <4> QED BY <1>b, <1>d, <2>6, <4>1, <4>2 DEF RecordFailure
        <3>2. CASE status[Current(w)] # "delivering"
            BY <1>c, <2>6, <3>2 DEF RecordFailure, eventVars
        <3> QED BY <3>1, <3>2
    <2> QED
        BY <1>5, <1>c, <2>1, <2>2, <2>3, <2>4, <2>5, <2>6
        DEF LoopStep, Claim, Deliver, Select, Fetch, FailClaim, Crash, FetchEndpoint,
            FindDisabled, FindDeleted, LogOrphan, Post, LoseDelivery, endpointVars, eventVars
<1> QED BY <1>1, <1>2, <1>3, <1>4, <1>5, StepKinds DEF OtherStep

\* Rows keep their endpoint, however unguarded UPDATEs and late INSERTs fall.
THEOREM ForeignKeys == Spec => []ForeignKeysHold
<1>1. Init => ForeignKeysHold
    BY DEF Init, ForeignKeysHold, Rows, Queued
<1>2. TypeInv /\ ForeignKeysHold /\ [Next]_vars => ForeignKeysHold'
    BY ForeignKeysNext
<1> QED BY <1>1, <1>2, TypeInvariance, PTL DEF Spec

-----------------------------------------------------------------------------
(* The circuit.                                                            *)

\* Every statement that writes one of the circuit's columns writes both so that
\* they agree, but for the passing of time.
LEMMA CircuitNext ==
    ASSUME TypeInv, CircuitFollowsFailures, [Next]_vars
    PROVE  CircuitFollowsFailures'
<1> USE DEF TypeInv, CircuitFollowsFailures
<1>c. ASSUME UNCHANGED <<failures, circuit>> PROVE CircuitFollowsFailures'
    BY <1>c
<1>a. ASSUME NEW p \in Endpoints, ResetCircuit(p) PROVE CircuitFollowsFailures'
    BY <1>a DEF ResetCircuit, TypeOK
<1>b. ASSUME NEW p \in Endpoints, CountFailure(p) PROVE CircuitFollowsFailures'
    BY <1>b DEF CountFailure, TypeOK
<1>1. CASE UNCHANGED vars
    BY <1>1, <1>c DEF vars
<1>2. CASE Administer
    <2>1. ASSUME NEW p \in Endpoints, DeleteEndpoint(p) PROVE CircuitFollowsFailures'
        BY <1>a, <2>1 DEF DeleteEndpoint
    <2> QED
        BY <1>2, <1>c, <2>1
        DEF Administer, RegisterEndpoint, UpdateMaxAttempts, SetEnabled, Cleanup, Send,
            InsertEvent, RecoverByHand, ReturnStuck, endpointVars
<1>3. ASSUME NEW c \in Callers, CallSteps(c) \/ AbandonCall(c) PROVE CircuitFollowsFailures'
    <2>1. CASE CloseCircuit(c)
        <3>1. call[c].endpoints \subseteq Endpoints
            BY DEF TypeOK
        <3> QED BY <1>a, <2>1, <3>1 DEF CloseCircuit
    <2> QED
        BY <1>3, <1>c, <2>1
        DEF CallSteps, BeginBroadcast, FanOut, InsertEvent, CheckDead, LookUpEndpoint,
            RetryKnown, RetryAllDead, AbandonCall, endpointVars
<1>4. CASE Elapse
    <2>1. ASSUME NEW p \in Endpoints, CircuitElapses(p) PROVE CircuitFollowsFailures'
        BY <2>1 DEF CircuitElapses, TypeOK
    <2> QED BY <1>4, <1>c, <2>1 DEF Elapse, BackoffElapses, StuckTimeoutElapses, endpointVars
<1>5. ASSUME NEW w \in Workers, LoopStep(w) PROVE CircuitFollowsFailures'
    <2>1. CASE RecordSuccess(w)
        <3>1. EndpointOf[Current(w)] \in Endpoints
            BY <2>1, CurrentType DEF RecordSuccess, Delivering
        <3>2. ResetCircuit(EndpointOf[Current(w)]) \/ UNCHANGED <<failures, circuit>>
            BY <2>1 DEF RecordSuccess
        <3> QED BY <1>a, <1>c, <3>1, <3>2
    <2>2. CASE RecordFailure(w)
        <3>1. EndpointOf[Current(w)] \in Endpoints
            BY <2>2, CurrentType DEF RecordFailure, Delivering
        <3>2. CountFailure(EndpointOf[Current(w)]) \/ UNCHANGED <<failures, circuit>>
            BY <2>2 DEF RecordFailure
        <3> QED BY <1>b, <1>c, <3>1, <3>2
    <2> QED
        BY <1>5, <1>c, <2>1, <2>2
        DEF LoopStep, Claim, Deliver, Recover, ReturnStuck, Select, Mark, Fetch, FailClaim,
            Crash, FetchEndpoint, FindDisabled, FindDeleted, LogOrphan, BuryOrphan,
            ResetToPending, Post, LoseDelivery, endpointVars
<1> QED BY <1>1, <1>2, <1>3, <1>4, <1>5, StepKinds DEF OtherStep

\* The two columns of the circuit agree, although retry_dead_event writes them
\* in a statement of their own.
THEOREM CircuitAgrees == Spec => []CircuitFollowsFailures
<1>1. Init => CircuitFollowsFailures
    BY DEF Init, CircuitFollowsFailures
<1>2. TypeInv /\ CircuitFollowsFailures /\ [Next]_vars => CircuitFollowsFailures'
    BY CircuitNext
<1> QED BY <1>1, <1>2, TypeInvariance, PTL DEF Spec

-----------------------------------------------------------------------------
(* Statuses and their evidence.                                            *)

\* The statuses of the events of S become s.
Moves(S, s) == status' = [e \in Events |-> IF e \in S THEN s ELSE status[e]]

\* What a step of a loop does to statuses, log and consumers.
RowStep(w) ==
    \/ UNCHANGED <<status, log, received>>
    \/ \* the reaper
       /\ phase[w] = "recover"
       /\ Moves({e \in Events : status[e] = "delivering" /\ e \in stuck}, "pending")
       /\ UNCHANGED <<log, received>>
    \/ /\ Mark(w)
       /\ Moves({Head(todo[w])} \cap {e \in Events : status[e] \in Rows}, "delivering")
       /\ UNCHANGED <<log, received>>
    \/ /\ LogOrphan(w) /\ LogAttempt(Current(w), "failure")
       /\ UNCHANGED <<status, received>>
    \/ /\ phase[w] = "burying" /\ Finish(w) /\ UNCHANGED <<log, received>>
       /\ Moves({Current(w)} \cap {e \in Events : status[e] = "delivering"}, "dead")
    \/ /\ phase[w] = "resetting" /\ Finish(w) /\ UNCHANGED <<log, received>>
       /\ Moves({Current(w)} \cap {e \in Events : status[e] = "delivering"}, "pending")
    \/ /\ phase[w] = "sending" /\ received' = received \cup {Current(w)}
       /\ phase' = [phase EXCEPT ![w] = "succeeded"] \/ phase' = [phase EXCEPT ![w] = "failed"]
       /\ UNCHANGED <<todo, done, status, log>>
    \/ /\ phase[w] = "succeeded" /\ Finish(w) /\ UNCHANGED received
       /\ LogAttempt(Current(w), "success")
       /\ IF status[Current(w)] = "delivering"
          THEN Moves({Current(w)}, "delivered") ELSE UNCHANGED status
    \/ /\ phase[w] = "failed" /\ Finish(w) /\ UNCHANGED received
       /\ LogAttempt(Current(w), "failure")
       /\ IF status[Current(w)] = "delivering"
          THEN Moves({Current(w)}, "dead") \/ Moves({Current(w)}, "failed")
          ELSE UNCHANGED status

\* That is all a loop does to the rows.
LEMMA RowSteps ==
    ASSUME TypeInv, NEW w \in Workers, LoopStep(w)
    PROVE  RowStep(w)
<1>1. CASE Recover(w)
    <2>1. CASE ReturnStuck
        BY <1>1, <2>1 DEF Recover, ReturnStuck, SetStatus, Moves, RowStep
    <2>2. CASE UNCHANGED <<endpointVars, eventVars, log, received>>
        BY <2>2 DEF eventVars, RowStep
    <2> QED BY <1>1, <2>1, <2>2 DEF Recover
<1>2. CASE Mark(w)
    BY <1>2 DEF Mark, SetStatus, Moves, RowStep
<1>3. CASE LogOrphan(w)
    BY <1>3 DEF LogOrphan, eventVars, RowStep
<1>4. CASE BuryOrphan(w)
    BY <1>4 DEF BuryOrphan, SetStatus, Moves, RowStep
<1>5. CASE ResetToPending(w)
    BY <1>5 DEF ResetToPending, SetStatus, Moves, RowStep
<1>6. ASSUME NEW consumed \in BOOLEAN, NEW answer \in {"succeeded", "failed"},
             Post(w, consumed, answer)
      PROVE  RowStep(w)
    <2>1. CASE consumed
        BY <1>6, <2>1 DEF Post, eventVars, RowStep
    <2>2. CASE ~consumed
        BY <1>6, <2>2 DEF Post, eventVars, RowStep
    <2> QED BY <2>1, <2>2
<1>7. CASE RecordSuccess(w)
    <2>1. CASE status[Current(w)] = "delivering"
        BY <1>7, <2>1 DEF RecordSuccess, SetStatus, Moves, RowStep
    <2>2. CASE status[Current(w)] # "delivering"
        BY <1>7, <2>2 DEF RecordSuccess, eventVars, RowStep
    <2> QED BY <2>1, <2>2
<1>8. CASE RecordFailure(w)
    <2>1. CASE status[Current(w)] = "delivering"
        <3>1. Moves({Current(w)}, "dead") \/ Moves({Current(w)}, "failed")
            BY <1>8, <2>1 DEF RecordFailure, SetStatus, Moves
        <3> QED BY <1>8, <2>1, <3>1 DEF RecordFailure, RowStep
    <2>2. CASE status[Current(w)] # "delivering"
        BY <1>8, <2>2 DEF RecordFailure, eventVars, RowStep
    <2> QED BY <2>1, <2>2
<1> QED
    BY <1>1, <1>2, <1>3, <1>4, <1>5, <1>6, <1>7, <1>8
    DEF LoopStep, Claim, Deliver, Select, Fetch, FailClaim, Crash, FetchEndpoint, FindDisabled,
        FindDeleted, LoseDelivery, eventVars, RowStep

\* What the application, a caller or time does to statuses and log. Statuses
\* that a caller moves on its own are told apart from what a retry may hit.
RowChange ==
    \/ UNCHANGED <<status, log>>
    \/ \E e \in Events : /\ status[e] = "unborn" /\ Registered(EndpointOf[e])
                         /\ Moves({e}, "pending") /\ UNCHANGED log
    \/ \E S \in SUBSET Events :
          /\ \A e \in S : status[e] \in Rows
          /\ Moves(S, "gone")
          /\ log' = [e \in Events |-> IF e \in S THEN {} ELSE log[e]]
    \/ \E S \in SUBSET Events :
          /\ \A e \in S : status[e] = "dead"
          /\ Moves(S, "pending") /\ UNCHANGED log
          /\ \E c \in Callers : call[c] = Idle
    \/ \E c \in Callers :
          /\ call[c].step = "known"
          /\ Moves({call[c].event} \cap {e \in Events : status[e] \in Rows}, "pending")
          /\ UNCHANGED log
    \/ /\ RecoverCalls
       /\ Moves({e \in Events : status[e] = "delivering" /\ e \in stuck}, "pending")
       /\ UNCHANGED log

\* And that is all that anything else does to them.
LEMMA RowChanges ==
    ASSUME TypeInv, OtherStep
    PROVE  RowChange /\ UNCHANGED <<loopVars, received>>
<1>0. UNCHANGED <<loopVars, received>>
    BY DEF OtherStep, Administer, RegisterEndpoint, UpdateMaxAttempts, SetEnabled,
        DeleteEndpoint, Cleanup, Send, InsertEvent, RecoverByHand, ReturnStuck, CallSteps,
        AbandonCall, BeginBroadcast, FanOut, CheckDead, LookUpEndpoint, RetryKnown,
        RetryAllDead, CloseCircuit, Elapse, BackoffElapses, StuckTimeoutElapses, CircuitElapses
<1> SUFFICES RowChange
    BY <1>0
<1>1. ASSUME NEW e \in Events, InsertEvent(e) PROVE RowChange
    <2>1. Moves({e}, "pending")
        BY <1>1 DEF InsertEvent, Moves, TypeInv, TypeOK
    <2> QED BY <1>1, <2>1 DEF InsertEvent, RowChange
<1>2. ASSUME NEW S \in SUBSET Events, \A e \in S : status[e] \in Rows, DeleteRows(S)
      PROVE  RowChange
    BY <1>2 DEF DeleteRows, SetStatus, Moves, RowChange
<1>3. CASE Administer
    <2>1. ASSUME NEW p \in Endpoints, DeleteEndpoint(p) PROVE RowChange
        BY <1>2, <2>1 DEF DeleteEndpoint
    <2>2. ASSUME NEW s \in {"delivered", "dead"}, NEW S \in SUBSET Events, Cleanup(s, S)
          PROVE  RowChange
        BY <1>2, <2>2 DEF Cleanup, Rows
    <2>3. CASE RecoverByHand
        BY <2>3 DEF RecoverByHand, ReturnStuck, SetStatus, Moves, RowChange
    <2>4. ASSUME UNCHANGED <<status, log>> PROVE RowChange
        BY <2>4 DEF RowChange
    <2>5. ASSUME NEW p \in Endpoints, NEW m \in MaxAttemptsValues,
                 RegisterEndpoint(p, m) \/ UpdateMaxAttempts(p, m)
          PROVE  RowChange
        BY <2>4, <2>5 DEF RegisterEndpoint, UpdateMaxAttempts, eventVars
    <2>6. ASSUME NEW p \in Endpoints, SetEnabled(p) PROVE RowChange
        BY <2>4, <2>6 DEF SetEnabled, eventVars
    <2>7. ASSUME NEW e \in Events, Send(e) PROVE RowChange
        BY <1>1, <2>7 DEF Send
    <2> QED BY <1>3, <2>1, <2>2, <2>3, <2>5, <2>6, <2>7 DEF Administer
<1>4. ASSUME NEW c \in Callers, CallSteps(c) \/ AbandonCall(c) PROVE RowChange
    <2>1. CASE RetryKnown(c)
        BY <2>1 DEF RetryKnown, Requeue, SetStatus, Moves, RowChange
    <2>2. ASSUME NEW p \in Endpoints, RetryAllDead(c, p) PROVE RowChange
        <3> DEFINE S == {e \in Events : EndpointOf[e] = p /\ status[e] = "dead"}
        <3>1. S \in SUBSET Events /\ \A e \in S : status[e] = "dead"
            OBVIOUS
        <3>2. Moves(S, "pending") /\ UNCHANGED log /\ call[c] = Idle
            BY <2>2 DEF RetryAllDead, Requeue, SetStatus, Moves
        <3> HIDE DEF S
        <3> QED BY <3>1, <3>2 DEF RowChange
    <2>3. ASSUME UNCHANGED <<status, log>> PROVE RowChange
        BY <2>3 DEF RowChange
    <2> QED
        BY <1>1, <1>4, <2>1, <2>2, <2>3
        DEF CallSteps, BeginBroadcast, FanOut, CheckDead, LookUpEndpoint, AbandonCall,
            CloseCircuit, eventVars
<1>5. CASE Elapse
    BY <1>5
    DEF Elapse, BackoffElapses, StuckTimeoutElapses, CircuitElapses, eventVars, RowChange
<1> QED BY <1>3, <1>4, <1>5 DEF OtherStep

\* What is enqueued, gone, received or logged stays so, but for the log of a row
\* that goes.
LEMMA RowsAge ==
    ASSUME TypeInv, [Next]_vars
    PROVE  /\ received \subseteq received'
           /\ \A e \in Events :
                 /\ status[e] # "unborn" => status'[e] # "unborn"
                 /\ status[e] = "gone" => status'[e] = "gone"
                 /\ \A kind \in log[e] : kind \in log'[e] \/ status'[e] = "gone"
<1> DEFINE Goal == /\ received \subseteq received'
                   /\ \A e \in Events :
                         /\ status[e] # "unborn" => status'[e] # "unborn"
                         /\ status[e] = "gone" => status'[e] = "gone"
                         /\ \A kind \in log[e] : kind \in log'[e] \/ status'[e] = "gone"
<1>0. log \in [Events -> SUBSET {"success", "failure"}]
    BY DEF TypeInv, TypeOK
<1>1. CASE UNCHANGED vars
    BY <1>1 DEF vars
<1>2. CASE OtherStep
    <2>1. RowChange /\ received' = received
        BY <1>2, RowChanges
    <2> QED BY <2>1 DEF RowChange, Moves, Rows, Queued
<1>3. ASSUME NEW w \in Workers, LoopStep(w) PROVE Goal
    <2>1. RowStep(w)
        BY <1>3, RowSteps
    <2> QED BY <1>0, <2>1 DEF RowStep, Moves, LogAttempt, Rows, Queued
<1> QED BY <1>1, <1>2, <1>3, StepKinds

\* A batch is made of events that were queued, and no event becomes unborn again.
LEMMA BatchesQueuedNext ==
    ASSUME TypeInv, BatchesWereQueued, [Next]_vars
    PROVE  BatchesWereQueued'
<1>0. \A v \in Workers : Batch(v) \subseteq Events
    BY RangeOfSeq DEF Batch, TypeInv, TypeOK
<1>a. ASSUME NEW v \in Workers, Batch(v)' = Batch(v)
      PROVE  \A e \in Batch(v)' : status'[e] # "unborn"
    BY <1>0, <1>a, RowsAge DEF BatchesWereQueued
<1>1. CASE UNCHANGED vars
    BY <1>1 DEF vars, BatchesWereQueued, Batch
<1>2. CASE OtherStep
    <2>1. \A v \in Workers : Batch(v)' = Batch(v)
        BY <1>2, RowChanges DEF loopVars, Batch
    <2> QED BY <1>a, <2>1 DEF BatchesWereQueued
<1>3. ASSUME NEW w \in Workers, LoopStep(w) PROVE BatchesWereQueued'
    <2>1. \A v \in Workers \ {w} : Batch(v)' = Batch(v)
        BY <1>3, LoopSteps DEF TypeInv, Steady, Batch
    <2>2. \A e \in Batch(w)' : status'[e] # "unborn"
        <3> SUFFICES ASSUME NEW e \in Batch(w)' PROVE status'[e] # "unborn"
            OBVIOUS
        <3>1. e \in Batch(w) \/ (e \in Events /\ status[e] \in Queued)
            BY <1>3, LoopSteps DEF TypeInv
        <3>2. e \in Events /\ status[e] # "unborn"
            BY <1>0, <3>1 DEF BatchesWereQueued, Queued
        <3> QED BY <3>2, RowsAge
    <2> QED BY <1>a, <2>1, <2>2 DEF BatchesWereQueued
<1> QED BY <1>1, <1>2, <1>3, StepKinds

\* A loop settles an event only with the evidence it has at hand.
LEMMA OutcomeNext ==
    ASSUME TypeInv, EvidenceIsAtHand, OutcomeIsRecorded, [Next]_vars
    PROVE  OutcomeIsRecorded'
<1>0. log \in [Events -> SUBSET {"success", "failure"}] /\ received \in SUBSET Events
    BY DEF TypeInv, TypeOK
<1>1. CASE UNCHANGED vars
    BY <1>1 DEF vars, OutcomeIsRecorded
<1>2. CASE OtherStep
    <2>1. RowChange /\ received' = received
        BY <1>2, RowChanges
    <2> QED BY <1>0, <2>1 DEF RowChange, Moves, OutcomeIsRecorded, Rows, Queued
<1>3. ASSUME NEW w \in Workers, LoopStep(w) PROVE OutcomeIsRecorded'
    <2>1. RowStep(w)
        BY <1>3, RowSteps
    <2>2. phase[w] \in Delivering => Current(w) \in Events
        BY CurrentType DEF TypeInv
    <2>3. LogOrphan(w) => phase[w] = "orphaned"
        BY DEF LogOrphan
    <2>4. \A e \in Events :
             /\ status[e] = "delivered" => "success" \in log[e]
             /\ "success" \in log[e] => e \in received
             /\ status[e] \in {"failed", "dead"} => "failure" \in log[e]
        BY DEF OutcomeIsRecorded
    <2>5. phase[w] = "succeeded" => Current(w) \in received
        BY DEF EvidenceIsAtHand
    <2>6. phase[w] = "burying" => status[Current(w)] = "gone" \/ "failure" \in log[Current(w)]
        BY DEF EvidenceIsAtHand
    <2> SUFFICES ASSUME NEW e \in Events
                 PROVE  /\ status'[e] = "delivered" => "success" \in log'[e]
                        /\ "success" \in log'[e] => e \in received'
                        /\ status'[e] \in {"failed", "dead"} => "failure" \in log'[e]
        BY DEF OutcomeIsRecorded
    <2> QED
        BY <1>0, <2>1, <2>2, <2>3, <2>4, <2>5, <2>6
        DEF RowStep, Moves, LogAttempt, Delivering, Rows, Queued
<1> QED BY <1>1, <1>2, <1>3, StepKinds

\* The evidence is there as long as the loop is at that event.
LEMMA EvidenceNext ==
    ASSUME TypeInv, BatchesWereQueued, EvidenceIsAtHand, [Next]_vars
    PROVE  EvidenceIsAtHand'
<1> DEFINE Has(v) == /\ phase[v] = "succeeded" => Current(v) \in received
                     /\ phase[v] = "burying" =>
                           status[Current(v)] = "gone" \/ "failure" \in log[Current(v)]
<1>a. ASSUME NEW v \in Workers, phase'[v] = phase[v], todo'[v] = todo[v] PROVE Has(v)'
    <2>1. Current(v)' = Current(v)
        BY <1>a DEF Current
    <2>2. phase[v] \in {"succeeded", "burying"} => Current(v) \in Events
        BY CurrentType DEF TypeInv, Delivering
    <2>3. Has(v)
        BY DEF EvidenceIsAtHand
    <2> QED BY <1>a, <2>1, <2>2, <2>3, RowsAge
<1>b. ASSUME NEW v \in Workers, phase'[v] \notin {"succeeded", "burying"} PROVE Has(v)'
    BY <1>b
<1>1. CASE UNCHANGED vars
    BY <1>1, <1>a DEF vars, EvidenceIsAtHand
<1>2. CASE OtherStep
    BY <1>2, <1>a, RowChanges DEF loopVars, EvidenceIsAtHand
<1>3. ASSUME NEW w \in Workers, LoopStep(w) PROVE EvidenceIsAtHand'
    <2>1. \A v \in Workers \ {w} : Has(v)'
        BY <1>3, <1>a, LoopSteps DEF TypeInv, Steady
    <2>c. LoopTypes /\ todo[w] \in Seq(Events) /\ done[w] \in Seq(Events)
        BY TypeParts DEF TypeInv, LoopTypes
    <2>2. CASE phase'[w] \notin {"succeeded", "burying"}
        BY <1>b, <2>1, <2>2 DEF EvidenceIsAtHand
    <2>3. CASE LogOrphan(w)
        <3>1. /\ phase' = [phase EXCEPT ![w] = "burying"] /\ todo' = todo /\ status' = status
              /\ LogAttempt(Current(w), "failure") /\ phase[w] = "orphaned"
            BY <2>3 DEF LogOrphan, Turn, eventVars
        <3>2. Current(w) \in Events /\ Current(w) \in Batch(w)
            BY <3>1, CurrentType DEF TypeInv, Delivering
        <3>3. status[Current(w)] \in Rows \cup {"gone"}
            BY <3>2 DEF BatchesWereQueued, TypeInv, TypeOK
        <3>4. status[Current(w)] = "gone" \/ "failure" \in log'[Current(w)]
            BY <3>1, <3>2, <3>3 DEF LogAttempt, TypeInv, TypeOK
        <3>5. Has(w)'
            BY <2>c, <3>1, <3>4 DEF Current, LoopTypes
        <3> QED BY <2>1, <3>5 DEF EvidenceIsAtHand
    <2>4. ASSUME NEW consumed \in BOOLEAN, NEW answer \in {"succeeded", "failed"},
                 Post(w, consumed, answer)
          PROVE  EvidenceIsAtHand'
        <3>1. /\ phase' = [phase EXCEPT ![w] = answer] /\ todo' = todo
              /\ answer = "succeeded" => Current(w) \in received'
            BY <2>4 DEF Post
        <3>2. Has(w)'
            BY <2>c, <3>1 DEF Current, LoopTypes
        <3> QED BY <2>1, <3>2 DEF EvidenceIsAtHand
    <2>5. phase'[w] \notin {"succeeded", "burying"} \/ LogOrphan(w)
          \/ \E consumed \in BOOLEAN, answer \in {"succeeded", "failed"} :
                Post(w, consumed, answer)
        BY <1>3, PhaseSteps DEF TypeInv
    <2> QED BY <2>2, <2>3, <2>4, <2>5
<1> QED BY <1>1, <1>2, <1>3, StepKinds

\* The invariant of settled events holds in every state.
LEMMA SettledInvariance == Spec => []SettledInv
<1>1. Init => SettledInv
    <2>1. Init => TypeOK
        BY TypeInit
    <2> QED BY <2>1, EmptyBatch
            DEF Init, SettledInv, BatchesFollowSteps, BatchesWereQueued, CallsHaveTheirEvent,
                EvidenceIsAtHand, OutcomeIsRecorded, Batch, Delivering, Idle
<1>2. SettledInv /\ [Next]_vars => SettledInv'
    <2> SUFFICES ASSUME SettledInv, [Next]_vars PROVE SettledInv'
        OBVIOUS
    <2>1. TypeInv /\ BatchesWereQueued /\ EvidenceIsAtHand /\ OutcomeIsRecorded
        BY DEF SettledInv, TypeInv
    <2>2. TypeOK' /\ BatchesFollowSteps' /\ CallsHaveTheirEvent'
        BY <2>1, TypeNext DEF TypeInv
    <2>3. BatchesWereQueued' /\ EvidenceIsAtHand' /\ OutcomeIsRecorded'
        BY <2>1, BatchesQueuedNext, EvidenceNext, OutcomeNext
    <2> QED BY <2>2, <2>3 DEF SettledInv
<1> QED BY <1>1, <1>2, PTL DEF Spec

\* Every status has its evidence, whatever several loops and callers do.
THEOREM OutcomesRecorded == Spec => []OutcomeIsRecorded
<1>1. SettledInv => OutcomeIsRecorded
    BY DEF SettledInv
<1> QED BY <1>1, SettledInvariance, PTL

-----------------------------------------------------------------------------
(* One run loop and one caller.                                            *)

\* How a loop takes its batch through the phases.
BatchStep(w) ==
    \/ todo'[w] = <<>> /\ done'[w] = <<>> /\ phase'[w] \in {"recover", "select"}
    \/ /\ phase'[w] = "mark" /\ done'[w] = <<>> /\ status' = status
       /\ IsInjective(todo'[w]) /\ Range(todo'[w]) \subseteq Claimable
    \/ /\ phase[w] = "mark"
       /\ Moves({Head(todo[w])} \cap {e \in Events : status[e] \in Rows}, "delivering")
       /\ \/ /\ phase'[w] = "mark" /\ todo'[w] = Tail(todo[w])
             /\ done'[w] = Append(done[w], Head(todo[w]))
          \/ /\ Tail(todo[w]) = <<>> /\ phase'[w] = "fetch"
             /\ todo'[w] = Append(done[w], Head(todo[w])) /\ done'[w] = <<>>
    \/ /\ phase[w] = "fetch" /\ status' = status
       /\ \E d \in {done[w], Append(done[w], Head(todo[w]))} :
             \/ phase'[w] = "fetch" /\ todo'[w] = Tail(todo[w]) /\ done'[w] = d
             \/ phase'[w] = "deliver" /\ todo'[w] = d /\ done'[w] = <<>>
    \/ /\ phase[w] \in Delivering /\ phase'[w] \in Delivering
       /\ UNCHANGED <<todo, done, status>>
    \/ /\ phase[w] \in Delivering /\ phase'[w] = "deliver"
       /\ todo'[w] = Tail(todo[w]) /\ done'[w] = <<>>
       /\ \A e \in Events : status'[e] = status[e] \/ e = Current(w)

\* That is all a loop does to its batch.
LEMMA BatchSteps ==
    ASSUME TypeInv, NEW w \in Workers, LoopStep(w)
    PROVE  BatchStep(w)
<1>0. LoopTypes /\ todo[w] \in Seq(Events) /\ done[w] \in Seq(Events)
    BY DEF LoopTypes, TypeInv, TypeOK, Phases
<1> USE DEF TypeInv
<1>a. ASSUME NEW ph \in {"recover", "select"}, GoTo(w, ph, <<>>) PROVE BatchStep(w)
    <2>1. ph \in Phases
        BY DEF Phases, Claiming
    <2> QED BY <1>0, <1>a, <2>1, GoToFacts, EmptyBatch DEF BatchStep
<1>b. ASSUME phase[w] \in Delivering, Finish(w),
             \A e \in Events : status'[e] = status[e] \/ e = Current(w)
      PROVE  BatchStep(w)
    <2>1. todo[w] # <<>>
        BY <1>b DEF BatchesFollowSteps, Delivering
    <2> QED BY <1>0, <1>b, <2>1, FinishFacts DEF BatchStep
<1>c. ASSUME phase[w] \in Delivering, NEW ph \in Delivering,
             phase' = [phase EXCEPT ![w] = ph], UNCHANGED <<todo, done, status>>
      PROVE  BatchStep(w)
    BY <1>0, <1>c DEF BatchStep, LoopTypes
<1>1. CASE Recover(w)
    BY <1>1, <1>a DEF Recover
<1>2. CASE Select(w)
    <2> DEFINE size == IF Cardinality(Claimable) < BatchSize
                       THEN Cardinality(Claimable) ELSE BatchSize
    <2>1. PICK ids \in Injection(1..size, Claimable) :
             GoTo(w, IF ids = <<>> THEN "recover" ELSE "mark", ids)
        BY <1>2 DEF Select
    <2>2. ids \in Seq(Events) /\ IsInjective(ids) /\ Range(ids) \subseteq Claimable
        BY Selected DEF Claimable
    <2>3. (IF ids = <<>> THEN "recover" ELSE "mark") \in Phases
        BY DEF Phases, Claiming
    <2>4. /\ phase'[w] = (IF ids = <<>> THEN "recover" ELSE "mark")
          /\ todo'[w] = ids /\ done'[w] = <<>>
        BY <1>0, <2>1, <2>2, <2>3, GoToFacts
    <2>5. status' = status
        BY <1>2 DEF Select, eventVars
    <2> QED BY <2>2, <2>4, <2>5 DEF BatchStep
<1>3. CASE Mark(w)
    <2>1. todo[w] # <<>> /\ phase[w] = "mark" /\ "fetch" \in Phases
        BY <1>3 DEF Mark, BatchesFollowSteps, Phases, Claiming
    <2>2. Append(done[w], Head(todo[w])) \in Seq(Events)
        BY <1>0, <2>1, HeadAndTail, OneMoreKept
    <2>3. /\ Advance(w, Append(done[w], Head(todo[w])), "fetch")
          /\ Moves({Head(todo[w])} \cap {e \in Events : status[e] \in Rows}, "delivering")
        BY <1>3 DEF Mark, SetStatus, Moves
    <2>4. \/ /\ Tail(todo[w]) # <<>> /\ phase'[w] = phase[w]
             /\ todo'[w] = Tail(todo[w]) /\ done'[w] = Append(done[w], Head(todo[w]))
          \/ /\ Tail(todo[w]) = <<>>
             /\ phase'[w] = "fetch" /\ todo'[w] = Append(done[w], Head(todo[w]))
             /\ done'[w] = <<>>
          \/ phase'[w] = "recover" /\ todo'[w] = <<>> /\ done'[w] = <<>>
        BY <1>0, <2>1, <2>2, <2>3, AdvanceFacts
    <2> QED BY <2>1, <2>3, <2>4 DEF BatchStep
<1>4. CASE Fetch(w)
    <2>1. todo[w] # <<>> /\ phase[w] = "fetch" /\ "deliver" \in Phases /\ status' = status
        BY <1>4 DEF Fetch, BatchesFollowSteps, Phases, Delivering, eventVars
    <2>2. Append(done[w], Head(todo[w])) \in Seq(Events)
        BY <1>0, <2>1, HeadAndTail, OneMoreKept
    <2>3. PICK d \in {done[w], Append(done[w], Head(todo[w]))} : Advance(w, d, "deliver")
        BY <1>4 DEF Fetch
    <2>4. \/ /\ phase'[w] = phase[w] /\ todo'[w] = Tail(todo[w]) /\ done'[w] = d
          \/ /\ phase'[w] = "deliver" /\ todo'[w] = d /\ done'[w] = <<>>
          \/ phase'[w] = "recover" /\ todo'[w] = <<>> /\ done'[w] = <<>>
        BY <1>0, <2>1, <2>2, <2>3, AdvanceFacts
    <2> QED BY <2>1, <2>4 DEF BatchStep
<1>5. CASE FailClaim(w) \/ Crash(w)
    BY <1>5, <1>a DEF FailClaim, Crash
<1>6. CASE FetchEndpoint(w) \/ FindDisabled(w) \/ FindDeleted(w) \/ LogOrphan(w)
    BY <1>6, <1>c
    DEF FetchEndpoint, FindDisabled, FindDeleted, LogOrphan, Turn, Delivering, eventVars
<1>7. ASSUME NEW consumed \in BOOLEAN, NEW answer \in {"succeeded", "failed"},
             Post(w, consumed, answer)
      PROVE  BatchStep(w)
    BY <1>7, <1>c DEF Post, Delivering, eventVars
<1>8. CASE \/ BuryOrphan(w) \/ ResetToPending(w) \/ RecordSuccess(w) \/ RecordFailure(w)
           \/ LoseDelivery(w)
    <2>1. phase[w] \in Delivering /\ Finish(w)
        BY <1>8
        DEF BuryOrphan, ResetToPending, RecordSuccess, RecordFailure, LoseDelivery, Delivering
    <2>2. \A e \in Events : status'[e] = status[e] \/ e = Current(w)
        BY <1>8
        DEF BuryOrphan, ResetToPending, RecordSuccess, RecordFailure, LoseDelivery, SetStatus,
            eventVars
    <2> QED BY <1>b, <2>1, <2>2
<1> QED BY <1>1, <1>2, <1>3, <1>4, <1>5, <1>6, <1>7, <1>8 DEF LoopStep, Claim, Deliver

\* The rest of a batch and what has been kept of it stay apart.
LEMMA DistinctNext ==
    ASSUME TypeInv, BatchIsDistinct, [Next]_vars
    PROVE  BatchIsDistinct'
<1> DEFINE Distinct(v) == /\ IsInjective(todo[v]) /\ IsInjective(done[v])
                          /\ Range(todo[v]) \cap Range(done[v]) = {}
<1>1. CASE UNCHANGED vars \/ OtherStep
    <2>1. UNCHANGED <<todo, done>>
        BY <1>1, RowChanges DEF vars, loopVars
    <2> QED BY <2>1 DEF BatchIsDistinct
<1>2. ASSUME NEW w \in Workers, LoopStep(w) PROVE BatchIsDistinct'
    <2>1. \A v \in Workers \ {w} : Distinct(v)'
        BY <1>2, LoopSteps DEF TypeInv, Steady, BatchIsDistinct
    <2>2. todo[w] \in Seq(Events) /\ done[w] \in Seq(Events) /\ Distinct(w)
        BY DEF TypeInv, TypeOK, BatchIsDistinct
    <2>3. ASSUME todo[w] # <<>>
          PROVE  /\ IsInjective(Tail(todo[w])) /\ IsInjective(Append(done[w], Head(todo[w])))
                 /\ Range(Tail(todo[w])) \cap Range(done[w]) = {}
                 /\ Range(Tail(todo[w])) \cap Range(Append(done[w], Head(todo[w]))) = {}
        <3>1. /\ Head(todo[w]) \in Events /\ Head(todo[w]) \notin Range(Tail(todo[w]))
              /\ Range(todo[w]) = {Head(todo[w])} \cup Range(Tail(todo[w]))
              /\ IsInjective(Tail(todo[w]))
            BY <2>2, <2>3, HeadAndTail
        <3>2. Head(todo[w]) \notin Range(done[w])
            BY <2>2, <3>1
        <3>3. /\ Range(Append(done[w], Head(todo[w]))) = Range(done[w]) \cup {Head(todo[w])}
              /\ IsInjective(Append(done[w], Head(todo[w])))
            BY <2>2, <3>1, <3>2, OneMoreKept
        <3> QED BY <2>2, <3>1, <3>3
    <2>4. BatchStep(w)
        BY <1>2, BatchSteps
    <2>5. phase[w] \in Delivering \cup {"mark", "fetch"} => todo[w] # <<>>
        BY DEF TypeInv, BatchesFollowSteps, Delivering
    <2>6. Distinct(w)'
        BY <2>2, <2>3, <2>4, <2>5, EmptyBatch DEF BatchStep
    <2> QED BY <2>1, <2>6 DEF BatchIsDistinct
<1> QED BY <1>1, <1>2, StepKinds

\* What BatchIsOwned says of one loop.
Owns(w) ==
    /\ phase[w] = "mark" =>
          /\ \A e \in Range(todo[w]) : status[e] \in Queued \cup {"gone"}
          /\ \A e \in Range(done[w]) : status[e] \in {"delivering", "gone"}
    /\ phase[w] \in Delivering \cup {"fetch"} =>
          \A e \in Range(todo[w]) \cup Range(done[w]) : status[e] \in {"delivering", "gone"}

\* Nobody else touches the loop's batch, and the loop deals with its events one
\* at a time.
LEMMA OwnedNext ==
    ASSUME OneOfEach, TypeInv, BatchesWereQueued, RetriesFoundDead, BatchIsDistinct,
           BatchIsOwned, [Next]_vars
    PROVE  BatchIsOwned'
<1>0. ASSUME NEW v \in Workers
      PROVE  /\ Owns(v) /\ todo[v] \in Seq(Events) /\ done[v] \in Seq(Events)
             /\ Range(todo[v]) \subseteq Events /\ Range(done[v]) \subseteq Events
    BY RangeOfSeq DEF Owns, BatchIsOwned, TypeInv, TypeOK
<1> SUFFICES ASSUME NEW w \in Workers PROVE Owns(w)'
    BY DEF Owns, BatchIsOwned
<1>1. CASE UNCHANGED vars
    BY <1>0, <1>1 DEF vars, Owns
<1>2. CASE OtherStep
    <2>1. RowChange /\ UNCHANGED <<phase, todo, done>>
        BY <1>2, RowChanges DEF loopVars
    <2>2. ASSUME NEW e \in Events, status[e] \in Queued \cup {"delivering", "gone"}
          PROVE  status'[e] = status[e] \/ status'[e] = "gone"
        <3>1. ~RecoverCalls
            BY DEF OneOfEach
        <3>2. \A c \in Callers : call[c].step = "known" => status[call[c].event] \in {"dead", "gone"}
            BY DEF RetriesFoundDead
        <3> QED BY <2>1, <2>2, <3>1, <3>2 DEF RowChange, Moves, Queued, Rows
    <2> QED BY <1>0, <2>1, <2>2 DEF Owns
<1>3. CASE LoopStep(w)
    <2>1. BatchStep(w)
        BY <1>3, BatchSteps
    <2>2. phase[w] \in Delivering \cup {"mark", "fetch"} => todo[w] # <<>>
        BY DEF TypeInv, BatchesFollowSteps, Delivering
    <2>3. ASSUME todo[w] # <<>>
          PROVE  /\ Head(todo[w]) \in Events /\ Head(todo[w]) \notin Range(Tail(todo[w]))
                 /\ Range(todo[w]) = {Head(todo[w])} \cup Range(Tail(todo[w]))
                 /\ Head(todo[w]) \notin Range(done[w])
                 /\ Range(Append(done[w], Head(todo[w]))) = Range(done[w]) \cup {Head(todo[w])}
        <3>1. IsInjective(todo[w]) /\ Range(todo[w]) \cap Range(done[w]) = {}
            BY DEF BatchIsDistinct
        <3>2. /\ Head(todo[w]) \in Events /\ Head(todo[w]) \notin Range(Tail(todo[w]))
              /\ Range(todo[w]) = {Head(todo[w])} \cup Range(Tail(todo[w]))
            BY <1>0, <2>3, <3>1, HeadAndTail
        <3> QED BY <1>0, <3>1, <3>2, OneMoreKept
    <2>4. \A e \in Range(<<>>) : FALSE
        BY EmptyBatch
    <2>5. CASE todo'[w] = <<>> /\ done'[w] = <<>> /\ phase'[w] \in {"recover", "select"}
        BY <2>5 DEF Owns, Delivering
    <2>6. CASE /\ phase'[w] = "mark" /\ done'[w] = <<>> /\ status' = status
               /\ Range(todo'[w]) \subseteq Claimable
        BY <2>4, <2>6 DEF Owns, Claimable, Delivering
    <2>7. CASE /\ phase[w] = "mark"
               /\ Moves({Head(todo[w])} \cap {e \in Events : status[e] \in Rows}, "delivering")
               /\ \/ /\ phase'[w] = "mark" /\ todo'[w] = Tail(todo[w])
                     /\ done'[w] = Append(done[w], Head(todo[w]))
                  \/ /\ Tail(todo[w]) = <<>> /\ phase'[w] = "fetch"
                     /\ todo'[w] = Append(done[w], Head(todo[w])) /\ done'[w] = <<>>
        <3>1. /\ \A e \in Range(todo[w]) : status[e] \in Queued \cup {"gone"}
              /\ \A e \in Range(done[w]) : status[e] \in {"delivering", "gone"}
            BY <1>0, <2>7 DEF Owns
        <3>2. /\ \A e \in Range(Tail(todo[w])) : status'[e] \in Queued \cup {"gone"}
              /\ \A e \in Range(Append(done[w], Head(todo[w]))) :
                    status'[e] \in {"delivering", "gone"}
            BY <1>0, <2>2, <2>3, <2>7, <3>1 DEF Moves, Rows, Queued
        <3> QED BY <2>4, <2>7, <3>2 DEF Owns, Delivering
    <2>8. CASE /\ phase[w] = "fetch" /\ status' = status
               /\ \E d \in {done[w], Append(done[w], Head(todo[w]))} :
                     \/ phase'[w] = "fetch" /\ todo'[w] = Tail(todo[w]) /\ done'[w] = d
                     \/ phase'[w] = "deliver" /\ todo'[w] = d /\ done'[w] = <<>>
        <3>1. \A e \in Range(todo[w]) \cup Range(done[w]) : status[e] \in {"delivering", "gone"}
            BY <1>0, <2>8 DEF Owns
        <3> QED BY <2>2, <2>3, <2>4, <2>8, <3>1 DEF Owns, Delivering
    <2>9. CASE /\ phase[w] \in Delivering /\ phase'[w] \in Delivering
               /\ UNCHANGED <<todo, done, status>>
        BY <1>0, <2>9 DEF Owns, Delivering
    <2>10. CASE /\ phase[w] \in Delivering /\ phase'[w] = "deliver"
                /\ todo'[w] = Tail(todo[w]) /\ done'[w] = <<>>
                /\ \A e \in Events : status'[e] = status[e] \/ e = Current(w)
        <3>1. \A e \in Range(todo[w]) : status[e] \in {"delivering", "gone"}
            BY <1>0, <2>10 DEF Owns
        <3>2. \A e \in Range(Tail(todo[w])) : status'[e] \in {"delivering", "gone"}
            BY <1>0, <2>2, <2>3, <2>10, <3>1 DEF Current
        <3> QED BY <2>4, <2>10, <3>2 DEF Owns, Delivering
    <2> QED BY <2>1, <2>5, <2>6, <2>7, <2>8, <2>9, <2>10 DEF BatchStep
<1> QED BY <1>1, <1>2, <1>3, StepKinds DEF OneOfEach

\* The loop marks queued rows only, and records an outcome for its own only.
LEMMA OwnRowsChange ==
    ASSUME TypeInv, BatchIsOwned, NEW w \in Workers, LoopStep(w), NEW e \in Events,
           status[e] \notin Queued \cup {"delivering"}
    PROVE  status'[e] = status[e]
<1>1. RowStep(w)
    BY RowSteps
<1>2. Mark(w) => status[Head(todo[w])] \in Queued \cup {"gone"}
    <2> SUFFICES ASSUME Mark(w) PROVE status[Head(todo[w])] \in Queued \cup {"gone"}
        OBVIOUS
    <2>1. phase[w] = "mark" /\ todo[w] \in Seq(Events) /\ todo[w] # <<>>
        BY DEF Mark, TypeInv, TypeOK, BatchesFollowSteps
    <2>2. Head(todo[w]) \in Range(todo[w])
        BY <2>1, HeadAndTail
    <2> QED BY <2>1, <2>2 DEF BatchIsOwned
<1> QED BY <1>1, <1>2 DEF RowStep, Moves, Rows, Queued

\* The only caller has looked its event up since, or nothing has changed it.
LEMMA RetriesNext ==
    ASSUME OneOfEach, TypeInv, RetriesFoundDead, BatchIsOwned, [Next]_vars
    PROVE  RetriesFoundDead'
<1>0. ASSUME NEW c \in Callers, call[c].step \in {"checked", "known"}
      PROVE  call[c].event \in Events /\ status[call[c].event] \in {"dead", "gone"}
    BY <1>0 DEF TypeInv, CallsHaveTheirEvent, RetriesFoundDead
<1>a. ASSUME call' = call,
             \A e \in Events : status[e] \in {"dead", "gone"} => status'[e] \in {"dead", "gone"}
      PROVE  RetriesFoundDead'
    BY <1>0, <1>a DEF RetriesFoundDead
<1>1. CASE UNCHANGED vars
    BY <1>1 DEF vars, RetriesFoundDead
<1>2. CASE Administer \/ Elapse
    <2>1. call' = call
        BY <1>2
        DEF Administer, RegisterEndpoint, UpdateMaxAttempts, SetEnabled, DeleteEndpoint,
            Cleanup, Send, RecoverByHand, Elapse, BackoffElapses, StuckTimeoutElapses,
            CircuitElapses
    <2>2. \A e \in Events : status[e] \in {"dead", "gone"} => status'[e] \in {"dead", "gone"}
        <3>1. ASSUME NEW S \in SUBSET Events, DeleteRows(S)
              PROVE  \A e \in Events :
                        status[e] \in {"dead", "gone"} => status'[e] \in {"dead", "gone"}
            BY <3>1 DEF DeleteRows, SetStatus
        <3>2. CASE Administer
            <4>1. ASSUME NEW p \in Endpoints, DeleteEndpoint(p)
                  PROVE  \A e \in Events :
                            status[e] \in {"dead", "gone"} => status'[e] \in {"dead", "gone"}
                BY <3>1, <4>1 DEF DeleteEndpoint
            <4>2. ASSUME NEW s \in {"delivered", "dead"}, NEW S \in SUBSET Events, Cleanup(s, S)
                  PROVE  \A e \in Events :
                            status[e] \in {"dead", "gone"} => status'[e] \in {"dead", "gone"}
                BY <3>1, <4>2 DEF Cleanup
            <4>3. ASSUME NEW e \in Events, Send(e)
                  PROVE  \A f \in Events :
                            status[f] \in {"dead", "gone"} => status'[f] \in {"dead", "gone"}
                BY <4>3 DEF Send, InsertEvent, TypeInv, TypeOK
            <4>4. ~RecoverByHand
                BY DEF RecoverByHand, OneOfEach
            <4> QED
                BY <3>2, <4>1, <4>2, <4>3, <4>4
                DEF Administer, RegisterEndpoint, UpdateMaxAttempts, SetEnabled, eventVars
        <3>3. CASE Elapse
            BY <3>3 DEF Elapse, BackoffElapses, StuckTimeoutElapses, CircuitElapses, eventVars
        <3> QED BY <1>2, <3>2, <3>3
    <2> QED BY <1>a, <2>1, <2>2
<1>3. ASSUME NEW c \in Callers, CallSteps(c) \/ AbandonCall(c) PROVE RetriesFoundDead'
    <2>0. \A d \in Callers : d = c
        BY DEF OneOfEach
    <2>c. call \in [Callers -> [step : {"idle", "checked", "known", "requeued", "fanout"},
                                event : Events \cup {NoEvent},
                                endpoints : SUBSET Endpoints]]
        BY DEF TypeInv, TypeOK
    <2>1. ASSUME NEW e \in Events, CheckDead(c, e) PROVE RetriesFoundDead'
        <3>1. /\ status' = status /\ status[e] = "dead"
              /\ call' = [call EXCEPT ![c] = [step |-> "checked", event |-> e, endpoints |-> {}]]
            BY <2>1 DEF CheckDead, Proceed, eventVars
        <3>2. call'[c] = [step |-> "checked", event |-> e, endpoints |-> {}]
            BY <2>c, <3>1
        <3>3. call'[c].event = e
            BY <3>2
        <3> QED BY <2>0, <3>1, <3>3 DEF RetriesFoundDead
    <2>2. CASE LookUpEndpoint(c)
        <3>1. PICK S : call' = [call EXCEPT ![c] = [call[c] EXCEPT !.step = "known",
                                                                   !.endpoints = S]]
            BY <2>2 DEF LookUpEndpoint, Proceed
        <3>2. status' = status /\ call[c].step = "checked"
            BY <2>2 DEF LookUpEndpoint, eventVars
        <3>3. call'[c].event = call[c].event
            BY <2>c, <3>1
        <3> QED BY <1>0, <2>0, <3>2, <3>3 DEF RetriesFoundDead
    <2>3. ASSUME NEW r \in [step : {"idle", "requeued", "fanout"}, event : Events \cup {NoEvent},
                            endpoints : SUBSET Endpoints], Proceed(c, r)
          PROVE  RetriesFoundDead'
        BY <2>0, <2>c, <2>3 DEF Proceed, RetriesFoundDead
    <2>4. Idle \in [step : {"idle", "requeued", "fanout"}, event : Events \cup {NoEvent},
                    endpoints : SUBSET Endpoints]
        BY DEF Idle
    <2>5. CASE AbandonCall(c) \/ CloseCircuit(c)
        BY <2>3, <2>4, <2>5 DEF AbandonCall, CloseCircuit
    <2>6. CASE BeginBroadcast(c)
        BY <2>3, <2>6 DEF BeginBroadcast
    <2>7. ASSUME NEW p \in Endpoints, RetryAllDead(c, p) PROVE RetriesFoundDead'
        BY <2>3, <2>7 DEF RetryAllDead
    <2>8. ASSUME NEW e \in Events, FanOut(c, e) PROVE RetriesFoundDead'
        <3>1. [call[c] EXCEPT !.endpoints = @ \ {EndpointOf[e]}] \in
                 [step : {"idle", "requeued", "fanout"}, event : Events \cup {NoEvent},
                  endpoints : SUBSET Endpoints]
            BY <2>c, <2>8 DEF FanOut
        <3> QED BY <2>3, <2>4, <2>8, <3>1 DEF FanOut
    <2>9. CASE RetryKnown(c)
        <3>1. [call[c] EXCEPT !.step = "requeued", !.event = NoEvent] \in
                 [step : {"idle", "requeued", "fanout"}, event : Events \cup {NoEvent},
                  endpoints : SUBSET Endpoints]
            BY <2>c
        <3> QED BY <2>3, <2>4, <2>9, <3>1 DEF RetryKnown
    <2> QED BY <1>3, <2>1, <2>2, <2>5, <2>6, <2>7, <2>8, <2>9 DEF CallSteps
<1>4. ASSUME NEW w \in Workers, LoopStep(w) PROVE RetriesFoundDead'
    <2>1. call' = call
        BY <1>4, LoopSteps DEF TypeInv
    <2>2. \A e \in Events : status[e] \in {"dead", "gone"} => status'[e] \in {"dead", "gone"}
        BY <1>4, OwnRowsChange DEF Queued
    <2> QED BY <1>a, <2>1, <2>2
<1> QED BY <1>1, <1>2, <1>3, <1>4, StepKinds DEF OtherStep

\* A success is recorded for an event in hand, and so settles it.
LEMMA SuccessNext ==
    ASSUME OneOfEach, TypeInv, RetriesFoundDead, BatchIsOwned, SuccessSettles, [Next]_vars
    PROVE  SuccessSettles'
<1>0. /\ log \in [Events -> SUBSET {"success", "failure"}]
      /\ status \in [Events -> Rows \cup {"unborn", "gone"}]
    BY DEF TypeInv, TypeOK
<1>1. CASE UNCHANGED vars
    BY <1>1 DEF vars, SuccessSettles
<1>2. CASE OtherStep
    <2>1. RowChange
        BY <1>2, RowChanges
    <2>2. ~RecoverCalls
        BY DEF OneOfEach
    <2>3. \A c \in Callers : call[c].step = "known" => status[call[c].event] \in {"dead", "gone"}
        BY DEF RetriesFoundDead
    <2> QED BY <1>0, <2>1, <2>2, <2>3 DEF RowChange, Moves, SuccessSettles
<1>3. ASSUME NEW w \in Workers, LoopStep(w) PROVE SuccessSettles'
    <2>1. RowStep(w)
        BY <1>3, RowSteps
    <2>2. \A e \in Events : status[e] \notin Queued \cup {"delivering"} => status'[e] = status[e]
        BY <1>3, OwnRowsChange
    <2>3. phase[w] \in Delivering =>
             Current(w) \in Events /\ status[Current(w)] \in {"delivering", "gone"}
        BY CurrentType DEF TypeInv, BatchIsOwned, Batch
    <2>4. LogOrphan(w) => phase[w] = "orphaned"
        BY DEF LogOrphan
    <2> SUFFICES ASSUME NEW e \in Events, "success" \in log'[e] PROVE status'[e] = "delivered"
        BY DEF SuccessSettles
    <2>5. CASE "success" \in log[e]
        BY <2>2, <2>5 DEF SuccessSettles, Queued
    <2>6. CASE "success" \notin log[e]
        <3>1. /\ phase[w] = "succeeded" /\ LogAttempt(Current(w), "success")
              /\ status[Current(w)] = "delivering" => Moves({Current(w)}, "delivered")
            BY <1>0, <2>1, <2>6 DEF RowStep, LogAttempt
        <3> QED BY <1>0, <2>3, <2>6, <3>1 DEF LogAttempt, Moves, Delivering, Rows, Queued
    <2> QED BY <2>5, <2>6
<1> QED BY <1>1, <1>2, <1>3, StepKinds

\* The invariant of a single run loop and caller, which are constants.
LEMMA OneLoopInvariance == OneOfEach /\ Spec => []OneLoopInv
<1>1. Init => OneLoopInv
    <2>1. Init => TypeOK
        BY TypeInit
    <2> QED BY <2>1, EmptyBatch
            DEF Init, OneLoopInv, SettledInv, BatchesFollowSteps, BatchesWereQueued,
                CallsHaveTheirEvent, EvidenceIsAtHand, OutcomeIsRecorded, BatchIsDistinct,
                BatchIsOwned, RetriesFoundDead, SuccessSettles, Batch, Delivering, Idle
<1>2. OneOfEach /\ OneLoopInv /\ [Next]_vars => OneLoopInv'
    <2> SUFFICES ASSUME OneOfEach, OneLoopInv, [Next]_vars PROVE OneLoopInv'
        OBVIOUS
    <2>1. /\ TypeInv /\ BatchesWereQueued /\ EvidenceIsAtHand /\ OutcomeIsRecorded
          /\ BatchIsDistinct /\ BatchIsOwned /\ RetriesFoundDead /\ SuccessSettles
        BY DEF OneLoopInv, SettledInv, TypeInv
    <2>2. TypeOK' /\ BatchesFollowSteps' /\ CallsHaveTheirEvent'
        BY <2>1, TypeNext DEF TypeInv
    <2>3. BatchesWereQueued' /\ EvidenceIsAtHand' /\ OutcomeIsRecorded'
        BY <2>1, BatchesQueuedNext, EvidenceNext, OutcomeNext
    <2>4. BatchIsDistinct' /\ BatchIsOwned' /\ RetriesFoundDead' /\ SuccessSettles'
        BY <2>1, DistinctNext, OwnedNext, RetriesNext, SuccessNext
    <2> QED BY <2>2, <2>3, <2>4 DEF OneLoopInv, SettledInv
<1>3. OneOfEach => OneOfEach'
    BY DEF OneOfEach
<1> QED BY <1>1, <1>2, <1>3, PTL DEF Spec

\* With one run loop and one caller, the batch of the loop is its own however
\* slow it is: nobody settles, requeues or reclaims what it has claimed.
THEOREM BatchOwned == OneOfEach /\ Spec => []BatchIsOwned
<1>1. OneLoopInv => BatchIsOwned
    BY DEF OneLoopInv
<1> QED BY <1>1, OneLoopInvariance, PTL

\* With one run loop and one caller, what is on record as delivered is never
\* sent again, even after a crash, an error or a retry.
THEOREM NeverPostedAgain == OneOfEach /\ Spec => []NoPostAfterSuccess
<1>1. OneLoopInv => NoPostAfterSuccess
    <2> SUFFICES ASSUME OneLoopInv, NEW w \in Workers, phase[w] = "sending"
                 PROVE  "success" \notin log[Current(w)]
        BY DEF NoPostAfterSuccess
    <2>1. TypeOK /\ BatchesFollowSteps /\ BatchIsOwned /\ SuccessSettles
        BY DEF OneLoopInv, SettledInv
    <2>2. phase[w] \in Delivering
        BY DEF Delivering
    <2>3. Current(w) \in Events /\ Current(w) \in Batch(w)
        BY <2>1, <2>2, CurrentType
    <2>4. status[Current(w)] \in {"delivering", "gone"}
        BY <2>1, <2>2, <2>3 DEF BatchIsOwned, Batch
    <2> QED BY <2>1, <2>3, <2>4 DEF SuccessSettles
<1> QED BY <1>1, OneLoopInvariance, PTL

-----------------------------------------------------------------------------
(* The at-least-once queue.                                                *)

\* What the statuses stand for in the queue.
LEMMA QueueStates ==
    /\ QueueState("unborn") = "absent"
    /\ QueueState("pending") = "queued"
    /\ QueueState("failed") = "queued"
    /\ QueueState("delivering") = "queued"
    /\ QueueState("delivered") = "delivered"
    /\ QueueState("dead") = "dead"
    /\ QueueState("gone") = "removed"
  BY DEF QueueState, Queued

\* With one run loop and one caller, the unguarded statements over SQLite are
\* an at-least-once queue all the same: none of them brings a settled event
\* back but the retry of a dead one.
THEOREM AtLeastOnceImplemented == OneOfEach /\ Spec => ImplementsAtLeastOnce
<1> DEFINE state == [e \in Events |-> QueueState(status[e])]
<1>1. Init => Queue!Init
    BY QueueStates DEF Init, Queue!Init
<1>2. OneOfEach /\ OneLoopInv /\ [Next]_vars => [Queue!Next]_(Queue!vars)
    <2> SUFFICES ASSUME OneOfEach, OneLoopInv, [Next]_vars
                 PROVE  Queue!Next \/ UNCHANGED Queue!vars
        OBVIOUS
    <2>0. /\ TypeInv /\ BatchesWereQueued /\ EvidenceIsAtHand
          /\ BatchIsOwned /\ RetriesFoundDead
          /\ status \in [Events -> Rows \cup {"unborn", "gone"}]
        BY DEF OneLoopInv, SettledInv, TypeInv, TypeOK
    <2>1. ASSUME NEW S \in SUBSET Events, NEW s, Moves(S, s)
          PROVE  state' = [e \in Events |-> IF e \in S THEN QueueState(s) ELSE state[e]]
        BY <2>1 DEF Moves
    <2>2. CASE UNCHANGED <<status, received>>
        BY <2>2 DEF Queue!vars
    <2>3. ASSUME NEW e \in Events, status[e] # "unborn", status' = status,
                 received' = received \cup {e}
          PROVE  Queue!Next
        <3>1. state[e] # "absent"
            BY <2>0, <2>3, QueueStates DEF Rows, Queued
        <3>2. Queue!Consume(e)
            BY <2>3, <3>1 DEF Queue!Consume
        <3> QED BY <3>2 DEF Queue!Next
    <2>4. ASSUME NEW e \in Events, status[e] = "unborn", Moves({e}, "pending"),
                 received' = received
          PROVE  Queue!Next
        <3>1. Queue!Accept({e})
            BY <2>1, <2>4, QueueStates DEF Queue!Accept, Queue!Move
        <3> QED BY <3>1 DEF Queue!Next
    <2>5. ASSUME NEW S \in SUBSET Events, \A e \in S : status[e] = "dead",
                 Moves(S, "pending"), received' = received
          PROVE  Queue!Next
        <3>1. Queue!Requeue(S)
            BY <2>1, <2>5, QueueStates DEF Queue!Requeue, Queue!Move
        <3> QED BY <3>1 DEF Queue!Next
    <2>6. ASSUME NEW S \in SUBSET Events, \A e \in S : status[e] \in Rows,
                 Moves(S, "gone"), received' = received
          PROVE  Queue!Next
        <3>1. \A e \in S : state[e] \in {"queued", "delivered", "dead"}
            BY <2>6, QueueStates DEF Rows, Queued
        <3>2. Queue!Remove(S)
            BY <2>1, <2>6, <3>1, QueueStates DEF Queue!Remove, Queue!Move
        <3> QED BY <3>2 DEF Queue!Next
    <2>7. ASSUME NEW S \in SUBSET Events, NEW s \in Queued \cup {"delivering"},
                 \A e \in S : status[e] \in Queued \cup {"delivering"},
                 Moves(S, s), received' = received
          PROVE  UNCHANGED Queue!vars
        <3>1. QueueState(s) = "queued" /\ \A e \in S : state[e] = "queued"
            BY <2>7, QueueStates DEF Queued
        <3>2. state' = [e \in Events |-> IF e \in S THEN "queued" ELSE state[e]]
            BY <2>1, <2>7, <3>1
        <3>3. state' = state
            BY <3>1, <3>2
        <3> QED BY <2>7, <3>3 DEF Queue!vars
    <2>8. ASSUME NEW e \in Events, status[e] = "delivering", received' = received,
                 \/ e \in received /\ Moves({e}, "delivered")
                 \/ Moves({e}, "dead")
          PROVE  Queue!Next
        <3>1. state[e] = "queued"
            BY <2>8, QueueStates
        <3>2. CASE e \in received /\ Moves({e}, "delivered")
            <4>1. Queue!Deliver(e)
                BY <2>1, <2>8, <3>1, <3>2, QueueStates DEF Queue!Deliver, Queue!Move
            <4> QED BY <4>1 DEF Queue!Next
        <3>3. CASE Moves({e}, "dead")
            <4>1. Queue!GiveUp(e)
                BY <2>1, <2>8, <3>1, <3>3, QueueStates DEF Queue!GiveUp, Queue!Move
            <4> QED BY <4>1 DEF Queue!Next
        <3> QED BY <2>8, <3>2, <3>3
    <2>9. CASE OtherStep
        <3>1. RowChange /\ received' = received
            BY <2>0, <2>9, RowChanges
        <3>2. ~RecoverCalls
            BY DEF OneOfEach
        <3>3. ASSUME NEW c \in Callers, call[c].step = "known",
                     Moves({call[c].event} \cap {e \in Events : status[e] \in Rows}, "pending")
              PROVE  Queue!Next
            <4>1. status[call[c].event] \in {"dead", "gone"}
                BY <2>0, <3>3 DEF RetriesFoundDead
            <4>2. \A e \in {call[c].event} \cap {e \in Events : status[e] \in Rows} :
                     status[e] = "dead"
                BY <4>1 DEF Rows, Queued
            <4> QED BY <2>5, <3>1, <3>3, <4>2
        <3>4. ASSUME NEW S \in SUBSET Events, \A e \in S : status[e] = "dead",
                     Moves(S, "pending")
              PROVE  Queue!Next
            BY <2>5, <3>1, <3>4
        <3>5. ASSUME NEW S \in SUBSET Events, \A e \in S : status[e] \in Rows, Moves(S, "gone")
              PROVE  Queue!Next
            BY <2>6, <3>1, <3>5
        <3> QED BY <2>2, <2>4, <3>1, <3>2, <3>3, <3>4, <3>5 DEF RowChange
    <2>10. ASSUME NEW w \in Workers, LoopStep(w) PROVE Queue!Next \/ UNCHANGED Queue!vars
        <3>1. RowStep(w)
            BY <2>0, <2>10, RowSteps
        <3>2. phase[w] \in Delivering =>
                 /\ Current(w) \in Events /\ status[Current(w)] # "unborn"
                 /\ phase[w] = "succeeded" => Current(w) \in received
            BY <2>0, CurrentType DEF TypeInv, BatchesWereQueued, EvidenceIsAtHand
        <3>a. ASSUME NEW S \in SUBSET Events,
                     \A e \in S : status[e] \in Queued \cup {"delivering"},
                     received' = received,
                     Moves(S, "pending") \/ Moves(S, "failed") \/ Moves(S, "delivering")
              PROVE  UNCHANGED Queue!vars
            BY <2>7, <3>a DEF Queued
        <3>3. CASE /\ phase[w] = "recover" /\ UNCHANGED received
                   /\ Moves({e \in Events : status[e] = "delivering" /\ e \in stuck}, "pending")
            BY <3>3, <3>a
        <3>4. CASE /\ Mark(w) /\ UNCHANGED received
                   /\ Moves({Head(todo[w])} \cap {e \in Events : status[e] \in Rows},
                            "delivering")
            <4>1. phase[w] = "mark" /\ todo[w] \in Seq(Events) /\ todo[w] # <<>>
                BY <2>0, <3>4 DEF Mark, TypeInv, TypeOK, BatchesFollowSteps
            <4>2. Head(todo[w]) \in Range(todo[w])
                BY <4>1, HeadAndTail
            <4>3. status[Head(todo[w])] \in Queued \cup {"gone"}
                BY <2>0, <4>1, <4>2 DEF BatchIsOwned
            <4>4. \A e \in {Head(todo[w])} \cap {e \in Events : status[e] \in Rows} :
                     status[e] \in Queued \cup {"delivering"}
                BY <4>3 DEF Rows, Queued
            <4> QED BY <3>4, <3>a, <4>4
        <3>5. CASE /\ phase[w] = "burying" /\ UNCHANGED received
                   /\ Moves({Current(w)} \cap {e \in Events : status[e] = "delivering"}, "dead")
            <4>1. Current(w) \in Events
                BY <3>2, <3>5 DEF Delivering
            <4>2. CASE status[Current(w)] = "delivering"
                <5>1. {Current(w)} \cap {e \in Events : status[e] = "delivering"} = {Current(w)}
                    BY <4>1, <4>2
                <5> QED BY <2>8, <3>5, <4>1, <4>2, <5>1
            <4>3. CASE status[Current(w)] # "delivering"
                <5>1. status' = status
                    BY <2>0, <3>5, <4>3 DEF Moves
                <5> QED BY <2>2, <3>5, <5>1
            <4> QED BY <4>2, <4>3
        <3>6. CASE /\ phase[w] = "resetting" /\ UNCHANGED received
                   /\ Moves({Current(w)} \cap {e \in Events : status[e] = "delivering"},
                            "pending")
            BY <3>6, <3>a
        <3>7. CASE /\ phase[w] = "sending" /\ received' = received \cup {Current(w)}
                   /\ UNCHANGED status
            BY <2>3, <3>2, <3>7 DEF Delivering
        <3>8. CASE /\ phase[w] = "succeeded" /\ UNCHANGED received
                   /\ IF status[Current(w)] = "delivering"
                      THEN Moves({Current(w)}, "delivered") ELSE UNCHANGED status
            BY <2>2, <2>8, <3>2, <3>8 DEF Delivering
        <3>9. CASE /\ phase[w] = "failed" /\ UNCHANGED received
                   /\ IF status[Current(w)] = "delivering"
                      THEN Moves({Current(w)}, "dead") \/ Moves({Current(w)}, "failed")
                      ELSE UNCHANGED status
            <4>1. Current(w) \in Events
                BY <3>2, <3>9 DEF Delivering
            <4>2. CASE status[Current(w)] = "delivering" /\ Moves({Current(w)}, "failed")
                BY <3>9, <3>a, <4>1, <4>2
            <4> QED BY <2>2, <2>8, <3>9, <4>1, <4>2
        <3> QED BY <2>2, <3>1, <3>3, <3>4, <3>5, <3>6, <3>7, <3>8, <3>9 DEF RowStep
    <2>11. CASE UNCHANGED vars
        BY <2>2, <2>11 DEF vars
    <2> QED BY <2>9, <2>10, <2>11, StepKinds
<1>3. OneOfEach => OneOfEach'
    BY DEF OneOfEach
<1>4. OneOfEach /\ Spec => Queue!Spec
    BY <1>1, <1>2, <1>3, OneLoopInvariance, PTL DEF Spec, Queue!Spec
<1> QED BY <1>4 DEF ImplementsAtLeastOnce
=============================================================================
