--------------------------- MODULE DeliveryProofs ---------------------------
(***************************************************************************)
(* Proofs about Delivery, for every set of endpoints, events and workers,  *)
(* every batch size, set of max_attempts values and circuit threshold.     *)
(***************************************************************************)
EXTENDS Delivery, TLAPS

USE DeliveryAssumption DEF DeliveryAssumption

\* Every column keeps its type: no statement writes a status, a counter or a
\* task phase the others do not expect.
LEMMA TypeInit == Init => TypeOK
  BY DEF Init, TypeOK, Rows, Queued, Phases

\* Every statement keeps the types of the columns and the tasks.
LEMMA TypeNext == TypeOK /\ [Next]_vars => TypeOK'
<1> SUFFICES ASSUME TypeOK, [Next]_vars PROVE TypeOK'
    OBVIOUS
<1> USE DEF TypeOK, Rows, Queued, Phases, eventVars, endpointVars, taskVars, scheduleVars
<1>1. ASSUME NEW p \in Endpoints, NEW m \in MaxAttemptsValues, RegisterEndpoint(p, m)
      PROVE  TypeOK'
    BY <1>1 DEF RegisterEndpoint
<1>2. ASSUME NEW p \in Endpoints, NEW m \in MaxAttemptsValues, UpdateMaxAttempts(p, m)
      PROVE  TypeOK'
    BY <1>2 DEF UpdateMaxAttempts
<1>3. ASSUME NEW p \in Endpoints, Disable(p) \/ Enable(p) PROVE TypeOK'
    BY <1>3 DEF Disable, Enable, SetEnabled
<1>4. ASSUME NEW p \in Endpoints, DeleteEndpoint(p) PROVE TypeOK'
    BY <1>4 DEF DeleteEndpoint, RowsOf, DeleteRows, SetStatus, Unschedule, ResetCircuit
<1>5. ASSUME NEW e \in Events, RetryDead(e) PROVE TypeOK'
    BY <1>5 DEF RetryDead, Requeue, SetStatus, ScheduleNow, ResetCircuit
<1>6. ASSUME NEW p \in Endpoints, RetryAllDead(p) PROVE TypeOK'
    BY <1>6 DEF RetryAllDead, Requeue, SetStatus, ScheduleNow, ResetCircuit
<1>7. ASSUME NEW s \in {"delivered", "dead"}, NEW S \in SUBSET Events, Cleanup(s, S)
      PROVE  TypeOK'
    BY <1>7 DEF Cleanup, DeleteRows, SetStatus, Unschedule
<1>8. ASSUME NEW S \in SUBSET Events, InsertEvents(S) PROVE TypeOK'
    BY <1>8 DEF InsertEvents, ScheduleNow
<1>9. ASSUME NEW w \in Workers, Recover(w) PROVE TypeOK'
    BY <1>9 DEF Recover, ReturnStuck, SetStatus
<1>31. ASSUME RecoverByHand PROVE TypeOK'
    BY <1>31 DEF RecoverByHand, ReturnStuck, SetStatus
<1>10. ASSUME NEW w \in Workers, NEW B \in SUBSET Events, Claim(w, B) PROVE TypeOK'
    BY <1>10 DEF Claim, SetStatus
<1>11. ASSUME NEW w \in Workers, Join(w) PROVE TypeOK'
    BY <1>11 DEF Join
<1>12. ASSUME NEW w \in Workers, Crash(w) PROVE TypeOK'
    BY <1>12 DEF Crash
<1>13. ASSUME NEW w \in Workers, NEW e \in Events, FetchEndpoint(w, e) PROVE TypeOK'
    <2>1. maxAttempts[EndpointOf[e]] \in MaxAttemptsValues \cup {0}
        OBVIOUS
    <2> QED BY <1>13, <2>1 DEF FetchEndpoint
<1>14. ASSUME NEW w \in Workers, NEW e \in Events, FindDisabled(w, e) PROVE TypeOK'
    BY <1>14 DEF FindDisabled, AdvanceTask
<1>15. ASSUME NEW w \in Workers, NEW e \in Events, FindDeleted(w, e) PROVE TypeOK'
    BY <1>15 DEF FindDeleted, LogAttempt, EndTask, SetStatus, Unschedule
<1>16. ASSUME NEW w \in Workers, NEW e \in Events, ResetToPending(w, e) PROVE TypeOK'
    BY <1>16 DEF ResetToPending, EndTask, SetStatus, ScheduleNow
<1>17. ASSUME NEW w \in Workers, NEW e \in Events, NEW c \in BOOLEAN,
              NEW a \in {"succeeded", "failed"}, Post(w, e, c, a)
       PROVE  TypeOK'
    BY <1>17 DEF Post, AdvanceTask
<1>18. ASSUME NEW w \in Workers, NEW e \in Events, RecordSuccess(w, e) PROVE TypeOK'
    <2>1. /\ worker' = worker /\ endpoint' = endpoint
          /\ maxAttempts' = maxAttempts /\ received' = received
          /\ task' \in [Workers -> [Events -> Phases]]
          /\ snapshot' \in [Workers -> [Events -> MaxAttemptsValues \cup {0}]]
        BY <1>18 DEF RecordSuccess, LogAttempt, EndTask
    <2>2. log' \in [Events -> SUBSET {"success", "failure"}]
        BY <1>18 DEF RecordSuccess, LogAttempt
    <2>3. CASE status[e] = "delivering"
        <3>1. /\ SetStatus({e}, "delivered", NoWorker)
              /\ CountAttempt(e)
              /\ Unschedule({e})
              /\ ResetCircuit(EndpointOf[e])
            BY <1>18, <2>3 DEF RecordSuccess, LogAttempt
        <3> QED BY <2>1, <2>2, <3>1
                   DEF SetStatus, CountAttempt, Unschedule, ResetCircuit
    <2>4. CASE status[e] # "delivering"
        BY <1>18, <2>1, <2>2, <2>4 DEF RecordSuccess, LogAttempt
    <2> QED BY <2>3, <2>4
<1>19. ASSUME NEW w \in Workers, NEW e \in Events, ReadAttempts(w, e) PROVE TypeOK'
    <2>1. \/ AdvanceTask(w, e, "burying")
          \/ AdvanceTask(w, e, "retrying")
          \/ EndTask(w, e)
        <3>1. CASE Exhausts(w, e)
            BY <1>19, <3>1, Zenon DEF ReadAttempts
        <3>2. CASE ~Exhausts(w, e)
            BY <1>19, <3>2, Zenon DEF ReadAttempts
        <3> QED BY <3>1, <3>2
    <2>2. /\ task' \in [Workers -> [Events -> Phases]]
          /\ snapshot' \in [Workers -> [Events -> MaxAttemptsValues \cup {0}]]
          /\ worker' = worker
        <3>1. CASE AdvanceTask(w, e, "burying")
            BY <3>1 DEF AdvanceTask
        <3>2. CASE AdvanceTask(w, e, "retrying")
            BY <3>2 DEF AdvanceTask
        <3>3. CASE EndTask(w, e)
            BY <3>3 DEF EndTask
        <3> QED BY <2>1, <3>1, <3>2, <3>3
    <2> QED BY <1>19, <2>2 DEF ReadAttempts
<1>20. ASSUME NEW w \in Workers, NEW e \in Events, RecordFailure(w, e) PROVE TypeOK'
    <2>1. /\ worker' = worker /\ endpoint' = endpoint
          /\ maxAttempts' = maxAttempts /\ received' = received
          /\ task' \in [Workers -> [Events -> Phases]]
          /\ snapshot' \in [Workers -> [Events -> MaxAttemptsValues \cup {0}]]
        BY <1>20 DEF RecordFailure, LogAttempt, EndTask
    <2>2. log' \in [Events -> SUBSET {"success", "failure"}]
        BY <1>20 DEF RecordFailure, LogAttempt
    <2>3. /\ failures' \in [Endpoints -> 0..CircuitThreshold]
          /\ circuit' \in [Endpoints -> {"closed", "open", "elapsed"}]
        BY <1>20 DEF RecordFailure, LogAttempt, CountFailure
    <2>4. CASE status[e] = "delivering"
        <3>1. /\ \/ SetStatus({e}, "dead", NoWorker)
                 \/ SetStatus({e}, "failed", NoWorker)
              /\ CountAttempt(e)
              /\ Unschedule({e})
            BY <1>20, <2>4 DEF RecordFailure, LogAttempt
        <3> QED BY <2>1, <2>2, <2>3, <3>1 DEF SetStatus, CountAttempt, Unschedule
    <2>5. CASE status[e] # "delivering"
        BY <1>20, <2>1, <2>2, <2>3, <2>5 DEF RecordFailure, LogAttempt
    <2> QED BY <2>4, <2>5
<1>21. ASSUME NEW w \in Workers, NEW e \in Events, LoseTask(w, e) PROVE TypeOK'
    BY <1>21 DEF LoseTask, EndTask
<1>22. ASSUME NEW e \in Events, BackoffElapses(e) \/ StuckTimeoutElapses(e) PROVE TypeOK'
    BY <1>22 DEF BackoffElapses, StuckTimeoutElapses, ScheduleNow
<1>23. ASSUME NEW p \in Endpoints, CircuitElapses(p) PROVE TypeOK'
    BY <1>23 DEF CircuitElapses
<1>24. CASE UNCHANGED vars
    BY <1>24 DEF vars
<1>25. CASE Administer
    BY <1>25, <1>1, <1>2, <1>3, <1>4, <1>5, <1>6, <1>7, <1>31 DEF Administer
<1>26. CASE Enqueue
    BY <1>26, <1>8 DEF Enqueue, Send, Broadcast
<1>27. CASE \E w \in Workers : Cycle(w)
    BY <1>27, <1>9, <1>10, <1>11 DEF Cycle
<1>28. CASE \E w \in Workers, e \in Events : Deliver(w, e)
    <2>1. PICK w \in Workers, e \in Events : Deliver(w, e)
        BY <1>28
    <2> HIDE DEF TypeOK
    <2> QED BY <1>13, <1>14, <1>15, <1>16, <1>17, <1>18, <1>19, <1>20, <2>1 DEF Deliver
<1>29. CASE Elapse
    BY <1>29, <1>22, <1>23 DEF Elapse
<1>30. CASE Fail
    BY <1>30, <1>12, <1>21 DEF Fail
<1> QED
    BY <1>24, <1>25, <1>26, <1>27, <1>28, <1>29, <1>30 DEF Next

\* The type invariant of the pipeline.
THEOREM TypeCorrect == Spec => []TypeOK
  BY TypeInit, TypeNext, PTL DEF Spec

-----------------------------------------------------------------------------
\* Nothing is queued at first.
LEMMA RecordInit == Init => RecordInv
  BY TypeInit
     DEF Init, RecordInv, TasksFollowEvents, OutcomeIsRecorded, ForeignKeysHold,
         Rows, Queued, Held, Registered

\* A status settles only behind the log row that justifies it, and a task only
\* follows rows that it has claimed.
LEMMA RecordNext == RecordInv /\ [Next]_vars => RecordInv'
<1> DEFINE Good == TasksFollowEvents /\ OutcomeIsRecorded /\ ForeignKeysHold
<1> SUFFICES ASSUME RecordInv, [Next]_vars PROVE Good'
    BY TypeNext DEF RecordInv
<1>0. TypeOK /\ TypeOK' /\ Good
    BY TypeNext DEF RecordInv
<1> HIDE DEF Good
<1> USE <1>0 DEF TypeOK, TasksFollowEvents, OutcomeIsRecorded, ForeignKeysHold,
         Rows, Queued, Held, Registered, Phases, eventVars, endpointVars, taskVars
<1>1. ASSUME NEW p \in Endpoints, NEW m \in MaxAttemptsValues, RegisterEndpoint(p, m)
      PROVE  Good'
    BY <1>1 DEF Good, RegisterEndpoint
<1>2. ASSUME NEW p \in Endpoints, NEW m \in MaxAttemptsValues, UpdateMaxAttempts(p, m)
      PROVE  Good'
    BY <1>2 DEF Good, UpdateMaxAttempts
<1>3. ASSUME NEW p \in Endpoints, Disable(p) \/ Enable(p)
      PROVE  Good'
    BY <1>3 DEF Good, Disable, Enable, SetEnabled
<1>4. ASSUME NEW p \in Endpoints, DeleteEndpoint(p)
      PROVE  Good'
    BY <1>4 DEF Good, DeleteEndpoint, RowsOf, DeleteRows, SetStatus, ResetCircuit
<1>5. ASSUME NEW e \in Events, RetryDead(e)
      PROVE  Good'
    BY <1>5 DEF Good, RetryDead, Requeue, SetStatus, ResetCircuit
<1>6. ASSUME NEW p \in Endpoints, RetryAllDead(p)
      PROVE  Good'
    BY <1>6 DEF Good, RetryAllDead, Requeue, SetStatus, ResetCircuit
<1>7. ASSUME NEW s \in {"delivered", "dead"}, NEW S \in SUBSET Events, Cleanup(s, S)
      PROVE  Good'
    BY <1>7 DEF Good, Cleanup, DeleteRows, SetStatus
<1>8. ASSUME NEW e \in Events, Send(e)
      PROVE  Good'
    BY <1>8 DEF Good, Send, InsertEvents
<1>9. ASSUME NEW S \in SUBSET Events, Broadcast(S)
      PROVE  Good'
    BY <1>9 DEF Good, Broadcast, InsertEvents
<1>10. ASSUME NEW w \in Workers, Recover(w)
      PROVE  Good'
    BY <1>10 DEF Good, Recover, ReturnStuck, SetStatus
<1>32. ASSUME RecoverByHand
      PROVE  Good'
    BY <1>32 DEF Good, RecoverByHand, ReturnStuck, SetStatus
<1>11. ASSUME NEW w \in Workers, NEW B \in SUBSET Events, Claim(w, B)
      PROVE  Good'
    BY <1>11 DEF Good, Claim, IsBatch, Claimable, SetStatus
<1>12. ASSUME NEW w \in Workers, Join(w)
      PROVE  Good'
    BY <1>12 DEF Good, Join
<1>13. ASSUME NEW w \in Workers, Crash(w)
      PROVE  Good'
    BY <1>13 DEF Good, Crash
<1>14. ASSUME NEW w \in Workers, NEW e \in Events, FetchEndpoint(w, e)
      PROVE  Good'
    BY <1>14 DEF Good, FetchEndpoint
<1>15. ASSUME NEW w \in Workers, NEW e \in Events, FindDisabled(w, e)
      PROVE  Good'
    BY <1>15 DEF Good, FindDisabled, AdvanceTask
<1>16. ASSUME NEW w \in Workers, NEW e \in Events, FindDeleted(w, e)
      PROVE  Good'
    BY <1>16 DEF Good, FindDeleted, LogAttempt, EndTask, SetStatus
<1>17. ASSUME NEW w \in Workers, NEW e \in Events, ResetToPending(w, e)
      PROVE  Good'
    BY <1>17 DEF Good, ResetToPending, EndTask, SetStatus
<1>18. ASSUME NEW w \in Workers, NEW e \in Events, NEW c \in BOOLEAN,
              NEW a \in {"succeeded", "failed"}, Post(w, e, c, a)
      PROVE  Good'
    BY <1>18 DEF Good, Post, AdvanceTask
<1>19. ASSUME NEW w \in Workers, NEW e \in Events, RecordSuccess(w, e)
      PROVE  Good'
    <2>1. \A v \in Workers, x \in Events :
              task'[v][x] = IF v = w /\ x = e THEN "none" ELSE task[v][x]
        BY <1>19 DEF RecordSuccess, LogAttempt, EndTask
    <2>2. /\ task[w][e] = "succeeded" /\ e \in received
          /\ received' = received /\ endpoint' = endpoint
        BY <1>19 DEF Good, RecordSuccess, LogAttempt
    <2>3. \A x \in Events : log'[x] =
              IF x = e /\ status[e] \in Rows THEN log[x] \cup {"success"} ELSE log[x]
        <3>1. LogAttempt(e, "success")
            BY <1>19 DEF RecordSuccess
        <3>2. log \in [Events -> SUBSET {"success", "failure"}]
            OBVIOUS
        <3> HIDE <1>0 DEF Rows
        <3> QED BY <3>1, <3>2 DEF LogAttempt
    <2>4. /\ \A x \in Events \ {e} : status'[x] = status[x] /\ attempts'[x] = attempts[x]
          /\ \/ status[e] = "delivering" /\ status'[e] \in {"delivered"}
             \/ status'[e] = status[e] /\ attempts'[e] = attempts[e]
        <3>1. CASE status[e] = "delivering"
            <4>1. /\ \E s \in {"delivered"} : SetStatus({e}, s, NoWorker)
                  /\ CountAttempt(e)
                BY <1>19, <3>1 DEF RecordSuccess, LogAttempt
            <4> QED BY <3>1, <4>1 DEF SetStatus, CountAttempt
        <3>2. CASE status[e] # "delivering"
            BY <1>19, <3>2 DEF RecordSuccess, LogAttempt
        <3> QED BY <3>1, <3>2
    <2>5. TasksFollowEvents'
        BY <2>1, <2>2, <2>4 DEF Good
    <2>6. OutcomeIsRecorded'
        <3> SUFFICES ASSUME NEW x \in Events
                     PROVE  /\ status'[x] = "delivered" => "success" \in log'[x]
                            /\ "success" \in log'[x] => x \in received'
                            /\ status'[x] \in {"failed", "dead"} => "failure" \in log'[x]
                            /\ attempts'[x] > 0 => log'[x] # {}
            OBVIOUS
        <3>1. /\ status[x] = "delivered" => "success" \in log[x]
              /\ "success" \in log[x] => x \in received
              /\ status[x] \in {"failed", "dead"} => "failure" \in log[x]
              /\ attempts[x] > 0 => log[x] # {}
            BY DEF Good
        <3>2. CASE x = e
            BY <2>2, <2>3, <2>4, <3>1, <3>2
        <3>3. CASE x # e
            BY <2>2, <2>3, <2>4, <3>1, <3>3
        <3> QED BY <3>2, <3>3
    <2>7. ForeignKeysHold'
        <3> SUFFICES ASSUME NEW x \in Events,
                            \/ status'[x] \in Rows
                            \/ \E v \in Workers : task'[v][x] \in {"burying", "retrying"}
                     PROVE  status'[x] \in Rows /\ endpoint'[EndpointOf[x]] \in {"enabled", "disabled"}
            OBVIOUS
        <3>1. CASE status'[x] \in Rows
            BY <2>2, <2>4, <3>1 DEF Good
        <3>2. CASE \E v \in Workers : task'[v][x] \in {"burying", "retrying"}
            <4>1. Held(x)
                BY <2>1, <3>2
            <4>2. status[x] \in Rows /\ Registered(EndpointOf[x])
                BY <4>1 DEF Good
            <4> QED BY <2>2, <2>4, <4>2
        <3> QED BY <3>1, <3>2
    <2> QED BY <2>5, <2>6, <2>7 DEF Good
<1>20. ASSUME NEW w \in Workers, NEW e \in Events, ReadAttempts(w, e)
      PROVE  Good'
    <2>1. UNCHANGED <<status, attempts, log, received, endpoint>>
        BY <1>20 DEF ReadAttempts
    <2>2. CASE status[e] \in Rows
        <3>1. \E ph \in {"burying", "retrying"} : task' = [task EXCEPT ![w][e] = ph]
            BY <1>20, <2>2 DEF ReadAttempts, AdvanceTask
        <3> QED BY <1>20, <2>1, <2>2, <3>1 DEF Good, ReadAttempts
    <2>3. CASE status[e] \notin Rows
        <3>1. task' = [task EXCEPT ![w][e] = "none"]
            BY <1>20, <2>3 DEF ReadAttempts, EndTask
        <3> QED BY <2>1, <2>3, <3>1 DEF Good
    <2> QED BY <2>2, <2>3
<1>21. ASSUME NEW w \in Workers, NEW e \in Events, RecordFailure(w, e)
      PROVE  Good'
    <2>1. \A v \in Workers, x \in Events :
              task'[v][x] = IF v = w /\ x = e THEN "none" ELSE task[v][x]
        BY <1>21 DEF RecordFailure, LogAttempt, EndTask
    <2>2. /\ task[w][e] \in {"burying", "retrying"} /\ status[e] \in Rows
          /\ received' = received /\ endpoint' = endpoint
        BY <1>21 DEF Good, RecordFailure, LogAttempt
    <2>3. \A x \in Events : log'[x] =
              IF x = e /\ status[e] \in Rows THEN log[x] \cup {"failure"} ELSE log[x]
        <3>1. LogAttempt(e, "failure")
            BY <1>21 DEF RecordFailure
        <3>2. log \in [Events -> SUBSET {"success", "failure"}]
            OBVIOUS
        <3> HIDE <1>0 DEF Rows
        <3> QED BY <3>1, <3>2 DEF LogAttempt
    <2>4. /\ \A x \in Events \ {e} : status'[x] = status[x] /\ attempts'[x] = attempts[x]
          /\ \/ status[e] = "delivering" /\ status'[e] \in {"dead", "failed"}
             \/ status'[e] = status[e] /\ attempts'[e] = attempts[e]
        <3>1. CASE status[e] = "delivering"
            <4>1. /\ \E s \in {"dead", "failed"} : SetStatus({e}, s, NoWorker)
                  /\ CountAttempt(e)
                BY <1>21, <3>1 DEF RecordFailure, LogAttempt
            <4> QED BY <3>1, <4>1 DEF SetStatus, CountAttempt
        <3>2. CASE status[e] # "delivering"
            BY <1>21, <3>2 DEF RecordFailure, LogAttempt
        <3> QED BY <3>1, <3>2
    <2>5. TasksFollowEvents'
        BY <2>1, <2>2, <2>4 DEF Good
    <2>6. OutcomeIsRecorded'
        <3> SUFFICES ASSUME NEW x \in Events
                     PROVE  /\ status'[x] = "delivered" => "success" \in log'[x]
                            /\ "success" \in log'[x] => x \in received'
                            /\ status'[x] \in {"failed", "dead"} => "failure" \in log'[x]
                            /\ attempts'[x] > 0 => log'[x] # {}
            OBVIOUS
        <3>1. /\ status[x] = "delivered" => "success" \in log[x]
              /\ "success" \in log[x] => x \in received
              /\ status[x] \in {"failed", "dead"} => "failure" \in log[x]
              /\ attempts[x] > 0 => log[x] # {}
            BY DEF Good
        <3>2. CASE x = e
            <4>1. log'[e] = log[e] \cup {"failure"}
                BY <2>2, <2>3
            <4>2. status'[e] = "delivered" => status[e] = "delivered"
                BY <2>4
            <4> QED BY <2>2, <3>1, <3>2, <4>1, <4>2
        <3>3. CASE x # e
            BY <2>2, <2>3, <2>4, <3>1, <3>3
        <3> QED BY <3>2, <3>3
    <2>7. ForeignKeysHold'
        <3> SUFFICES ASSUME NEW x \in Events,
                            \/ status'[x] \in Rows
                            \/ \E v \in Workers : task'[v][x] \in {"burying", "retrying"}
                     PROVE  status'[x] \in Rows /\ endpoint'[EndpointOf[x]] \in {"enabled", "disabled"}
            OBVIOUS
        <3>1. CASE status'[x] \in Rows
            BY <2>2, <2>4, <3>1 DEF Good
        <3>2. CASE \E v \in Workers : task'[v][x] \in {"burying", "retrying"}
            <4>1. Held(x)
                BY <2>1, <3>2
            <4>2. status[x] \in Rows /\ Registered(EndpointOf[x])
                BY <4>1 DEF Good
            <4> QED BY <2>2, <2>4, <4>2
        <3> QED BY <3>1, <3>2
    <2> QED BY <2>5, <2>6, <2>7 DEF Good
<1>22. ASSUME NEW w \in Workers, NEW e \in Events, LoseTask(w, e)
      PROVE  Good'
    BY <1>22 DEF Good, LoseTask, EndTask
<1>23. ASSUME NEW e \in Events, BackoffElapses(e) \/ StuckTimeoutElapses(e)
      PROVE  Good'
    BY <1>23 DEF Good, BackoffElapses, StuckTimeoutElapses
<1>24. ASSUME NEW p \in Endpoints, CircuitElapses(p)
      PROVE  Good'
    BY <1>24 DEF Good, CircuitElapses
<1>25. CASE UNCHANGED vars
    BY <1>25 DEF Good, vars
<1>26. CASE Administer
    BY <1>26, <1>1, <1>2, <1>3, <1>4, <1>5, <1>6, <1>7, <1>32 DEF Administer
<1>27. CASE Enqueue
    BY <1>27, <1>8, <1>9 DEF Enqueue
<1>28. CASE \E w \in Workers : Cycle(w)
    BY <1>28, <1>10, <1>11, <1>12 DEF Cycle
<1>29. CASE \E w \in Workers, e \in Events : Deliver(w, e)
    BY <1>29, <1>14, <1>15, <1>16, <1>17, <1>18, <1>19, <1>20, <1>21 DEF Deliver
<1>30. CASE Elapse
    BY <1>30, <1>23, <1>24 DEF Elapse
<1>31. CASE Fail
    BY <1>31, <1>13, <1>22 DEF Fail
<1> QED
    BY <1>25, <1>26, <1>27, <1>28, <1>29, <1>30, <1>31 DEF Next

\* Every status has its evidence, in every reachable state.
THEOREM OutcomesRecorded == Spec => []OutcomeIsRecorded
<1>1. Spec => []RecordInv
    BY RecordInit, RecordNext, PTL DEF Spec
<1>2. RecordInv => OutcomeIsRecorded
    BY DEF RecordInv
<1> QED BY <1>1, <1>2, PTL

\* Rows keep their endpoint, and open transactions the rows they will update.
THEOREM ForeignKeys == Spec => []ForeignKeysHold
<1>1. Spec => []RecordInv
    BY RecordInit, RecordNext, PTL DEF Spec
<1>2. RecordInv => ForeignKeysHold
    BY DEF RecordInv
<1> QED BY <1>1, <1>2, PTL

-----------------------------------------------------------------------------
(* The circuit columns.                                                    *)

\* All a step can do to the two circuit columns.
LEMMA CircuitSteps ==
    ASSUME [Next]_vars
    PROVE  \/ UNCHANGED <<failures, circuit>>
           \/ \E p \in Endpoints : ResetCircuit(p) \/ CountFailure(p) \/ CircuitElapses(p)
<1> DEFINE Goal == \/ UNCHANGED <<failures, circuit>>
                   \/ \E p \in Endpoints :
                         ResetCircuit(p) \/ CountFailure(p) \/ CircuitElapses(p)
<1> SUFFICES Goal
    OBVIOUS
<1>0. \A e \in Events : EndpointOf[e] \in Endpoints
    OBVIOUS
<1>1. CASE UNCHANGED vars
    BY <1>1 DEF vars
<1>2. CASE Administer
    BY <1>0, <1>2 DEF Administer, RegisterEndpoint, UpdateMaxAttempts, Disable, Enable,
       SetEnabled, DeleteEndpoint, RetryDead, RetryAllDead, Cleanup, RecoverByHand,
       ReturnStuck, endpointVars
<1>3. CASE Enqueue
    BY <1>3 DEF Enqueue, Send, Broadcast, InsertEvents, endpointVars
<1>4. CASE \E w \in Workers : Cycle(w)
    BY <1>4 DEF Cycle, Recover, ReturnStuck, Claim, Join, endpointVars
<1>5. CASE \E w \in Workers, e \in Events : Deliver(w, e)
    <2>1. PICK w \in Workers, e \in Events : Deliver(w, e)
        BY <1>5
    <2> QED BY <1>0, <2>1 DEF Deliver, FetchEndpoint, FindDisabled, FindDeleted,
               ResetToPending, Post, RecordSuccess, ReadAttempts, RecordFailure,
               endpointVars
<1>6. CASE Elapse
    BY <1>6 DEF Elapse, BackoffElapses, StuckTimeoutElapses, endpointVars
<1>7. CASE Fail
    BY <1>7 DEF Fail, Crash, LoseTask, endpointVars
<1> QED BY <1>1, <1>2, <1>3, <1>4, <1>5, <1>6, <1>7 DEF Next

\* circuit_open_until is set exactly from the threshold on.
THEOREM CircuitConsistent == Spec => []CircuitFollowsFailures
<1>1. Init => CircuitFollowsFailures
    BY DEF Init, CircuitFollowsFailures
<1>2. TypeOK /\ CircuitFollowsFailures /\ [Next]_vars => CircuitFollowsFailures'
    <2> SUFFICES ASSUME TypeOK, CircuitFollowsFailures, [Next]_vars
                 PROVE  CircuitFollowsFailures'
        OBVIOUS
    <2> USE DEF TypeOK, CircuitFollowsFailures
    <2>1. CASE UNCHANGED <<failures, circuit>>
        BY <2>1
    <2>2. ASSUME NEW p \in Endpoints, ResetCircuit(p) PROVE CircuitFollowsFailures'
        BY <2>2 DEF ResetCircuit
    <2>3. ASSUME NEW p \in Endpoints, CountFailure(p) PROVE CircuitFollowsFailures'
        BY <2>3 DEF CountFailure
    <2>4. ASSUME NEW p \in Endpoints, CircuitElapses(p) PROVE CircuitFollowsFailures'
        BY <2>4 DEF CircuitElapses
    <2> QED BY <2>1, <2>2, <2>3, <2>4, CircuitSteps
<1> QED BY <1>1, <1>2, TypeCorrect, PTL DEF Spec

-----------------------------------------------------------------------------
(* Exclusive claims, while no task outlives the stuck timeout.             *)

\* No one has claimed anything at first.
LEMMA ClaimInit == Init => ClaimInv
  BY RecordInit DEF Init, ClaimInv, ClaimsAreExclusive, ReaperSparesTasks

\* While no task outlives the stuck timeout, a row that can be claimed has no
\* task, and one that is claimed has a single one.
LEMMA ClaimNext == ClaimInv /\ [Next]_vars => ClaimInv'
<1> DEFINE Excl ==
        \A w \in Workers, e \in Events :
            /\ task[w][e] # "none" => status[e] \in {"delivering", "gone"}
            /\ task[w][e] # "none" /\ status[e] \in Rows => claimant[e] = w
            /\ task[w][e] # "none" => e \notin stuck
<1> SUFFICES ASSUME ClaimInv, [Next]_vars, ~SlowTasks
             PROVE  Excl'
    BY RecordNext DEF ClaimInv, ClaimsAreExclusive, ReaperSparesTasks, Rows, Queued
<1>0. /\ TypeOK /\ ForeignKeysHold /\ ~SlowTasks
      /\ Excl
      /\ \A w \in Workers, e \in Events : task[w][e] # "none" => status[e] # "unborn"
    BY DEF ClaimInv, RecordInv, ClaimsAreExclusive, ReaperSparesTasks, TasksFollowEvents, TypeOK, Rows, Queued
<1> HIDE DEF Excl
<1> USE <1>0 DEF TypeOK, Rows, Queued, Held, Phases, eventVars, endpointVars, taskVars
<1>1. ASSUME NEW p \in Endpoints, NEW m \in MaxAttemptsValues, RegisterEndpoint(p, m)
      PROVE  Excl'
    BY <1>1 DEF Excl, RegisterEndpoint
<1>2. ASSUME NEW p \in Endpoints, NEW m \in MaxAttemptsValues, UpdateMaxAttempts(p, m)
      PROVE  Excl'
    BY <1>2 DEF Excl, UpdateMaxAttempts
<1>3. ASSUME NEW p \in Endpoints, Disable(p) \/ Enable(p)
      PROVE  Excl'
    BY <1>3 DEF Excl, Disable, Enable, SetEnabled
<1>4. ASSUME NEW p \in Endpoints, DeleteEndpoint(p)
      PROVE  Excl'
    BY <1>4 DEF Excl, DeleteEndpoint, RowsOf, DeleteRows, SetStatus, ResetCircuit
<1>5. ASSUME NEW e \in Events, RetryDead(e)
      PROVE  Excl'
    BY <1>5 DEF Excl, RetryDead, Requeue, SetStatus, ResetCircuit
<1>6. ASSUME NEW p \in Endpoints, RetryAllDead(p)
      PROVE  Excl'
    BY <1>6 DEF Excl, RetryAllDead, Requeue, SetStatus, ResetCircuit
<1>7. ASSUME NEW s \in {"delivered", "dead"}, NEW S \in SUBSET Events, Cleanup(s, S)
      PROVE  Excl'
    BY <1>7 DEF Excl, Cleanup, DeleteRows, SetStatus
<1>8. ASSUME NEW e \in Events, Send(e)
      PROVE  Excl'
    BY <1>8 DEF Excl, Send, InsertEvents
<1>9. ASSUME NEW S \in SUBSET Events, Broadcast(S)
      PROVE  Excl'
    BY <1>9 DEF Excl, Broadcast, InsertEvents
<1>10. ASSUME NEW w \in Workers, Recover(w)
      PROVE  Excl'
    BY <1>10 DEF Excl, Recover, ReturnStuck, SetStatus
<1>32. ASSUME RecoverByHand
      PROVE  Excl'
    BY <1>32 DEF Excl, RecoverByHand, ReturnStuck, SetStatus
<1>11. ASSUME NEW w \in Workers, NEW B \in SUBSET Events, Claim(w, B)
      PROVE  Excl'
    BY <1>11 DEF Excl, Claim, IsBatch, Claimable, SetStatus
<1>12. ASSUME NEW w \in Workers, Join(w)
      PROVE  Excl'
    BY <1>12 DEF Excl, Join
<1>13. ASSUME NEW w \in Workers, Crash(w)
      PROVE  Excl'
    BY <1>13 DEF Excl, Crash
<1>14. ASSUME NEW w \in Workers, NEW e \in Events, FetchEndpoint(w, e)
      PROVE  Excl'
    BY <1>14 DEF Excl, FetchEndpoint
<1>15. ASSUME NEW w \in Workers, NEW e \in Events, FindDisabled(w, e)
      PROVE  Excl'
    BY <1>15 DEF Excl, FindDisabled, AdvanceTask
<1>16. ASSUME NEW w \in Workers, NEW e \in Events, FindDeleted(w, e)
      PROVE  Excl'
    BY <1>16 DEF Excl, FindDeleted, LogAttempt, EndTask, SetStatus
<1>17. ASSUME NEW w \in Workers, NEW e \in Events, ResetToPending(w, e)
      PROVE  Excl'
    BY <1>17 DEF Excl, ResetToPending, EndTask, SetStatus
<1>18. ASSUME NEW w \in Workers, NEW e \in Events, NEW c \in BOOLEAN,
              NEW a \in {"succeeded", "failed"}, Post(w, e, c, a)
      PROVE  Excl'
    BY <1>18 DEF Excl, Post, AdvanceTask
<1>19. ASSUME NEW w \in Workers, NEW e \in Events, RecordSuccess(w, e)
      PROVE  Excl'
    BY <1>19 DEF Excl, RecordSuccess, LogAttempt, EndTask, SetStatus, CountAttempt
<1>20. ASSUME NEW w \in Workers, NEW e \in Events, ReadAttempts(w, e)
      PROVE  Excl'
    <2>1. /\ UNCHANGED <<status, attempts, stuck, claimant>>
          /\ task[w][e] = "failed"
        BY <1>20 DEF ReadAttempts
    <2>2. \E ph \in Phases : task' = [task EXCEPT ![w][e] = ph]
        BY <1>20 DEF ReadAttempts, AdvanceTask, EndTask
    <2> QED BY <2>1, <2>2 DEF Excl
<1>21. ASSUME NEW w \in Workers, NEW e \in Events, RecordFailure(w, e)
      PROVE  Excl'
    BY <1>21 DEF Excl, RecordFailure, LogAttempt, EndTask, SetStatus, CountAttempt
<1>22. ASSUME NEW w \in Workers, NEW e \in Events, LoseTask(w, e)
      PROVE  Excl'
    BY <1>22 DEF Excl, LoseTask, EndTask
<1>23. ASSUME NEW e \in Events, BackoffElapses(e) \/ StuckTimeoutElapses(e)
      PROVE  Excl'
    BY <1>23 DEF Excl, BackoffElapses, StuckTimeoutElapses, Live
<1>24. ASSUME NEW p \in Endpoints, CircuitElapses(p)
      PROVE  Excl'
    BY <1>24 DEF Excl, CircuitElapses
<1>25. CASE UNCHANGED vars
    BY <1>25 DEF Excl, vars
<1>26. CASE Administer
    BY <1>26, <1>1, <1>2, <1>3, <1>4, <1>5, <1>6, <1>7, <1>32 DEF Administer
<1>27. CASE Enqueue
    BY <1>27, <1>8, <1>9 DEF Enqueue
<1>28. CASE \E w \in Workers : Cycle(w)
    BY <1>28, <1>10, <1>11, <1>12 DEF Cycle
<1>29. CASE \E w \in Workers, e \in Events : Deliver(w, e)
    BY <1>29, <1>14, <1>15, <1>16, <1>17, <1>18, <1>19, <1>20, <1>21 DEF Deliver
<1>30. CASE Elapse
    BY <1>30, <1>23, <1>24 DEF Elapse
<1>31. CASE Fail
    BY <1>31, <1>13, <1>22 DEF Fail
<1> QED
    BY <1>25, <1>26, <1>27, <1>28, <1>29, <1>30, <1>31 DEF Next

\* No two workers hold one event, and no task records under a lost claim.
THEOREM ExclusiveClaims == Spec => []ClaimsAreExclusive
<1>1. Spec => []ClaimInv
    BY ClaimInit, ClaimNext, PTL DEF Spec
<1>2. ClaimInv => ClaimsAreExclusive
    BY DEF ClaimInv
<1> QED BY <1>1, <1>2, PTL

-----------------------------------------------------------------------------
(* Attempts, whatever outlives the stuck timeout.                          *)

\* No record_failure is open at first.
LEMMA DecisionsInit == Init => DecisionsHold
  BY DEF Init, DecisionsHold

\* The row lock of the attempt row keeps every new claim away from an event
\* whose count a record_failure has read, and any other write ends the claim.
LEMMA DecisionsNext == TypeOK /\ DecisionsHold /\ [Next]_vars => DecisionsHold'
<1> DEFINE Decided ==
        \A w \in Workers, e \in Events :
            status[e] = "delivering" =>
                /\ task[w][e] = "burying" => attempts[e] + 1 >= snapshot[w][e]
                /\ task[w][e] = "retrying" => ~(attempts[e] + 1 >= snapshot[w][e])
<1> SUFFICES ASSUME TypeOK, DecisionsHold, [Next]_vars PROVE Decided'
    BY DEF DecisionsHold, Exhausts
<1>0. TypeOK /\ Decided
    BY DEF DecisionsHold, Exhausts
<1> HIDE DEF Decided
<1> USE <1>0 DEF TypeOK, Rows, Queued, Held, Phases, eventVars, endpointVars, taskVars
<1>1. ASSUME NEW p \in Endpoints, NEW m \in MaxAttemptsValues, RegisterEndpoint(p, m)
      PROVE  Decided'
    BY <1>1 DEF Decided, RegisterEndpoint
<1>2. ASSUME NEW p \in Endpoints, NEW m \in MaxAttemptsValues, UpdateMaxAttempts(p, m)
      PROVE  Decided'
    BY <1>2 DEF Decided, UpdateMaxAttempts
<1>3. ASSUME NEW p \in Endpoints, Disable(p) \/ Enable(p) PROVE Decided'
    BY <1>3 DEF Decided, Disable, Enable, SetEnabled
<1>4. ASSUME NEW p \in Endpoints, DeleteEndpoint(p) PROVE Decided'
    BY <1>4 DEF Decided, DeleteEndpoint, RowsOf, DeleteRows, SetStatus
<1>5. ASSUME NEW e \in Events, RetryDead(e) PROVE Decided'
    BY <1>5 DEF Decided, RetryDead, Requeue, SetStatus
<1>6. ASSUME NEW p \in Endpoints, RetryAllDead(p) PROVE Decided'
    BY <1>6 DEF Decided, RetryAllDead, Requeue, SetStatus
<1>7. ASSUME NEW s \in {"delivered", "dead"}, NEW S \in SUBSET Events, Cleanup(s, S)
      PROVE  Decided'
    BY <1>7 DEF Decided, Cleanup, DeleteRows, SetStatus
<1>8. ASSUME NEW S \in SUBSET Events, InsertEvents(S) PROVE Decided'
    BY <1>8 DEF Decided, InsertEvents
<1>10. ASSUME NEW w \in Workers, Recover(w) PROVE Decided'
    BY <1>10 DEF Decided, Recover, ReturnStuck, SetStatus
<1>32. ASSUME RecoverByHand PROVE Decided'
    BY <1>32 DEF Decided, RecoverByHand, ReturnStuck, SetStatus
<1>11. ASSUME NEW w \in Workers, NEW B \in SUBSET Events, Claim(w, B) PROVE Decided'
    BY <1>11 DEF Decided, Claim, IsBatch, Claimable, SetStatus
<1>12. ASSUME NEW w \in Workers, Join(w) PROVE Decided'
    BY <1>12 DEF Decided, Join
<1>13. ASSUME NEW w \in Workers, Crash(w) PROVE Decided'
    BY <1>13 DEF Decided, Crash
<1>14. ASSUME NEW w \in Workers, NEW e \in Events, FetchEndpoint(w, e)
       PROVE  Decided'
    BY <1>14 DEF Decided, FetchEndpoint
<1>15. ASSUME NEW w \in Workers, NEW e \in Events, FindDisabled(w, e) PROVE Decided'
    BY <1>15 DEF Decided, FindDisabled, AdvanceTask
<1>16. ASSUME NEW w \in Workers, NEW e \in Events, FindDeleted(w, e) PROVE Decided'
    BY <1>16 DEF Decided, FindDeleted, EndTask, SetStatus
<1>17. ASSUME NEW w \in Workers, NEW e \in Events, ResetToPending(w, e)
       PROVE  Decided'
    BY <1>17 DEF Decided, ResetToPending, EndTask, SetStatus
<1>18. ASSUME NEW w \in Workers, NEW e \in Events, NEW c \in BOOLEAN,
              NEW a \in {"succeeded", "failed"}, Post(w, e, c, a)
       PROVE  Decided'
    BY <1>18 DEF Decided, Post, AdvanceTask
<1>19. ASSUME NEW w \in Workers, NEW e \in Events, RecordSuccess(w, e)
       PROVE  Decided'
    BY <1>19 DEF Decided, RecordSuccess, EndTask, SetStatus, CountAttempt
<1>20. ASSUME NEW w \in Workers, NEW e \in Events, ReadAttempts(w, e)
       PROVE  Decided'
    <2>1. UNCHANGED <<status, attempts>>
        BY <1>20 DEF ReadAttempts
    <2>2. CASE status[e] \in Rows
        <3>1. AdvanceTask(w, e, IF Exhausts(w, e) THEN "burying" ELSE "retrying")
            BY <1>20, <2>2 DEF ReadAttempts
        <3>2. CASE Exhausts(w, e)
            BY <2>1, <3>1, <3>2 DEF Decided, AdvanceTask, Exhausts
        <3>3. CASE ~Exhausts(w, e)
            BY <2>1, <3>1, <3>3 DEF Decided, AdvanceTask, Exhausts
        <3> QED BY <3>2, <3>3
    <2>3. CASE status[e] \notin Rows
        <3>1. EndTask(w, e)
            BY <1>20, <2>3 DEF ReadAttempts
        <3> QED BY <2>1, <3>1 DEF Decided, EndTask
    <2> QED BY <2>2, <2>3
<1>21. ASSUME NEW w \in Workers, NEW e \in Events, RecordFailure(w, e)
       PROVE  Decided'
    BY <1>21 DEF Decided, RecordFailure, EndTask, SetStatus, CountAttempt
<1>22. ASSUME NEW w \in Workers, NEW e \in Events, LoseTask(w, e) PROVE Decided'
    BY <1>22 DEF Decided, LoseTask, EndTask
<1>23. ASSUME NEW e \in Events, BackoffElapses(e) \/ StuckTimeoutElapses(e)
       PROVE  Decided'
    BY <1>23 DEF Decided, BackoffElapses, StuckTimeoutElapses
<1>24. ASSUME NEW p \in Endpoints, CircuitElapses(p) PROVE Decided'
    BY <1>24 DEF Decided, CircuitElapses
<1>25. CASE UNCHANGED vars
    BY <1>25 DEF Decided, vars
<1>26. CASE Administer
    BY <1>26, <1>1, <1>2, <1>3, <1>4, <1>5, <1>6, <1>7, <1>32 DEF Administer
<1>27. CASE Enqueue
    BY <1>27, <1>8 DEF Enqueue, Send, Broadcast
<1>28. CASE \E w \in Workers : Cycle(w)
    BY <1>28, <1>10, <1>11, <1>12 DEF Cycle
<1>29. CASE \E w \in Workers, e \in Events : Deliver(w, e)
    <2>1. PICK w \in Workers, e \in Events : Deliver(w, e)
        BY <1>29
    <2> HIDE <1>0 DEF TypeOK
    <2> QED BY <2>1, <1>14, <1>15, <1>16, <1>17, <1>18, <1>19, <1>20, <1>21 DEF Deliver
<1>30. CASE Elapse
    BY <1>30, <1>23, <1>24 DEF Elapse
<1>31. CASE Fail
    BY <1>31, <1>13, <1>22 DEF Fail
<1> QED
    BY <1>25, <1>26, <1>27, <1>28, <1>29, <1>30, <1>31 DEF Next

\* max_attempts is honoured to the attempt, zombies or not.
THEOREM AttemptsHonoured == Spec => AttemptsAreHonoured
<1> DEFINE Honoured ==
        \A w \in Workers, e \in Events :
            RecordFailure(w, e) /\ status[e] = "delivering" =>
                /\ attempts'[e] >= snapshot[w][e] => status'[e] = "dead"
                /\ attempts'[e] < snapshot[w][e] => status'[e] = "failed"
<1>1. TypeOK /\ DecisionsHold => Honoured
    <2> SUFFICES ASSUME TypeOK, DecisionsHold, NEW w \in Workers, NEW e \in Events,
                        RecordFailure(w, e), status[e] = "delivering"
                 PROVE  /\ attempts'[e] >= snapshot[w][e] => status'[e] = "dead"
                        /\ attempts'[e] < snapshot[w][e] => status'[e] = "failed"
        OBVIOUS
    <2>1. /\ task[w][e] \in {"burying", "retrying"}
          /\ task[w][e] = "burying" => attempts[e] + 1 >= snapshot[w][e]
          /\ task[w][e] = "retrying" => ~(attempts[e] + 1 >= snapshot[w][e])
        BY DEF RecordFailure, DecisionsHold, Exhausts
    <2>2. /\ SetStatus({e}, IF task[w][e] = "burying" THEN "dead" ELSE "failed", NoWorker)
          /\ CountAttempt(e)
        BY DEF RecordFailure
    <2>3. attempts'[e] = attempts[e] + 1
        BY <2>2 DEF CountAttempt, TypeOK
    <2>4. status'[e] = IF task[w][e] = "burying" THEN "dead" ELSE "failed"
        BY <2>2 DEF SetStatus
    <2>5. attempts[e] \in Nat /\ snapshot[w][e] \in Nat
        <3>1. attempts[e] \in Nat /\ snapshot[w][e] \in MaxAttemptsValues \cup {0}
            BY DEF TypeOK
        <3>2. \A n \in MaxAttemptsValues \cup {0} : n \in Nat
            OBVIOUS
        <3> QED BY <3>1, <3>2
    <2> QED BY <2>1, <2>3, <2>4, <2>5
<1>2. TypeOK /\ DecisionsHold /\ [Next]_vars => [Honoured]_vars
    BY <1>1
<1>3. Spec => [](TypeOK /\ DecisionsHold)
    BY DecisionsInit, DecisionsNext, TypeCorrect, PTL DEF Spec
<1>4. Spec => [][Honoured]_vars
    BY <1>2, <1>3, PTL DEF Spec
<1> QED BY <1>4 DEF AttemptsAreHonoured

\* The attempts of an event are left, reset, or counted by the task that ends
\* its claim: one that puts it back found an attempt left before this one.
AttemptStep(e) ==
    \/ /\ attempts'[e] = attempts[e] \/ attempts'[e] = 0
       /\ status'[e] = "unborn" => status[e] = "unborn" /\ attempts'[e] = attempts[e]
       /\ status'[e] \in Unsettled =>
             status[e] \in Unsettled \cup {"unborn"} \/ attempts'[e] = 0
    \/ /\ status[e] = "delivering" /\ attempts'[e] = attempts[e] + 1
       /\ \/ status'[e] \in {"delivered", "dead"}
          \/ /\ status'[e] = "failed"
             /\ \E w \in Workers : task[w][e] = "retrying"

\* All a step can do to the attempts of an event.
LEMMA AttemptSteps ==
    ASSUME TypeOK, [Next]_vars, NEW x \in Events
    PROVE  AttemptStep(x)
<1> USE DEF TypeOK, Rows, Queued, Unsettled, eventVars
<1>a. ASSUME UNCHANGED <<status, attempts>> PROVE AttemptStep(x)
    BY <1>a DEF AttemptStep
<1>1. CASE UNCHANGED vars
    BY <1>1, <1>a DEF vars
<1>2. CASE Administer
    <2>1. ASSUME NEW S \in SUBSET Events, DeleteRows(S) PROVE AttemptStep(x)
        BY <2>1 DEF DeleteRows, SetStatus, AttemptStep
    <2>2. ASSUME NEW S \in SUBSET Events, Requeue(S) PROVE AttemptStep(x)
        BY <2>2 DEF Requeue, SetStatus, AttemptStep
    <2>3. CASE RecoverByHand
        BY <2>3 DEF RecoverByHand, ReturnStuck, SetStatus, AttemptStep
    <2>4. ASSUME NEW p \in Endpoints, DeleteEndpoint(p) PROVE AttemptStep(x)
        BY <2>1, <2>4 DEF DeleteEndpoint, RowsOf
    <2>5. ASSUME NEW s \in {"delivered", "dead"}, NEW S \in SUBSET Events, Cleanup(s, S)
          PROVE  AttemptStep(x)
        BY <2>1, <2>5 DEF Cleanup
    <2>6. ASSUME NEW e \in Events, RetryDead(e) PROVE AttemptStep(x)
        BY <2>2, <2>6 DEF RetryDead
    <2>7. ASSUME NEW p \in Endpoints, RetryAllDead(p) PROVE AttemptStep(x)
        BY <2>2, <2>7 DEF RetryAllDead
    <2> QED
        BY <1>2, <1>a, <2>3, <2>4, <2>5, <2>6, <2>7
        DEF Administer, RegisterEndpoint, UpdateMaxAttempts, Disable, Enable, SetEnabled
<1>3. CASE Enqueue
    <2>1. ASSUME NEW S \in SUBSET Events, InsertEvents(S), \A e \in S : status[e] = "unborn"
          PROVE  AttemptStep(x)
        BY <2>1 DEF InsertEvents, AttemptStep
    <2>2. ASSUME NEW e \in Events, Send(e) PROVE AttemptStep(x)
        <3>1. {e} \in SUBSET Events /\ \A f \in {e} : status[f] = "unborn"
            BY <2>2 DEF Send
        <3> QED BY <2>1, <2>2, <3>1 DEF Send
    <2>3. ASSUME NEW S \in SUBSET Events, Broadcast(S) PROVE AttemptStep(x)
        BY <2>1, <2>3 DEF Broadcast
    <2> QED BY <1>3, <2>2, <2>3 DEF Enqueue
<1>4. ASSUME NEW w \in Workers, Cycle(w) PROVE AttemptStep(x)
    <2>1. CASE Recover(w)
        BY <2>1 DEF Recover, ReturnStuck, SetStatus, AttemptStep
    <2>2. ASSUME NEW B \in SUBSET Events, Claim(w, B) PROVE AttemptStep(x)
        BY <2>2 DEF Claim, IsBatch, Claimable, SetStatus, AttemptStep
    <2>3. CASE Join(w)
        BY <1>a, <2>3 DEF Join
    <2> QED BY <1>4, <2>1, <2>2, <2>3 DEF Cycle
<1>5. ASSUME NEW w \in Workers, NEW e \in Events, Deliver(w, e) PROVE AttemptStep(x)
    <2>1. CASE FetchEndpoint(w, e) \/ FindDisabled(w, e) \/ ReadAttempts(w, e)
        BY <1>a, <2>1 DEF FetchEndpoint, FindDisabled, ReadAttempts
    <2>2. CASE FindDeleted(w, e) \/ ResetToPending(w, e)
        BY <2>2 DEF FindDeleted, ResetToPending, SetStatus, AttemptStep
    <2>3. ASSUME NEW consumed \in BOOLEAN, NEW answer \in {"succeeded", "failed"},
                 Post(w, e, consumed, answer)
          PROVE  AttemptStep(x)
        BY <1>a, <2>3 DEF Post
    <2>4. CASE RecordSuccess(w, e)
        <3>1. CASE status[e] = "delivering"
            <4>1. SetStatus({e}, "delivered", NoWorker) /\ CountAttempt(e)
                BY <2>4, <3>1 DEF RecordSuccess
            <4> QED BY <3>1, <4>1 DEF SetStatus, CountAttempt, AttemptStep
        <3>2. CASE status[e] # "delivering"
            BY <1>a, <2>4, <3>2 DEF RecordSuccess
        <3> QED BY <3>1, <3>2
    <2>5. CASE RecordFailure(w, e)
        <3>1. CASE status[e] = "delivering"
            <4>1. /\ SetStatus({e}, IF task[w][e] = "burying" THEN "dead" ELSE "failed", NoWorker)
                  /\ CountAttempt(e)
                  /\ task[w][e] \in {"burying", "retrying"}
                BY <2>5, <3>1 DEF RecordFailure
            <4> QED BY <3>1, <4>1 DEF SetStatus, CountAttempt, AttemptStep
        <3>2. CASE status[e] # "delivering"
            BY <1>a, <2>5, <3>2 DEF RecordFailure
        <3> QED BY <3>1, <3>2
    <2> QED BY <1>5, <2>1, <2>2, <2>3, <2>4, <2>5 DEF Deliver
<1>6. CASE Elapse
    BY <1>6, <1>a DEF Elapse, BackoffElapses, StuckTimeoutElapses, CircuitElapses
<1>7. CASE Fail
    BY <1>7, <1>a DEF Fail, Crash, LoseTask
<1> QED BY <1>1, <1>2, <1>3, <1>4, <1>5, <1>6, <1>7 DEF Next

\* Every max_attempts allows one attempt.
LEMMA AttemptsInit == Init => AttemptsInv
<1> SUFFICES ASSUME Init, NEW e \in Events
             PROVE  \E m \in MaxAttemptsValues : 0 <= m
    BY DecisionsInit DEF Init, AttemptsInv, AttemptsAreBounded, Unsettled, Queued
<1>1. PICK m \in MaxAttemptsValues : TRUE
    OBVIOUS
<1>2. m \in Nat
    OBVIOUS
<1> QED BY <1>2

\* The attempt that is counted is one that some max_attempts had left.
LEMMA AttemptsNext == TypeOK /\ AttemptsInv /\ [Next]_vars => AttemptsInv'
<1> SUFFICES ASSUME TypeOK, AttemptsInv, [Next]_vars, NEW e \in Events
             PROVE  /\ status'[e] = "unborn" => attempts'[e] = 0
                    /\ status'[e] \in Unsettled =>
                          \/ attempts'[e] = 0
                          \/ \E m \in MaxAttemptsValues : attempts'[e] < m
                    /\ \E m \in MaxAttemptsValues : attempts'[e] <= m
    BY DecisionsNext DEF AttemptsInv, AttemptsAreBounded, Unsettled
<1>1. /\ \A m \in MaxAttemptsValues : m \in Nat /\ m >= 1
      /\ \E m \in MaxAttemptsValues : TRUE
      /\ attempts[e] \in Nat
    <2>1. \A m \in MaxAttemptsValues : m \in Nat /\ m # 0
        OBVIOUS
    <2>2. \A m \in Nat : m # 0 => m >= 1
        OBVIOUS
    <2>3. \E m \in MaxAttemptsValues : TRUE
        OBVIOUS
    <2> QED BY <2>1, <2>2, <2>3 DEF TypeOK
<1>2. /\ status[e] = "unborn" => attempts[e] = 0
      /\ status[e] \in Unsettled =>
            attempts[e] = 0 \/ \E m \in MaxAttemptsValues : attempts[e] < m
      /\ \E m \in MaxAttemptsValues : attempts[e] <= m
    BY DEF AttemptsInv, AttemptsAreBounded
<1>3. AttemptStep(e)
    BY AttemptSteps
<1>4. CASE attempts'[e] = 0
    BY <1>1, <1>4
<1>5. CASE /\ attempts'[e] = attempts[e]
           /\ status'[e] = "unborn" => status[e] = "unborn"
           /\ status'[e] \in Unsettled => status[e] \in Unsettled \cup {"unborn"}
    BY <1>2, <1>5
<1>6. CASE status[e] = "delivering" /\ attempts'[e] = attempts[e] + 1
    <2>1. PICK m \in MaxAttemptsValues : attempts[e] + 1 <= m
        <3>1. CASE attempts[e] = 0
            BY <1>1, <3>1
        <3>2. CASE attempts[e] # 0
            <4>1. PICK m \in MaxAttemptsValues : attempts[e] < m
                BY <1>2, <1>6, <3>2 DEF Unsettled
            <4> QED BY <1>1, <4>1
        <3> QED BY <3>1, <3>2
    <2>2. CASE status'[e] \in {"delivered", "dead"}
        BY <1>6, <2>1, <2>2 DEF Unsettled, Queued
    <2>3. ASSUME status'[e] = "failed", NEW w \in Workers, task[w][e] = "retrying"
          PROVE  \E n \in MaxAttemptsValues : attempts'[e] < n
        <3>1. ~(attempts[e] + 1 >= snapshot[w][e])
            BY <1>6, <2>3 DEF AttemptsInv, DecisionsHold, Exhausts
        <3>2. snapshot[w][e] \in MaxAttemptsValues \cup {0}
            BY DEF TypeOK
        <3>3. snapshot[w][e] \in MaxAttemptsValues
            BY <1>1, <3>1, <3>2
        <3>4. snapshot[w][e] \in Nat
            BY <1>1, <3>3
        <3>5. attempts'[e] < snapshot[w][e]
            BY <1>1, <1>6, <3>1, <3>4
        <3> QED BY <3>3, <3>5
    <2>4. \/ status'[e] \in {"delivered", "dead"}
          \/ status'[e] = "failed" /\ \E w \in Workers : task[w][e] = "retrying"
        BY <1>1, <1>3, <1>6 DEF AttemptStep
    <2> QED BY <1>6, <2>1, <2>2, <2>3, <2>4
<1> QED BY <1>3, <1>4, <1>5, <1>6 DEF AttemptStep

\* However many tasks outlive the stuck timeout, no event is tried more often
\* than the largest max_attempts.
THEOREM AttemptsBounded == Spec => []AttemptsAreBounded
<1>1. AttemptsInv => AttemptsAreBounded
    BY DEF AttemptsInv
<1> QED BY <1>1, AttemptsInit, AttemptsNext, TypeCorrect, PTL DEF Spec

-----------------------------------------------------------------------------
(* The at-least-once queue.                                                *)

\* How statuses map to the states of the abstract queue.
LEMMA QueueStates ==
    /\ QueueState("unborn") = "absent"
    /\ \A s \in Queued \cup {"delivering"} : QueueState(s) = "queued"
    /\ QueueState("delivered") = "delivered"
    /\ QueueState("dead") = "dead"
    /\ QueueState("gone") = "removed"
  BY DEF QueueState, Queued

\* All a step can do to the status column and to the consumers.
LEMMA StatusSteps ==
    ASSUME RecordInv, [Next]_vars
    PROVE  LET Moves(S, s) ==
                   /\ \A e \in Events : status'[e] = IF e \in S THEN s ELSE status[e]
                   /\ received' = received
           IN
           \/ UNCHANGED <<status, received>>
           \/ /\ status' = status
              /\ \E e \in Events : status[e] # "unborn" /\ received' = received \cup {e}
           \/ \E S \in SUBSET Events :
                 \/ (\A e \in S : status[e] = "unborn") /\ Moves(S, "pending")
                 \/ (\A e \in S : status[e] = "dead") /\ Moves(S, "pending")
                 \/ (\A e \in S : status[e] = "delivering") /\ Moves(S, "pending")
                 \/ (\A e \in S : status[e] \in Queued) /\ Moves(S, "delivering")
                 \/ (\A e \in S : status[e] \in Rows) /\ Moves(S, "gone")
           \/ \E e \in Events :
                 \/ status[e] = "delivering" /\ e \in received /\ Moves({e}, "delivered")
                 \/ status[e] = "delivering" /\ Moves({e}, "dead")
                 \/ status[e] = "delivering" /\ Moves({e}, "failed")
<1> DEFINE Moves(S, s) ==
               /\ \A e \in Events : status'[e] = IF e \in S THEN s ELSE status[e]
               /\ received' = received
           Goal ==
               \/ UNCHANGED <<status, received>>
               \/ /\ status' = status
                  /\ \E e \in Events : status[e] # "unborn" /\ received' = received \cup {e}
               \/ \E S \in SUBSET Events :
                     \/ (\A e \in S : status[e] = "unborn") /\ Moves(S, "pending")
                     \/ (\A e \in S : status[e] = "dead") /\ Moves(S, "pending")
                     \/ (\A e \in S : status[e] = "delivering") /\ Moves(S, "pending")
                     \/ (\A e \in S : status[e] \in Queued) /\ Moves(S, "delivering")
                     \/ (\A e \in S : status[e] \in Rows) /\ Moves(S, "gone")
               \/ \E e \in Events :
                     \/ status[e] = "delivering" /\ e \in received /\ Moves({e}, "delivered")
                     \/ status[e] = "delivering" /\ Moves({e}, "dead")
                     \/ status[e] = "delivering" /\ Moves({e}, "failed")
<1> SUFFICES Goal
    OBVIOUS
<1>0. /\ TypeOK /\ ForeignKeysHold
      /\ \A w \in Workers, e \in Events :
            /\ task[w][e] # "none" => status[e] # "unborn"
            /\ task[w][e] = "succeeded" => e \in received
    BY DEF RecordInv, TasksFollowEvents
<1> USE DEF eventVars
<1>1. CASE UNCHANGED <<status, received>>
    BY <1>1
<1>2. ASSUME NEW p \in Endpoints, DeleteEndpoint(p) PROVE Goal
    <2>1. Moves({e \in Events : EndpointOf[e] = p /\ status[e] \in Rows}, "gone")
        BY <1>2 DEF DeleteEndpoint, RowsOf, DeleteRows, SetStatus
    <2> QED BY <2>1
<1>3. ASSUME NEW e \in Events, RetryDead(e) PROVE Goal
    <2>1. Moves({e}, "pending") /\ status[e] = "dead"
        BY <1>3 DEF RetryDead, Requeue, SetStatus
    <2>2. {e} \in SUBSET Events /\ \A x \in {e} : status[x] = "dead"
        BY <2>1
    <2> QED BY <2>1, <2>2
<1>4. ASSUME NEW p \in Endpoints, RetryAllDead(p) PROVE Goal
    <2>1. Moves({e \in Events : EndpointOf[e] = p /\ status[e] = "dead"}, "pending")
        BY <1>4 DEF RetryAllDead, Requeue, SetStatus
    <2> QED BY <2>1
<1>5. ASSUME NEW s \in {"delivered", "dead"}, NEW S \in SUBSET Events, Cleanup(s, S)
      PROVE  Goal
    <2>1. Moves(S, "gone") /\ \A e \in S : status[e] \in Rows
        BY <1>5 DEF Cleanup, DeleteRows, SetStatus, Rows
    <2> QED BY <2>1
<1>6. ASSUME NEW e \in Events, Send(e) PROVE Goal
    <2>1. Moves({e}, "pending") /\ status[e] = "unborn"
        BY <1>6 DEF Send, InsertEvents
    <2>2. {e} \in SUBSET Events /\ \A x \in {e} : status[x] = "unborn"
        BY <2>1
    <2> QED BY <2>1, <2>2
<1>7. ASSUME NEW S \in SUBSET Events, Broadcast(S) PROVE Goal
    BY <1>7 DEF Broadcast, InsertEvents
<1>8. ASSUME NEW w \in Workers, Recover(w) PROVE Goal
    <2>1. Moves({e \in Events : status[e] = "delivering" /\ e \in stuck}, "pending")
        BY <1>8 DEF Recover, ReturnStuck, SetStatus
    <2> QED BY <2>1
<1>22. ASSUME RecoverByHand PROVE Goal
    <2>1. Moves({e \in Events : status[e] = "delivering" /\ e \in stuck}, "pending")
        BY <1>22 DEF RecoverByHand, ReturnStuck, SetStatus
    <2> QED BY <2>1
<1>9. ASSUME NEW w \in Workers, NEW B \in SUBSET Events, Claim(w, B) PROVE Goal
    <2>1. Moves(B, "delivering") /\ \A e \in B : status[e] \in Queued
        BY <1>9 DEF Claim, IsBatch, Claimable, SetStatus
    <2> QED BY <2>1
<1>10. ASSUME NEW w \in Workers, NEW e \in Events, FindDeleted(w, e) PROVE Goal
    <2>1. status[e] \notin Rows
        BY <1>0, <1>10 DEF FindDeleted, LogAttempt, ForeignKeysHold
    <2>2. {e} \cap {x \in Events : status[x] = "delivering"} = {}
        BY <2>1 DEF Rows
    <2>3. received' = received /\ \A x \in Events : status'[x] = status[x]
        BY <1>10, <2>2 DEF FindDeleted, LogAttempt, SetStatus
    <2>4. Moves({}, "pending")
        BY <2>3
    <2>5. {} \in SUBSET Events /\ \A x \in {} : status[x] = "dead"
        OBVIOUS
    <2>6. \E S \in SUBSET Events : (\A x \in S : status[x] = "dead") /\ Moves(S, "pending")
        BY <2>4, <2>5
    <2> QED BY <2>6
<1>11. ASSUME NEW w \in Workers, NEW e \in Events, ResetToPending(w, e) PROVE Goal
    <2>1. Moves({e} \cap {x \in Events : status[x] = "delivering"}, "pending")
        BY <1>11 DEF ResetToPending, SetStatus
    <2> QED BY <2>1
<1>12. ASSUME NEW w \in Workers, NEW e \in Events, NEW c \in BOOLEAN,
              NEW a \in {"succeeded", "failed"}, Post(w, e, c, a)
       PROVE  Goal
    <2>1. status' = status /\ status[e] # "unborn"
        BY <1>0, <1>12 DEF Post
    <2> QED BY <1>12, <2>1 DEF Post
<1>13. ASSUME NEW w \in Workers, NEW e \in Events, RecordSuccess(w, e) PROVE Goal
    <2>1. CASE status[e] = "delivering"
        <3>1. Moves({e}, "delivered") /\ e \in received
            BY <1>0, <1>13, <2>1 DEF RecordSuccess, LogAttempt, SetStatus
        <3> QED BY <2>1, <3>1
    <2>2. CASE status[e] # "delivering"
        BY <1>13, <2>2 DEF RecordSuccess, LogAttempt
    <2> QED BY <2>1, <2>2
<1>14. ASSUME NEW w \in Workers, NEW e \in Events, RecordFailure(w, e) PROVE Goal
    <2>1. CASE status[e] = "delivering"
        <3>1. Moves({e}, "dead") \/ Moves({e}, "failed")
            BY <1>14, <2>1 DEF RecordFailure, LogAttempt, SetStatus
        <3> QED BY <2>1, <3>1
    <2>2. CASE status[e] # "delivering"
        BY <1>14, <2>2 DEF RecordFailure, LogAttempt
    <2> QED BY <2>1, <2>2
<1>15. CASE UNCHANGED vars
    BY <1>15 DEF vars
<1>16. CASE Administer
    BY <1>1, <1>2, <1>3, <1>4, <1>5, <1>16, <1>22
       DEF Administer, RegisterEndpoint, UpdateMaxAttempts, Disable, Enable, SetEnabled
<1>17. CASE Enqueue
    BY <1>6, <1>7, <1>17 DEF Enqueue
<1>18. CASE \E w \in Workers : Cycle(w)
    BY <1>1, <1>8, <1>9, <1>18 DEF Cycle, Join
<1>19. CASE \E w \in Workers, e \in Events : Deliver(w, e)
    <2>1. PICK w \in Workers, e \in Events : Deliver(w, e)
        BY <1>19
    <2>2. CASE FetchEndpoint(w, e) \/ FindDisabled(w, e) \/ ReadAttempts(w, e)
        BY <1>1, <2>2 DEF FetchEndpoint, FindDisabled, ReadAttempts
    <2> QED BY <1>10, <1>11, <1>12, <1>13, <1>14, <2>1, <2>2 DEF Deliver
<1>20. CASE Elapse
    BY <1>1, <1>20 DEF Elapse, BackoffElapses, StuckTimeoutElapses, CircuitElapses
<1>21. CASE Fail
    BY <1>1, <1>21 DEF Fail, Crash, LoseTask
<1> QED BY <1>15, <1>16, <1>17, <1>18, <1>19, <1>20, <1>21 DEF Next

\* What was delivered stays delivered until the row goes.
THEOREM DeliveredStays == Spec => DeliveredIsFinal
<1>1. RecordInv /\ [Next]_vars
         => [\A e \in Events :
                status[e] = "delivered" => status'[e] \in {"delivered", "gone"}]_vars
    <2> SUFFICES ASSUME RecordInv, [Next]_vars, NEW e \in Events, status[e] = "delivered"
                 PROVE  status'[e] \in {"delivered", "gone"}
        OBVIOUS
    <2> QED BY StatusSteps DEF Queued
<1>2. Spec => []RecordInv
    BY RecordInit, RecordNext, PTL DEF Spec
<1>3. Spec => [][\A e \in Events :
                    status[e] = "delivered" => status'[e] \in {"delivered", "gone"}]_vars
    BY <1>1, <1>2, PTL DEF Spec
<1> QED BY <1>3 DEF DeliveredIsFinal

\* The pipeline is an at-least-once queue: a row's status maps to the state of
\* its event, and every step of a worker, the reaper, an operator or the
\* network to a step of the queue or to none.
THEOREM AtLeastOnceImplemented == Spec => ImplementsAtLeastOnce
<1> DEFINE state == [e \in Events |-> QueueState(status[e])]
<1>1. Init => Queue!Init
    BY QueueStates DEF Init, Queue!Init
<1>2. RecordInv /\ [Next]_vars => [Queue!Next]_(Queue!vars)
    <2> SUFFICES ASSUME RecordInv, [Next]_vars
                 PROVE  Queue!Next \/ UNCHANGED Queue!vars
        OBVIOUS
    <2> DEFINE Moves(S, s) ==
                   /\ \A e \in Events : status'[e] = IF e \in S THEN s ELSE status[e]
                   /\ received' = received
    <2>0. /\ QueueState("pending") = "queued"
          /\ QueueState("failed") = "queued"
          /\ QueueState("delivering") = "queued"
        BY QueueStates DEF Queued
    <2>1. ASSUME NEW S \in SUBSET Events, NEW s, Moves(S, s)
          PROVE  /\ state' = [e \in Events |-> IF e \in S THEN QueueState(s) ELSE state[e]]
                 /\ received' = received
        BY <2>1
    <2>2. CASE UNCHANGED <<status, received>>
        BY <2>2 DEF Queue!vars
    <2>3. CASE /\ status' = status
               /\ \E e \in Events : status[e] # "unborn" /\ received' = received \cup {e}
        <3>1. PICK e \in Events : status[e] # "unborn" /\ received' = received \cup {e}
            BY <2>3
        <3>2. state[e] # "absent"
            BY <3>1, QueueStates DEF RecordInv, TypeOK, Rows
        <3>3. Queue!Consume(e)
            BY <2>3, <3>1, <3>2 DEF Queue!Consume
        <3> QED BY <3>3 DEF Queue!Next
    <2>4. ASSUME NEW S \in SUBSET Events, \A e \in S : status[e] = "unborn", Moves(S, "pending")
          PROVE  Queue!Next
        <3>1. Queue!Accept(S)
            BY <2>0, <2>1, <2>4, QueueStates DEF Queue!Accept, Queue!Move
        <3> QED BY <3>1 DEF Queue!Next
    <2>5. ASSUME NEW S \in SUBSET Events, \A e \in S : status[e] = "dead", Moves(S, "pending")
          PROVE  Queue!Next
        <3>1. Queue!Requeue(S)
            BY <2>0, <2>1, <2>5, QueueStates DEF Queue!Requeue, Queue!Move
        <3> QED BY <3>1 DEF Queue!Next
    <2>6. ASSUME NEW S \in SUBSET Events, \A e \in S : status[e] \in Rows, Moves(S, "gone")
          PROVE  Queue!Next
        <3>1. \A e \in S : state[e] \in {"queued", "delivered", "dead"}
            BY <2>6, QueueStates DEF Rows
        <3>2. Queue!Remove(S)
            BY <2>1, <2>6, <3>1, QueueStates DEF Queue!Remove, Queue!Move
        <3> QED BY <3>2 DEF Queue!Next
    <2>7. ASSUME NEW S \in SUBSET Events, NEW s \in {"pending", "failed", "delivering"},
                 \A e \in S : status[e] \in Queued \cup {"delivering"}, Moves(S, s)
          PROVE  UNCHANGED Queue!vars
        <3>1. QueueState(s) = "queued" /\ \A e \in S : state[e] = "queued"
            BY <2>0, <2>7, QueueStates
        <3>2. state' = state
            BY <2>1, <2>7, <3>1
        <3> QED BY <2>7, <3>2 DEF Queue!vars
    <2>8. ASSUME NEW e \in Events, status[e] = "delivering",
                 \/ e \in received /\ Moves({e}, "delivered")
                 \/ Moves({e}, "dead")
          PROVE  Queue!Next
        <3>1. state[e] = "queued"
            BY <2>0, <2>8
        <3>2. CASE e \in received /\ Moves({e}, "delivered")
            <4>1. Queue!Deliver(e)
                BY <2>1, <3>1, <3>2, QueueStates DEF Queue!Deliver, Queue!Move
            <4> QED BY <4>1 DEF Queue!Next
        <3>3. CASE Moves({e}, "dead")
            <4>1. Queue!GiveUp(e)
                BY <2>1, <3>1, <3>3, QueueStates DEF Queue!GiveUp, Queue!Move
            <4> QED BY <4>1 DEF Queue!Next
        <3> QED BY <2>8, <3>2, <3>3
    <2>9. ASSUME NEW e \in Events, status[e] = "delivering", Moves({e}, "failed")
          PROVE  UNCHANGED Queue!vars
        <3>1. {e} \in SUBSET Events /\ \A x \in {e} : status[x] \in Queued \cup {"delivering"}
            BY <2>9
        <3>2. "failed" \in {"pending", "failed", "delivering"}
            OBVIOUS
        <3> QED BY <2>7, <2>9, <3>1, <3>2
    <2> QED BY StatusSteps, <2>2, <2>3, <2>4, <2>5, <2>6, <2>7, <2>8, <2>9
<1>3. Spec => []RecordInv
    BY RecordInit, RecordNext, PTL DEF Spec
<1>4. Spec => Queue!Spec
    BY <1>1, <1>2, <1>3, PTL DEF Spec, Queue!Spec
<1> QED BY <1>4 DEF ImplementsAtLeastOnce
=============================================================================
