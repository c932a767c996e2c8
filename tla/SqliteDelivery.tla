--------------------------- MODULE SqliteDelivery ---------------------------
(***************************************************************************)
(* The delivery pipeline over SQLite: backends/sqlite.rs and the run loop  *)
(* of sqlite_engine.rs. The differences from Delivery.tla are the subject: *)
(*   - only record_success and record_failure are transactions; claiming,  *)
(*     retrying and broadcasting are sequences of statements, with no      *)
(*     locks and mostly unguarded, and each statement is an action here;   *)
(*   - the events of a batch are delivered one after the other.            *)
(* The pool's one connection serialises statements and transactions. Time  *)
(* is abstracted as in Delivery.tla.                                       *)
(***************************************************************************)
EXTENDS Naturals, Sequences, FiniteSets, Functions

CONSTANTS
    Endpoints, Events, EndpointOf,
    Workers,            \* run loops, of one or several processes
    Callers,            \* tasks inside a call of several statements
    NoEvent,            \* a caller has no event in hand
    BatchSize,          \* 50 in sqlite_engine.rs
    MaxAttemptsValues,
    CircuitThreshold,   \* 5 in sqlite.rs
    AttemptsCap,        \* bound on the counted attempts, beyond any max_attempts
    SlowBatches,        \* whether a batch may outlast the stuck timeout
    RecoverCalls        \* whether the application runs the reaper itself

ASSUME SqliteAssumption ==
    /\ IsFiniteSet(Events)
    /\ EndpointOf \in [Events -> Endpoints]
    /\ NoEvent \notin Events
    /\ BatchSize \in Nat \ {0}
    /\ MaxAttemptsValues \subseteq Nat \ {0}
    /\ CircuitThreshold \in Nat \ {0}
    /\ AttemptsCap \in Nat
    /\ \A m \in MaxAttemptsValues : m <= AttemptsCap
    /\ SlowBatches \in BOOLEAN
    /\ RecoverCalls \in BOOLEAN

VARIABLES
    endpoint,     \* "unborn", "enabled", "disabled" or "deleted"
    maxAttempts,
    failures,     \* consecutive_failures, counted up to CircuitThreshold
    circuit,      \* circuit_open_until: "closed", "open" or "elapsed"
    status,       \* webhook_events.status; "unborn" and "gone" have no row
    attempts,     \* webhook_events.attempts, counted up to AttemptsCap
    due,          \* rows with scheduled_at <= now
    stuck,        \* rows with delivering_since older than the stuck timeout
    log,          \* kinds of webhook_delivery_attempts rows of the event
    received,     \* history: events some consumer has processed
    phase,        \* what the run loop does next
    todo,         \* ids of its batch that the phase has still to go through
    done,         \* ids of its batch that a claiming phase has gone through
    snapshot,     \* max_attempts in the Endpoint fetched for Head(todo)
    call          \* of each caller: the call, its event and its endpoints

endpointVars == <<endpoint, maxAttempts, failures, circuit>>
eventVars    == <<status, attempts, due, stuck>>
loopVars     == <<phase, todo, done, snapshot>>
vars == <<endpoint, maxAttempts, failures, circuit, status, attempts, due,
          stuck, log, received, phase, todo, done, snapshot, call>>

Queued == {"pending", "failed"}
Rows   == Queued \cup {"delivering", "delivered", "dead"}

Claiming   == {"recover", "select", "mark", "fetch"}
Delivering == {"deliver", "resetting", "orphaned", "burying", "sending",
               "succeeded", "failed"}

Idle == [step |-> "idle", event |-> NoEvent, endpoints |-> {}]

TypeOK ==
    /\ endpoint \in [Endpoints -> {"unborn", "enabled", "disabled", "deleted"}]
    /\ maxAttempts \in [Endpoints -> MaxAttemptsValues \cup {0}]
    /\ failures \in [Endpoints -> 0..CircuitThreshold]
    /\ circuit \in [Endpoints -> {"closed", "open", "elapsed"}]
    /\ status \in [Events -> Rows \cup {"unborn", "gone"}]
    /\ attempts \in [Events -> 0..AttemptsCap]
    /\ due \in SUBSET Events
    /\ stuck \in SUBSET Events
    /\ log \in [Events -> SUBSET {"success", "failure"}]
    /\ received \in SUBSET Events
    /\ phase \in [Workers -> Claiming \cup Delivering]
    /\ todo \in [Workers -> Seq(Events)]
    /\ done \in [Workers -> Seq(Events)]
    /\ snapshot \in [Workers -> MaxAttemptsValues \cup {0}]
    /\ call \in [Callers -> [step : {"idle", "checked", "known", "requeued", "fanout"},
                             event : Events \cup {NoEvent},
                             endpoints : SUBSET Endpoints]]

Init ==
    /\ endpoint = [p \in Endpoints |-> "unborn"]
    /\ maxAttempts = [p \in Endpoints |-> 0]
    /\ failures = [p \in Endpoints |-> 0]
    /\ circuit = [p \in Endpoints |-> "closed"]
    /\ status = [e \in Events |-> "unborn"]
    /\ attempts = [e \in Events |-> 0]
    /\ due = {}
    /\ stuck = {}
    /\ log = [e \in Events |-> {}]
    /\ received = {}
    /\ phase = [w \in Workers |-> "recover"]
    /\ todo = [w \in Workers |-> <<>>]
    /\ done = [w \in Workers |-> <<>>]
    /\ snapshot = [w \in Workers |-> 0]
    /\ call = [c \in Callers |-> Idle]

-----------------------------------------------------------------------------
(* Column updates the statements share.                                    *)

\* SET status = s and delivering_since: afresh for 'delivering', else NULL.
SetStatus(S, s) ==
    /\ status' = [e \in Events |-> IF e \in S THEN s ELSE status[e]]
    /\ stuck' = stuck \ S

\* A wrong form of the next definition: the row is never written.
ForgetLog(e, kind) == UNCHANGED log

\* INSERT INTO webhook_delivery_attempts; fails without the event's row.
LogAttempt(e, kind) ==
    log' = [log EXCEPT ![e] = IF status[e] \in Rows THEN @ \cup {kind} ELSE @]

\* A wrong form of the next definition: counts the attempts that are left.
SpendAttempt(e) == attempts' = [attempts EXCEPT ![e] = @ - 1]

\* SET attempts = attempts + 1.
CountAttempt(e) ==
    attempts' = [attempts EXCEPT ![e] = IF @ < AttemptsCap THEN @ + 1 ELSE @]

ResetCircuit(p) ==
    /\ failures' = [failures EXCEPT ![p] = 0]
    /\ circuit' = [circuit EXCEPT ![p] = "closed"]

\* A wrong form of the next definition: opens one failure too late.
CountFailureLate(p) ==
    LET n == failures[p] + 1 IN
    /\ failures' = [failures EXCEPT ![p] =
                       IF n > CircuitThreshold THEN CircuitThreshold ELSE n]
    /\ circuit' = [circuit EXCEPT ![p] =
                       IF failures[p] >= CircuitThreshold THEN "open" ELSE "closed"]

\* The SELECT and UPDATE of the counter in record_failure's transaction. How
\* long the circuit is open for is the subject of Backoff.tla.
CountFailure(p) ==
    LET n == failures[p] + 1 IN
    /\ failures' = [failures EXCEPT ![p] =
                       IF n > CircuitThreshold THEN CircuitThreshold ELSE n]
    /\ circuit' = [circuit EXCEPT ![p] =
                       IF n >= CircuitThreshold THEN "open" ELSE "closed"]

Registered(p) == endpoint[p] \in {"enabled", "disabled"}

-----------------------------------------------------------------------------
(* The application: calls of one statement.                                *)

RegisterEndpoint(p, m) ==
    /\ endpoint[p] = "unborn"
    /\ endpoint' = [endpoint EXCEPT ![p] = "enabled"]
    /\ maxAttempts' = [maxAttempts EXCEPT ![p] = m]
    /\ UNCHANGED <<failures, circuit, eventVars, log, received, loopVars, call>>

\* update_endpoint_field writes each field it is given with a statement of its
\* own; these are the two that delivery reads.
UpdateMaxAttempts(p, m) ==
    /\ Registered(p)
    /\ maxAttempts[p] # m
    /\ maxAttempts' = [maxAttempts EXCEPT ![p] = m]
    /\ UNCHANGED <<endpoint, failures, circuit, eventVars, log, received, loopVars, call>>

SetEnabled(p) ==
    /\ Registered(p)
    /\ endpoint' = [endpoint EXCEPT ![p] =
                       IF @ = "enabled" THEN "disabled" ELSE "enabled"]
    /\ UNCHANGED <<maxAttempts, failures, circuit, eventVars, log, received, loopVars, call>>

DeleteRows(S) ==
    /\ SetStatus(S, "gone")
    /\ attempts' = [e \in Events |-> IF e \in S THEN 0 ELSE attempts[e]]
    /\ log' = [e \in Events |-> IF e \in S THEN {} ELSE log[e]]
    /\ due' = due \ S

\* delete_endpoint, with ON DELETE CASCADE and PRAGMA foreign_keys=ON.
DeleteEndpoint(p) ==
    /\ Registered(p)
    /\ DeleteRows({e \in Events : EndpointOf[e] = p /\ status[e] \in Rows})
    /\ endpoint' = [endpoint EXCEPT ![p] = "deleted"]
    /\ maxAttempts' = [maxAttempts EXCEPT ![p] = 0]
    /\ ResetCircuit(p)
    /\ UNCHANGED <<received, loopVars, call>>

\* cleanup_delivered and cleanup_dead; which rows are old enough is left open.
Cleanup(s, S) ==
    /\ S # {}
    /\ \A e \in S : status[e] = s
    /\ DeleteRows(S)
    /\ UNCHANGED <<endpointVars, received, loopVars, call>>

\* A wrong form of the next definition: nothing asks whether the endpoint that
\* was registered is still there, as without PRAGMA foreign_keys.
InsertUnchecked(e) ==
    /\ status[e] = "unborn"
    /\ endpoint[EndpointOf[e]] # "unborn"
    /\ status' = [status EXCEPT ![e] = "pending"]
    /\ due' = due \cup {e}
    /\ UNCHANGED <<attempts, stuck, endpointVars, log, received, loopVars>>

\* enqueue, and enqueue_in_sqlite_tx once the caller's transaction commits.
InsertEvent(e) ==
    /\ status[e] = "unborn"
    /\ Registered(EndpointOf[e])
    /\ status' = [status EXCEPT ![e] = "pending"]
    /\ due' = due \cup {e}
    /\ UNCHANGED <<attempts, stuck, endpointVars, log, received, loopVars>>

Send(e) ==
    /\ InsertEvent(e)
    /\ UNCHANGED call

\* recover_stuck_deliveries.
ReturnStuck ==
    /\ SetStatus({e \in Events : status[e] = "delivering" /\ e \in stuck}, "pending")
    /\ UNCHANGED <<attempts, due, endpointVars, log, received>>

\* The application's own call of it.
RecoverByHand ==
    /\ RecoverCalls
    /\ ReturnStuck
    /\ UNCHANGED <<loopVars, call>>

-----------------------------------------------------------------------------
(* Calls of several statements; other calls and run loops run in between.  *)

Proceed(c, r) == call' = [call EXCEPT ![c] = r]

\* A statement fails, or the task that made the call is dropped at an await.
AbandonCall(c) ==
    /\ call[c] # Idle
    /\ Proceed(c, Idle)
    /\ UNCHANGED <<endpointVars, eventVars, log, received, loopVars>>

\* broadcast lists the enabled endpoints whose filter accepts the event type
\* (EventFilter.tla), here all of them, ...
BeginBroadcast(c) ==
    /\ call[c] = Idle
    /\ \E p \in Endpoints : endpoint[p] = "enabled"
    /\ Proceed(c, [step |-> "fanout", event |-> NoEvent,
                   endpoints |-> {p \in Endpoints : endpoint[p] = "enabled"}])
    /\ UNCHANGED <<endpointVars, eventVars, log, received, loopVars>>

\* ... and enqueues for one after the other.
FanOut(c, e) ==
    /\ call[c].step = "fanout"
    /\ EndpointOf[e] \in call[c].endpoints
    /\ InsertEvent(e)
    /\ Proceed(c, IF call[c].endpoints = {EndpointOf[e]} THEN Idle
                  ELSE [call[c] EXCEPT !.endpoints = @ \ {EndpointOf[e]}])

\* retry_dead_event: SELECT status, ...
CheckDead(c, e) ==
    /\ call[c] = Idle
    /\ status[e] = "dead"
    /\ Proceed(c, [step |-> "checked", event |-> e, endpoints |-> {}])
    /\ UNCHANGED <<endpointVars, eventVars, log, received, loopVars>>

\* ... SELECT endpoint_id, ...
LookUpEndpoint(c) ==
    /\ call[c].step = "checked"
    /\ Proceed(c, [call[c] EXCEPT !.step = "known",
                                  !.endpoints = IF status[call[c].event] \in Rows
                                                THEN {EndpointOf[call[c].event]} ELSE {}])
    /\ UNCHANGED <<endpointVars, eventVars, log, received, loopVars>>

Requeue(S) ==
    /\ SetStatus(S, "pending")
    /\ attempts' = [e \in Events |-> IF e \in S THEN 0 ELSE attempts[e]]
    /\ due' = due \cup S

\* ... the UPDATE, which asks for the id only, ...
RetryKnown(c) ==
    /\ call[c].step = "known"
    /\ Requeue({call[c].event} \cap {e \in Events : status[e] \in Rows})
    /\ Proceed(c, IF call[c].endpoints = {} THEN Idle
                  ELSE [call[c] EXCEPT !.step = "requeued", !.event = NoEvent])
    /\ UNCHANGED <<endpointVars, log, received, loopVars>>

\* A wrong form of the next definition: the UPDATE names the endpoint only.
RetryAllRows(c, p) ==
    /\ call[c] = Idle
    /\ Registered(p)
    /\ Requeue({e \in Events : EndpointOf[e] = p /\ status[e] \in Rows})
    /\ Proceed(c, [step |-> "requeued", event |-> NoEvent, endpoints |-> {p}])
    /\ UNCHANGED <<endpointVars, log, received, loopVars>>

\* (retry_all_dead starts here)
RetryAllDead(c, p) ==
    /\ call[c] = Idle
    /\ Registered(p)
    /\ Requeue({e \in Events : EndpointOf[e] = p /\ status[e] = "dead"})
    /\ Proceed(c, [step |-> "requeued", event |-> NoEvent, endpoints |-> {p}])
    /\ UNCHANGED <<endpointVars, log, received, loopVars>>

\* ... and the endpoint's circuit is reset.
CloseCircuit(c) ==
    /\ call[c].step = "requeued"
    /\ \E p \in call[c].endpoints : ResetCircuit(p)
    /\ Proceed(c, Idle)
    /\ UNCHANGED <<endpoint, maxAttempts, eventVars, log, received, loopVars>>

-----------------------------------------------------------------------------
(* A run loop: run_once_inner, over and over.                              *)

GoTo(w, ph, ids) ==
    /\ phase' = [phase EXCEPT ![w] = ph]
    /\ todo' = [todo EXCEPT ![w] = ids]
    /\ done' = [done EXCEPT ![w] = <<>>]
    /\ snapshot' = [snapshot EXCEPT ![w] = 0]
    /\ UNCHANGED call

\* An error of recover_stuck_deliveries is ignored.
Recover(w) ==
    /\ phase[w] = "recover"
    /\ \/ ReturnStuck
       \/ UNCHANGED <<endpointVars, eventVars, log, received>>
    /\ GoTo(w, "select", <<>>)

Claimable ==
    {e \in Events : /\ status[e] \in Queued
                    /\ e \in due
                    /\ endpoint[EndpointOf[e]] = "enabled"
                    /\ circuit[EndpointOf[e]] # "open"}

\* The SELECT of claim_due_events. ORDER BY scheduled_at is left open.
Select(w) ==
    /\ phase[w] = "select"
    /\ LET size == IF Cardinality(Claimable) < BatchSize
                   THEN Cardinality(Claimable) ELSE BatchSize
       IN  \E ids \in Injection(1..size, Claimable) :
              GoTo(w, IF ids = <<>> THEN "recover" ELSE "mark", ids)
    /\ UNCHANGED <<endpointVars, eventVars, log, received>>

\* The loop over the batch in a claiming phase; kept are the ids it keeps.
Advance(w, kept, next) ==
    IF Len(todo[w]) = 1
    THEN GoTo(w, IF kept = <<>> THEN "recover" ELSE next, kept)
    ELSE /\ todo' = [todo EXCEPT ![w] = Tail(@)]
         /\ done' = [done EXCEPT ![w] = kept]
         /\ UNCHANGED <<phase, snapshot, call>>

\* A wrong form of the next definition: marks nothing.
MarkNothing(w) ==
    /\ phase[w] = "mark"
    /\ Advance(w, Append(done[w], Head(todo[w])), "fetch")
    /\ UNCHANGED <<eventVars, endpointVars, log, received>>

\* One UPDATE ... SET status = 'delivering' WHERE id = ?.
Mark(w) ==
    /\ phase[w] = "mark"
    /\ SetStatus({Head(todo[w])} \cap {e \in Events : status[e] \in Rows}, "delivering")
    /\ Advance(w, Append(done[w], Head(todo[w])), "fetch")
    /\ UNCHANGED <<attempts, due, endpointVars, log, received>>

\* One SELECT of an updated row; an id whose row has gone is left out.
Fetch(w) ==
    /\ phase[w] = "fetch"
    /\ Advance(w, IF status[Head(todo[w])] \in Rows
                  THEN Append(done[w], Head(todo[w])) ELSE done[w], "deliver")
    /\ UNCHANGED <<endpointVars, eventVars, log, received>>

\* A statement of claim_due_events fails: rows already marked stay so.
FailClaim(w) ==
    /\ phase[w] \in {"select", "mark", "fetch"}
    /\ GoTo(w, "recover", <<>>)
    /\ UNCHANGED <<endpointVars, eventVars, log, received>>

\* The process dies, or the future of run or run_once is dropped.
Crash(w) ==
    /\ phase[w] # "recover"
    /\ GoTo(w, "recover", <<>>)
    /\ UNCHANGED <<endpointVars, eventVars, log, received>>

-----------------------------------------------------------------------------
(* deliver_sqlite_event, for the first event of todo.                      *)

Current(w) == Head(todo[w])

Turn(w, ph) ==
    /\ phase' = [phase EXCEPT ![w] = ph]
    /\ UNCHANGED <<todo, done, snapshot, call>>

\* Ok or Err, run_once_inner goes on to the next event of the batch.
Finish(w) ==
    GoTo(w, IF Len(todo[w]) = 1 THEN "recover" ELSE "deliver", Tail(todo[w]))

FetchEndpoint(w) ==
    /\ phase[w] = "deliver"
    /\ endpoint[EndpointOf[Current(w)]] = "enabled"
    /\ phase' = [phase EXCEPT ![w] = "sending"]
    /\ snapshot' = [snapshot EXCEPT ![w] = maxAttempts[EndpointOf[Current(w)]]]
    /\ UNCHANGED <<todo, done, call, endpointVars, eventVars, log, received>>

FindDisabled(w) ==
    /\ phase[w] = "deliver"
    /\ endpoint[EndpointOf[Current(w)]] = "disabled"
    /\ Turn(w, "resetting")
    /\ UNCHANGED <<endpointVars, eventVars, log, received>>

FindDeleted(w) ==
    /\ phase[w] = "deliver"
    /\ ~Registered(EndpointOf[Current(w)])
    /\ Turn(w, "orphaned")
    /\ UNCHANGED <<endpointVars, eventVars, log, received>>

\* record_endpoint_deleted, whose errors are ignored: the INSERT, ...
LogOrphan(w) ==
    /\ phase[w] = "orphaned"
    /\ LogAttempt(Current(w), "failure")
    /\ Turn(w, "burying")
    /\ UNCHANGED <<endpointVars, eventVars, received>>

\* ... and the UPDATE.
BuryOrphan(w) ==
    /\ phase[w] = "burying"
    /\ SetStatus({Current(w)} \cap {e \in Events : status[e] = "delivering"}, "dead")
    /\ Finish(w)
    /\ UNCHANGED <<endpointVars, attempts, due, log, received>>

ResetToPending(w) ==
    /\ phase[w] = "resetting"
    /\ LET back == {Current(w)} \cap {e \in Events : status[e] = "delivering"} IN
       /\ SetStatus(back, "pending")
       /\ due' = due \cup back
    /\ Finish(w)
    /\ UNCHANGED <<endpointVars, attempts, log, received>>

\* The POST; a consumer may have processed an event whose answer is lost.
Post(w, consumed, answer) ==
    /\ phase[w] = "sending"
    /\ answer = "succeeded" => consumed
    /\ phase' = [phase EXCEPT ![w] = answer]
    /\ received' = IF consumed THEN received \cup {Current(w)} ELSE received
    /\ UNCHANGED <<todo, done, snapshot, call, endpointVars, eventVars, log>>

\* A wrong form of the next definition: only logs the attempt.
OnlyLogSuccess(w) ==
    /\ phase[w] = "succeeded"
    /\ LogAttempt(Current(w), "success")
    /\ Finish(w)
    /\ UNCHANGED <<endpointVars, eventVars, received>>

\* record_success, one transaction.
RecordSuccess(w) ==
    LET e == Current(w) IN
    /\ phase[w] = "succeeded"
    /\ LogAttempt(e, "success")
    /\ IF status[e] = "delivering"
       THEN /\ SetStatus({e}, "delivered")
            /\ CountAttempt(e)
            /\ due' = due \ {e}
            /\ ResetCircuit(EndpointOf[e])
       ELSE UNCHANGED <<eventVars, failures, circuit>>
    /\ Finish(w)
    /\ UNCHANGED <<endpoint, maxAttempts, received>>

\* A wrong form of the next definition: misses a max_attempts that was lowered.
ExhaustsExactly(w, e) == attempts[e] + 1 = snapshot[w]

Exhausts(w, e) == attempts[e] + 1 >= snapshot[w]

\* record_failure, one transaction, which on SQLite reads the attempts it
\* goes on to write. Without the event's row it fails as a whole.
RecordFailure(w) ==
    LET e == Current(w) IN
    /\ phase[w] = "failed"
    /\ LogAttempt(e, "failure")
    /\ IF status[e] = "delivering"
       THEN /\ SetStatus({e}, IF Exhausts(w, e) THEN "dead" ELSE "failed")
            /\ CountAttempt(e)
            /\ due' = due \ {e}
       ELSE UNCHANGED eventVars
    /\ IF status[e] \in Rows
       THEN CountFailure(EndpointOf[e])
       ELSE UNCHANGED <<failures, circuit>>
    /\ Finish(w)
    /\ UNCHANGED <<endpoint, maxAttempts, received>>

\* A statement of deliver_sqlite_event fails, its transaction rolls back.
LoseDelivery(w) ==
    /\ phase[w] \in Delivering
    /\ Finish(w)
    /\ UNCHANGED <<endpointVars, eventVars, log, received>>

-----------------------------------------------------------------------------
(* Time.                                                                   *)

BackoffElapses(e) ==
    /\ status[e] \in Queued
    /\ e \notin due
    /\ due' = due \cup {e}
    /\ UNCHANGED <<status, attempts, stuck, endpointVars, log, received, loopVars, call>>

InHand(e) == \E w \in Workers : e \in Range(todo[w]) \cup Range(done[w])

\* delivering_since is set for the whole batch before its first POST, each of
\* which may take http_timeout: 50 of them outlast the stuck timeout.
StuckTimeoutElapses(e) ==
    /\ status[e] = "delivering"
    /\ e \notin stuck
    /\ SlowBatches \/ ~InHand(e)
    /\ stuck' = stuck \cup {e}
    /\ UNCHANGED <<status, attempts, due, endpointVars, log, received, loopVars, call>>

CircuitElapses(p) ==
    /\ circuit[p] = "open"
    /\ circuit' = [circuit EXCEPT ![p] = "elapsed"]
    /\ UNCHANGED <<endpoint, maxAttempts, failures, eventVars, log, received, loopVars, call>>

-----------------------------------------------------------------------------
Administer ==
    \/ \E p \in Endpoints, m \in MaxAttemptsValues :
          RegisterEndpoint(p, m) \/ UpdateMaxAttempts(p, m)
    \/ \E p \in Endpoints : SetEnabled(p) \/ DeleteEndpoint(p)
    \/ \E s \in {"delivered", "dead"}, S \in SUBSET Events : Cleanup(s, S)
    \/ \E e \in Events : Send(e)
    \/ RecoverByHand

CallSteps(c) ==
    \/ BeginBroadcast(c)
    \/ \E e \in Events : FanOut(c, e)
    \/ \E e \in Events : CheckDead(c, e)
    \/ LookUpEndpoint(c)
    \/ RetryKnown(c)
    \/ \E p \in Endpoints : RetryAllDead(c, p)
    \/ CloseCircuit(c)

Claim(w)  == Recover(w) \/ Select(w) \/ Mark(w) \/ Fetch(w)

Deliver(w) ==
    \/ FetchEndpoint(w) \/ FindDisabled(w) \/ FindDeleted(w)
    \/ LogOrphan(w) \/ BuryOrphan(w) \/ ResetToPending(w)
    \/ \E consumed \in BOOLEAN, answer \in {"succeeded", "failed"} :
          Post(w, consumed, answer)
    \/ RecordSuccess(w) \/ RecordFailure(w)

Elapse ==
    \/ \E e \in Events : BackoffElapses(e) \/ StuckTimeoutElapses(e)
    \/ \E p \in Endpoints : CircuitElapses(p)

Fail ==
    \/ \E w \in Workers : FailClaim(w) \/ Crash(w) \/ LoseDelivery(w)
    \/ \E c \in Callers : AbandonCall(c)

Next ==
    \/ Administer
    \/ \E c \in Callers : CallSteps(c)
    \/ \E w \in Workers : Claim(w) \/ Deliver(w)
    \/ Elapse
    \/ Fail

Spec == Init /\ [][Next]_vars

\* A run loop never stops, http_timeout ends every POST and time passes. Nothing
\* obliges a caller to go on or a statement to fail.
Fairness ==
    /\ \A w \in Workers : WF_vars(Claim(w)) /\ WF_vars(Deliver(w))
    /\ \A e \in Events : WF_vars(BackoffElapses(e)) /\ WF_vars(StuckTimeoutElapses(e))
    /\ \A p \in Endpoints : WF_vars(CircuitElapses(p))

FairSpec == Spec /\ Fairness

-----------------------------------------------------------------------------
(* Properties.                                                             *)

\* A settled row never lacks the evidence for its status, however the unguarded
\* UPDATEs of several run loops and callers interleave.
OutcomeIsRecorded ==
    \A e \in Events :
        /\ status[e] = "delivered" => "success" \in log[e]
        /\ "success" \in log[e] => e \in received
        /\ status[e] \in {"failed", "dead"} => "failure" \in log[e]

\* The two circuit columns agree although retrying writes them in a statement
\* apart from the event's.
CircuitFollowsFailures ==
    \A p \in Endpoints : circuit[p] # "closed" <=> failures[p] >= CircuitThreshold

\* Every row has its endpoint, although a broadcast enqueues for the endpoints
\* it has listed, one statement each, and any of them may be deleted before its
\* turn, and although requeueing and claiming go by ids read before.
ForeignKeysHold ==
    \A e \in Events : status[e] \in Rows => Registered(EndpointOf[e])

\* With a single run loop and caller, and nobody else running the reaper, the
\* batch is the loop's: what it has selected is still queued when it is marked,
\* and what it has marked is 'delivering' until its turn is over, however slow
\* the batch, unless the row is deleted.
BatchIsOwned ==
    \A w \in Workers :
        /\ phase[w] = "mark" =>
              /\ \A e \in Range(todo[w]) : status[e] \in Queued \cup {"gone"}
              /\ \A e \in Range(done[w]) : status[e] \in {"delivering", "gone"}
        /\ phase[w] \in Delivering \cup {"fetch"} =>
              \A e \in Range(todo[w]) \cup Range(done[w]) :
                  status[e] \in {"delivering", "gone"}

\* Then a success that is on record is never followed by another POST, also
\* when the process dies, a statement fails or an operator retries.
NoPostAfterSuccess ==
    \A w \in Workers : phase[w] = "sending" => "success" \notin log[Current(w)]

\* retry_dead_event changes dead events only.
RetriesOnlyDead ==
    [][\A c \in Callers :
           RetryKnown(c) => status[call[c].event] \in {"dead", "gone"}]_vars

QueueState(s) ==
    CASE s = "unborn" -> "absent"
      [] s \in Queued \cup {"delivering"} -> "queued"
      [] s = "gone" -> "removed"
      [] OTHER -> s

\* With a single run loop and caller the pipeline implements the same abstract
\* at-least-once queue as the one over PostgreSQL.
Queue == INSTANCE AtLeastOnce
            WITH state <- [e \in Events |-> QueueState(status[e])]

ImplementsAtLeastOnce == Queue!Spec

\* What can keep an event from settling: an operator or a fault. A step that the
\* loop itself may take, such as an empty claim, is never one of them.
Interferes ==
    \/ \E p \in Endpoints, m \in MaxAttemptsValues : UpdateMaxAttempts(p, m)
    \/ \E p \in Endpoints : SetEnabled(p)
    \/ \E c \in Callers : RetryKnown(c) \/ CloseCircuit(c)
    \/ \E c \in Callers, p \in Endpoints : RetryAllDead(c, p)
    \/ \E w \in Workers : /\ FailClaim(w) \/ Crash(w) \/ LoseDelivery(w)
                          /\ ~(Claim(w) \/ Deliver(w))
    \/ \E w \in Workers : Recover(w) /\ ~ReturnStuck
    \/ \E e \in Events : StuckTimeoutElapses(e) /\ InHand(e)

\* Nothing is stranded by a claim, a retry or a broadcast that stopped halfway:
\* once operators and faults leave the pipeline alone, every queued or claimed
\* event whose endpoint is enabled comes to be delivered, dead or deleted.
EventuallySettled ==
    (<>[][~Interferes]_vars) =>
        \A e \in Events :
            (status[e] \in Queued \cup {"delivering"})
                ~> \/ status[e] \in {"delivered", "dead", "gone"}
                   \/ endpoint[EndpointOf[e]] = "disabled"

-----------------------------------------------------------------------------
(* The inductive invariants behind the theorems of SqliteDeliveryProofs.   *)

\* A loop has a batch from its SELECT to the last event of it, and has gone
\* through part of it only while it claims.
BatchesFollowSteps ==
    \A w \in Workers :
        /\ phase[w] \in {"recover", "select"} <=> todo[w] = <<>>
        /\ phase[w] \in Delivering \cup {"recover", "select"} => done[w] = <<>>

Batch(w) == Range(todo[w]) \cup Range(done[w])

\* What is in a batch has been enqueued, though it may be gone since.
BatchesWereQueued == \A w \in Workers : \A e \in Batch(w) : status[e] # "unborn"

\* retry_dead_event has its event in hand until it has updated it.
CallsHaveTheirEvent ==
    \A c \in Callers : call[c].step \in {"checked", "known"} => call[c].event \in Events

\* A loop that is about to record an outcome has the evidence for it.
EvidenceIsAtHand ==
    \A w \in Workers :
        /\ phase[w] = "succeeded" => Current(w) \in received
        /\ phase[w] = "burying" =>
              status[Current(w)] = "gone" \/ "failure" \in log[Current(w)]

SettledInv ==
    /\ TypeOK
    /\ BatchesFollowSteps /\ BatchesWereQueued /\ CallsHaveTheirEvent
    /\ EvidenceIsAtHand /\ OutcomeIsRecorded

\* The rest needs a single run loop and caller, and nobody else who runs the
\* reaper.
OneOfEach ==
    /\ \A v, w \in Workers : v = w
    /\ \A c, d \in Callers : c = d
    /\ ~RecoverCalls

\* No event is twice in a batch.
BatchIsDistinct ==
    \A w \in Workers :
        /\ IsInjective(todo[w]) /\ IsInjective(done[w])
        /\ Range(todo[w]) \cap Range(done[w]) = {}

\* What retry_dead_event has found dead is dead until it updates it.
RetriesFoundDead ==
    \A c \in Callers :
        call[c].step \in {"checked", "known"} => status[call[c].event] \in {"dead", "gone"}

\* A success on record has settled its event.
SuccessSettles == \A e \in Events : "success" \in log[e] => status[e] = "delivered"

OneLoopInv ==
    /\ SettledInv
    /\ BatchIsDistinct /\ BatchIsOwned
    /\ RetriesFoundDead /\ SuccessSettles
=============================================================================
