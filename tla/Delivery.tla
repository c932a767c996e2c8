------------------------------ MODULE Delivery ------------------------------
(***************************************************************************)
(* The delivery pipeline of webhooksmith over PostgreSQL: the tables       *)
(* webhook_endpoints, webhook_events and webhook_delivery_attempts         *)
(* (src/webhooksmith/migrations), the statements and transactions of       *)
(* storage.rs, and the worker processes of worker.rs that run them.        *)
(*                                                                         *)
(* One action is one SQL statement or one transaction, except              *)
(* record_failure, which decides on what it has read: its INSERT and       *)
(* SELECT are one action and its UPDATEs to the commit another.  Under     *)
(* READ COMMITTED these see different snapshots, and only the row lock     *)
(* that the INSERT takes (Held) stands between them.                       *)
(*                                                                         *)
(* Time is abstracted to what the code compares it with: scheduled_at <=   *)
(* NOW() is membership in "due", delivering_since older than the stuck     *)
(* timeout is membership in "stuck", and circuit_open_until is one of      *)
(* "closed" (NULL), "open" (in the future) and "elapsed" (in the past).    *)
(***************************************************************************)
EXTENDS Naturals, FiniteSets

CONSTANTS
    Endpoints,          \* ids of webhook_endpoints rows
    Events,             \* ids of webhook_events rows; a UUID is never reused
    EndpointOf,         \* the endpoint_id a row is inserted with, for good
    Workers,            \* processes that run DeliveryWorker
    NoWorker,           \* no claim on the row
    BatchSize,          \* DeliveryWorker::batch_size
    MaxAttemptsValues,  \* the max_attempts an operator may set
    CircuitThreshold,   \* 5 in storage.rs
    SlowTasks           \* whether a task may outlive the stuck timeout

ASSUME DeliveryAssumption ==
    /\ EndpointOf \in [Events -> Endpoints]
    /\ NoWorker \notin Workers
    /\ BatchSize \in Nat \ {0}
    /\ MaxAttemptsValues \subseteq Nat \ {0} /\ MaxAttemptsValues # {}
    /\ CircuitThreshold \in Nat \ {0}
    /\ SlowTasks \in BOOLEAN

VARIABLES
    endpoint,     \* "unborn", "enabled", "disabled" or "deleted"
    maxAttempts,  \* webhook_endpoints.max_attempts
    failures,     \* consecutive_failures, counted up to CircuitThreshold
    circuit,      \* circuit_open_until against NOW()
    status,       \* webhook_events.status; "unborn" and "gone" have no row
    attempts,     \* webhook_events.attempts
    due,          \* rows with scheduled_at <= NOW()
    earlier,      \* pairs of due rows, the first with the smaller scheduled_at
    stuck,        \* rows with delivering_since older than the stuck timeout
    claimant,     \* history: whose claim the row's delivering_since is
    log,          \* kinds of webhook_delivery_attempts rows of the event
    received,     \* history: events some consumer has processed
    worker,       \* where the run loop of the process is
    task,         \* where the process's deliver_event for the event is
    snapshot      \* max_attempts in the Endpoint that task has fetched

endpointVars == <<endpoint, maxAttempts, failures, circuit>>
scheduleVars == <<due, earlier>>
eventVars    == <<status, attempts, due, earlier, stuck, claimant>>
taskVars     == <<task, snapshot>>
vars == <<endpoint, maxAttempts, failures, circuit, status, attempts, due,
          earlier, stuck, claimant, log, received, worker, task, snapshot>>

Queued == {"pending", "failed"}
Rows   == Queued \cup {"delivering", "delivered", "dead"}
Phases == {"none", "claimed", "resetting", "sending", "succeeded", "failed",
           "burying", "retrying"}

TypeOK ==
    /\ endpoint \in [Endpoints -> {"unborn", "enabled", "disabled", "deleted"}]
    /\ maxAttempts \in [Endpoints -> MaxAttemptsValues \cup {0}]
    /\ failures \in [Endpoints -> 0..CircuitThreshold]
    /\ circuit \in [Endpoints -> {"closed", "open", "elapsed"}]
    /\ status \in [Events -> Rows \cup {"unborn", "gone"}]
    /\ attempts \in [Events -> Nat]
    /\ due \in SUBSET Events
    /\ earlier \in SUBSET (Events \X Events)
    /\ stuck \in SUBSET Events
    /\ claimant \in [Events -> Workers \cup {NoWorker}]
    /\ log \in [Events -> SUBSET {"success", "failure"}]
    /\ received \in SUBSET Events
    /\ worker \in [Workers -> {"recover", "claim", "deliver"}]
    /\ task \in [Workers -> [Events -> Phases]]
    /\ snapshot \in [Workers -> [Events -> MaxAttemptsValues \cup {0}]]

Init ==
    /\ endpoint = [p \in Endpoints |-> "unborn"]
    /\ maxAttempts = [p \in Endpoints |-> 0]
    /\ failures = [p \in Endpoints |-> 0]
    /\ circuit = [p \in Endpoints |-> "closed"]
    /\ status = [e \in Events |-> "unborn"]
    /\ attempts = [e \in Events |-> 0]
    /\ due = {}
    /\ earlier = {}
    /\ stuck = {}
    /\ claimant = [e \in Events |-> NoWorker]
    /\ log = [e \in Events |-> {}]
    /\ received = {}
    /\ worker = [w \in Workers |-> "recover"]
    /\ task = [w \in Workers |-> [e \in Events |-> "none"]]
    /\ snapshot = [w \in Workers |-> [e \in Events |-> 0]]

-----------------------------------------------------------------------------
(* Column updates the statements share.                                    *)

\* SET status = s together with delivering_since: NOW() for a claim by w,
\* NULL (w = NoWorker) for everything else.
SetStatus(S, s, w) ==
    /\ status' = [e \in Events |-> IF e \in S THEN s ELSE status[e]]
    /\ stuck' = stuck \ S
    /\ claimant' = [e \in Events |-> IF e \in S THEN w ELSE claimant[e]]

\* SET scheduled_at = NOW(): due at once, after every row already due.
ScheduleNow(S) ==
    /\ due' = due \cup S
    /\ earlier' = {p \in earlier : p[1] \notin S /\ p[2] \notin S}
                      \cup ((due \ S) \X S)

\* SET scheduled_at to the future, or the row no longer waits for its turn.
Unschedule(S) ==
    /\ due' = due \ S
    /\ earlier' = {p \in earlier : p[1] \notin S /\ p[2] \notin S}

\* A wrong form of the next definition: the row is never written.
ForgetLog(e, kind) == UNCHANGED log

\* INSERT INTO webhook_delivery_attempts: needs the event's row, and the whole
\* transaction fails without it.
LogAttempt(e, kind) ==
    log' = [log EXCEPT ![e] = IF status[e] \in Rows THEN @ \cup {kind} ELSE @]

\* Wrong forms of the next definition: the failure is not counted, or it is
\* counted as an attempt that is left.
ForgetAttempt(e) == UNCHANGED attempts
SpendAttempt(e)  == attempts' = [attempts EXCEPT ![e] = @ - 1]

\* SET attempts = attempts + 1.
CountAttempt(e) == attempts' = [attempts EXCEPT ![e] = @ + 1]

\* SET consecutive_failures = 0, circuit_open_until = NULL.
ResetCircuit(p) ==
    /\ failures' = [failures EXCEPT ![p] = 0]
    /\ circuit' = [circuit EXCEPT ![p] = "closed"]

\* A wrong form of the next definition: opens one failure too late.
CountFailureLate(p) ==
    LET n == failures[p] + 1 IN
    /\ failures' = [failures EXCEPT ![p] =
                       IF n > CircuitThreshold THEN CircuitThreshold ELSE n]
    /\ circuit' = [circuit EXCEPT ![p] =
                       IF failures[p] >= CircuitThreshold THEN "open" ELSE "closed"]

\* The UPDATE that ends record_failure. From the threshold on every count
\* opens the circuit; how long for is the subject of Backoff.tla.
CountFailure(p) ==
    LET n == failures[p] + 1 IN
    /\ failures' = [failures EXCEPT ![p] =
                       IF n > CircuitThreshold THEN CircuitThreshold ELSE n]
    /\ circuit' = [circuit EXCEPT ![p] =
                       IF n >= CircuitThreshold THEN "open" ELSE "closed"]

Registered(p) == endpoint[p] \in {"enabled", "disabled"}

\* An open record_failure has inserted a delivery-attempt row, whose foreign
\* key keeps FOR KEY SHARE on the event row: a DELETE of the event waits until
\* it has finished and FOR UPDATE SKIP LOCKED skips the row. An UPDATE that
\* leaves the id alone does not conflict with it.
Held(e) == \E w \in Workers : task[w][e] \in {"burying", "retrying"}

-----------------------------------------------------------------------------
(* The application: endpoint administration and enqueueing.                *)

\* create_endpoint.
RegisterEndpoint(p, m) ==
    /\ endpoint[p] = "unborn"
    /\ endpoint' = [endpoint EXCEPT ![p] = "enabled"]
    /\ maxAttempts' = [maxAttempts EXCEPT ![p] = m]
    /\ UNCHANGED <<failures, circuit, eventVars, log, received, worker, taskVars>>

\* update_endpoint, of the one field that delivery reads later.
UpdateMaxAttempts(p, m) ==
    /\ Registered(p)
    /\ maxAttempts[p] # m
    /\ maxAttempts' = [maxAttempts EXCEPT ![p] = m]
    /\ UNCHANGED <<endpoint, failures, circuit, eventVars, log, received, worker, taskVars>>

\* WebhookEngine::disable and enable; neither touches queued events.
SetEnabled(p, from, to) ==
    /\ endpoint[p] = from
    /\ endpoint' = [endpoint EXCEPT ![p] = to]
    /\ UNCHANGED <<maxAttempts, failures, circuit, eventVars, log, received, worker, taskVars>>

Disable(p) == SetEnabled(p, "enabled", "disabled")
Enable(p)  == SetEnabled(p, "disabled", "enabled")

\* Deleting event rows takes their delivery-attempt rows along (CASCADE).
DeleteRows(S) ==
    /\ \A e \in S : ~Held(e)
    /\ SetStatus(S, "gone", NoWorker)
    /\ attempts' = [e \in Events |-> IF e \in S THEN 0 ELSE attempts[e]]
    /\ log' = [e \in Events |-> IF e \in S THEN {} ELSE log[e]]
    /\ Unschedule(S)

\* A wrong form of the next definition: spares what a worker has in hand.
IdleRowsOf(p) ==
    {e \in Events : EndpointOf[e] = p /\ status[e] \in Rows \ {"delivering"}}

RowsOf(p) == {e \in Events : EndpointOf[e] = p /\ status[e] \in Rows}

\* delete_endpoint: ON DELETE CASCADE removes its events with it.
DeleteEndpoint(p) ==
    /\ Registered(p)
    /\ DeleteRows(RowsOf(p))
    /\ endpoint' = [endpoint EXCEPT ![p] = "deleted"]
    /\ maxAttempts' = [maxAttempts EXCEPT ![p] = 0]
    /\ ResetCircuit(p)
    /\ UNCHANGED <<received, worker, taskVars>>

InsertEvents(S) ==
    /\ status' = [e \in Events |-> IF e \in S THEN "pending" ELSE status[e]]
    /\ ScheduleNow(S)
    /\ UNCHANGED <<attempts, stuck, claimant, endpointVars, log, received,
                   worker, taskVars>>

\* enqueue: the foreign key wants the endpoint, enabled or not.
Send(e) ==
    /\ status[e] = "unborn"
    /\ Registered(EndpointOf[e])
    /\ InsertEvents({e})

\* broadcast: one row for every enabled endpoint whose filter accepts the
\* event type (EventFilter.tla), here all of them, in one statement.
Broadcast(S) ==
    /\ S # {}
    /\ \A e \in S : status[e] = "unborn" /\ endpoint[EndpointOf[e]] = "enabled"
    /\ \A p \in Endpoints :
          endpoint[p] = "enabled" =>
              \E e \in S : EndpointOf[e] = p /\ \A f \in S \ {e} : EndpointOf[f] # p
    /\ InsertEvents(S)

\* Requeueing out of the dead-letter queue.
Requeue(S) ==
    /\ SetStatus(S, "pending", NoWorker)
    /\ attempts' = [e \in Events |-> IF e \in S THEN 0 ELSE attempts[e]]
    /\ ScheduleNow(S)

\* A wrong form of the next definition: the UPDATE does not ask for 'dead'.
RetrySettled(e) ==
    /\ status[e] \in {"dead", "delivered"}
    /\ Requeue({e})
    /\ ResetCircuit(EndpointOf[e])
    /\ UNCHANGED <<endpoint, maxAttempts, log, received, worker, taskVars>>

\* retry_dead_event. The status it reads first only decides the error; the
\* transaction checks again, and a call that lost the race changes nothing.
RetryDead(e) ==
    /\ status[e] = "dead"
    /\ Requeue({e})
    /\ ResetCircuit(EndpointOf[e])
    /\ UNCHANGED <<endpoint, maxAttempts, log, received, worker, taskVars>>

\* A wrong form of the next definition: the UPDATE names the endpoint only.
RetryAllSettled(p) ==
    /\ Registered(p)
    /\ Requeue({e \in RowsOf(p) : status[e] \in {"dead", "delivered"}})
    /\ ResetCircuit(p)
    /\ UNCHANGED <<endpoint, maxAttempts, log, received, worker, taskVars>>

\* retry_all_dead: resets the circuit whether or not a row was requeued.
RetryAllDead(p) ==
    /\ Registered(p)
    /\ Requeue({e \in Events : EndpointOf[e] = p /\ status[e] = "dead"})
    /\ ResetCircuit(p)
    /\ UNCHANGED <<endpoint, maxAttempts, log, received, worker, taskVars>>

\* cleanup_delivered (s = "delivered") and cleanup_dead (s = "dead"); which
\* rows of that status are old enough is left open.
Cleanup(s, S) ==
    /\ S # {}
    /\ \A e \in S : status[e] = s
    /\ DeleteRows(S)
    /\ UNCHANGED <<endpointVars, received, worker, taskVars>>

\* recover_stuck_deliveries: attempts and scheduled_at stay as they are.
ReturnStuck ==
    /\ SetStatus({e \in Events : status[e] = "delivering" /\ e \in stuck},
                 "pending", NoWorker)
    /\ UNCHANGED <<attempts, due, earlier, endpointVars, log, received, taskVars>>

\* The operator's own call of it, with a timeout no shorter than the workers';
\* what a shorter one does is what SlowTasks stands for.
RecoverByHand ==
    /\ ReturnStuck
    /\ UNCHANGED worker

-----------------------------------------------------------------------------
(* A worker process: run_once, over and over.                              *)

Recover(w) ==
    /\ worker[w] = "recover"
    /\ ReturnStuck
    /\ worker' = [worker EXCEPT ![w] = "claim"]

\* A wrong form of the next definition: claims what another worker has claimed.
ClaimableAgain ==
    {e \in Events : /\ status[e] \in Queued \cup {"delivering"}
                    /\ e \in due /\ ~Held(e)
                    /\ endpoint[EndpointOf[e]] = "enabled"
                    /\ circuit[EndpointOf[e]] # "open"}

\* Another: the attempt row is inserted after the SELECT, or has no foreign
\* key, so that an open record_failure does not lock the event.
ClaimableWhileHeld ==
    {e \in Events : /\ status[e] \in Queued
                    /\ e \in due
                    /\ endpoint[EndpointOf[e]] = "enabled"
                    /\ circuit[EndpointOf[e]] # "open"}

\* FOR UPDATE OF we SKIP LOCKED: leaves out what an open record_failure holds.
Claimable ==
    {e \in Events : /\ status[e] \in Queued
                    /\ e \in due /\ ~Held(e)
                    /\ endpoint[EndpointOf[e]] = "enabled"
                    /\ circuit[EndpointOf[e]] # "open"}

\* A wrong form of the next definition: takes the LIMIT first, and only then
\* leaves out what may not be delivered.
IsBatchBeforeJoin(B) ==
    \E H \in SUBSET {e \in due : status[e] \in Queued} :
        LET rest == {e \in due : status[e] \in Queued} \ H IN
        /\ Cardinality(H) <= BatchSize
        /\ rest = {} \/ Cardinality(H) = BatchSize
        /\ \A e \in H, f \in rest : <<f, e>> \notin earlier
        /\ B = H \cap Claimable

\* ORDER BY scheduled_at LIMIT batch_size, counted without the rows that are
\* skipped; ties fall either way.
IsBatch(B) ==
    /\ B \subseteq Claimable
    /\ Cardinality(B) <= BatchSize
    /\ B = Claimable \/ Cardinality(B) = BatchSize
    /\ \A e \in B, f \in Claimable \ B : <<f, e>> \notin earlier

\* claim_due_events, and one deliver_event task spawned per claimed row. An
\* empty claim ends the cycle.
Claim(w, B) ==
    /\ worker[w] = "claim"
    /\ IsBatch(B)
    /\ SetStatus(B, "delivering", w)
    /\ task' = [task EXCEPT ![w] =
                   [e \in Events |-> IF e \in B THEN "claimed" ELSE @[e]]]
    /\ worker' = [worker EXCEPT ![w] = IF B = {} THEN "recover" ELSE "deliver"]
    /\ UNCHANGED <<attempts, due, earlier, endpointVars, log, received, snapshot>>

\* join_all: the cycle ends when the last task of the batch has.
Join(w) ==
    /\ worker[w] = "deliver"
    /\ \A e \in Events : task[w][e] = "none"
    /\ worker' = [worker EXCEPT ![w] = "recover"]
    /\ UNCHANGED <<endpointVars, eventVars, log, received, taskVars>>

\* The process dies or loses its database in mid-cycle. Open transactions
\* roll back; rows it has claimed stay in 'delivering'.
Crash(w) ==
    /\ worker[w] # "recover"
    /\ worker' = [worker EXCEPT ![w] = "recover"]
    /\ task' = [task EXCEPT ![w] = [e \in Events |-> "none"]]
    /\ snapshot' = [snapshot EXCEPT ![w] = [e \in Events |-> 0]]
    /\ UNCHANGED <<endpointVars, eventVars, log, received>>

-----------------------------------------------------------------------------
(* deliver_event, one task of one process.                                 *)

AdvanceTask(w, e, phase) ==
    /\ task' = [task EXCEPT ![w][e] = phase]
    /\ UNCHANGED <<snapshot, worker>>

EndTask(w, e) ==
    /\ task' = [task EXCEPT ![w][e] = "none"]
    /\ snapshot' = [snapshot EXCEPT ![w][e] = 0]
    /\ UNCHANGED worker

\* get_endpoint finds the endpoint enabled: its row is the task's from here
\* on, whatever an operator does to it meanwhile.
FetchEndpoint(w, e) ==
    /\ task[w][e] = "claimed"
    /\ endpoint[EndpointOf[e]] = "enabled"
    /\ task' = [task EXCEPT ![w][e] = "sending"]
    /\ snapshot' = [snapshot EXCEPT ![w][e] = maxAttempts[EndpointOf[e]]]
    /\ UNCHANGED <<worker, endpointVars, eventVars, log, received>>

\* It finds the endpoint disabled since the claim.
FindDisabled(w, e) ==
    /\ task[w][e] = "claimed"
    /\ endpoint[EndpointOf[e]] = "disabled"
    /\ AdvanceTask(w, e, "resetting")
    /\ UNCHANGED <<endpointVars, eventVars, log, received>>

\* It finds no endpoint: record_endpoint_deleted. The INSERT of the attempt
\* row fails unless the event is still there, and with it the transaction.
FindDeleted(w, e) ==
    /\ task[w][e] = "claimed"
    /\ ~Registered(EndpointOf[e])
    /\ EndTask(w, e)
    /\ LET dying == {e} \cap {x \in Events : status[x] = "delivering"} IN
       /\ SetStatus(dying, "dead", NoWorker)
       /\ Unschedule(dying)
    /\ LogAttempt(e, "failure")
    /\ UNCHANGED <<endpointVars, attempts, received>>

\* reset_to_pending: a statement of its own, after the look at the endpoint.
ResetToPending(w, e) ==
    /\ task[w][e] = "resetting"
    /\ EndTask(w, e)
    /\ LET back == {e} \cap {x \in Events : status[x] = "delivering"} IN
       /\ SetStatus(back, "pending", NoWorker)
       /\ IF back = {} THEN UNCHANGED scheduleVars ELSE ScheduleNow(back)
    /\ UNCHANGED <<endpointVars, attempts, log, received>>

\* The POST. A consumer may have processed the event although the answer is
\* lost or late, which the task sees as a failure.
Post(w, e, consumed, answer) ==
    /\ task[w][e] = "sending"
    /\ answer = "succeeded" => consumed
    /\ AdvanceTask(w, e, answer)
    /\ received' = IF consumed THEN received \cup {e} ELSE received
    /\ UNCHANGED <<endpointVars, eventVars, log>>

\* record_success. Without the event's row the INSERT of the attempt fails
\* and the transaction rolls back; a row that is no longer 'delivering' is
\* left alone, and then so is the endpoint.
RecordSuccess(w, e) ==
    /\ task[w][e] = "succeeded"
    /\ EndTask(w, e)
    /\ LogAttempt(e, "success")
    /\ \/ /\ status[e] = "delivering"
          /\ SetStatus({e}, "delivered", NoWorker)
          /\ CountAttempt(e)
          /\ Unschedule({e})
          /\ ResetCircuit(EndpointOf[e])
       \/ /\ status[e] # "delivering"
          /\ UNCHANGED <<eventVars, failures, circuit>>
    /\ UNCHANGED <<endpoint, maxAttempts, received>>

\* A wrong form of the next definition: forgets that the failed attempt is not
\* counted yet.
ExhaustsLate(w, e) == attempts[e] >= snapshot[w][e]

\* next_attempts >= endpoint.max_attempts, of the endpoint fetched before.
Exhausts(w, e) == attempts[e] + 1 >= snapshot[w][e]

\* The first half of record_failure: INSERT (uncommitted) and SELECT attempts,
\* which settles what the UPDATE will write.
ReadAttempts(w, e) ==
    /\ task[w][e] = "failed"
    /\ \/ /\ status[e] \in Rows
          /\ AdvanceTask(w, e, IF Exhausts(w, e) THEN "burying" ELSE "retrying")
       \/ /\ status[e] \notin Rows
          /\ EndTask(w, e)
    /\ UNCHANGED <<endpointVars, eventVars, log, received>>

\* The second half, to the commit. The endpoint's counter moves whether or
\* not the guarded UPDATE of the event found it 'delivering'.
RecordFailure(w, e) ==
    /\ task[w][e] \in {"burying", "retrying"}
    /\ EndTask(w, e)
    /\ LogAttempt(e, "failure")
    /\ \/ /\ status[e] = "delivering"
          /\ SetStatus({e}, IF task[w][e] = "burying" THEN "dead" ELSE "failed",
                       NoWorker)
          /\ CountAttempt(e)
          /\ Unschedule({e})
       \/ /\ status[e] # "delivering"
          /\ UNCHANGED eventVars
    /\ CountFailure(EndpointOf[e])
    /\ UNCHANGED <<endpoint, maxAttempts, received>>

\* A database error, a deadlock victim or a panic: the task ends, nothing of
\* its open transaction remains, run_once only logs it.
LoseTask(w, e) ==
    /\ task[w][e] # "none"
    /\ EndTask(w, e)
    /\ UNCHANGED <<endpointVars, eventVars, log, received>>

-----------------------------------------------------------------------------
(* Time.                                                                   *)

Live(e) == \E w \in Workers : task[w][e] # "none"

BackoffElapses(e) ==
    /\ status[e] \in Queued
    /\ e \notin due
    /\ ScheduleNow({e})
    /\ UNCHANGED <<status, attempts, stuck, claimant, endpointVars, log,
                   received, worker, taskVars>>

\* http_timeout is below the stuck timeout, so only a task held up elsewhere
\* (a slow database, a stalled process) is still there when it elapses.
StuckTimeoutElapses(e) ==
    /\ status[e] = "delivering"
    /\ e \notin stuck
    /\ SlowTasks \/ ~Live(e)
    /\ stuck' = stuck \cup {e}
    /\ UNCHANGED <<status, attempts, due, earlier, claimant, endpointVars, log,
                   received, worker, taskVars>>

CircuitElapses(p) ==
    /\ circuit[p] = "open"
    /\ circuit' = [circuit EXCEPT ![p] = "elapsed"]
    /\ UNCHANGED <<endpoint, maxAttempts, failures, eventVars, log, received,
                   worker, taskVars>>

-----------------------------------------------------------------------------
Administer ==
    \/ \E p \in Endpoints, m \in MaxAttemptsValues :
          RegisterEndpoint(p, m) \/ UpdateMaxAttempts(p, m)
    \/ \E p \in Endpoints : Disable(p) \/ Enable(p) \/ DeleteEndpoint(p)
    \/ \E e \in Events : RetryDead(e)
    \/ \E p \in Endpoints : RetryAllDead(p)
    \/ \E s \in {"delivered", "dead"}, S \in SUBSET Events : Cleanup(s, S)
    \/ RecoverByHand

Enqueue ==
    \/ \E e \in Events : Send(e)
    \/ \E S \in SUBSET Events : Broadcast(S)

Cycle(w) ==
    \/ Recover(w)
    \/ \E B \in SUBSET Events : Claim(w, B)
    \/ Join(w)

Deliver(w, e) ==
    \/ FetchEndpoint(w, e)
    \/ FindDisabled(w, e)
    \/ FindDeleted(w, e)
    \/ ResetToPending(w, e)
    \/ \E consumed \in BOOLEAN, answer \in {"succeeded", "failed"} :
          Post(w, e, consumed, answer)
    \/ RecordSuccess(w, e)
    \/ ReadAttempts(w, e)
    \/ RecordFailure(w, e)

Elapse ==
    \/ \E e \in Events : BackoffElapses(e) \/ StuckTimeoutElapses(e)
    \/ \E p \in Endpoints : CircuitElapses(p)

Fail ==
    \/ \E w \in Workers : Crash(w)
    \/ \E w \in Workers, e \in Events : LoseTask(w, e)

Next ==
    \/ Administer
    \/ Enqueue
    \/ \E w \in Workers : Cycle(w)
    \/ \E w \in Workers, e \in Events : Deliver(w, e)
    \/ Elapse
    \/ Fail

Spec == Init /\ [][Next]_vars

\* The run loop never stops, http_timeout ends every POST and time passes.
\* Nothing obliges an operator to act, a producer to send or a process to fail.
Fairness ==
    /\ \A w \in Workers : WF_vars(Cycle(w))
    /\ \A w \in Workers, e \in Events : WF_vars(Deliver(w, e))
    /\ \A e \in Events : WF_vars(BackoffElapses(e)) /\ WF_vars(StuckTimeoutElapses(e))
    /\ \A p \in Endpoints : WF_vars(CircuitElapses(p))

FairSpec == Spec /\ Fairness

-----------------------------------------------------------------------------
(* Properties.                                                             *)

\* A settled row never lacks the evidence for its status: 'delivered' needs a
\* success in the delivery log and a consumer that has really processed the
\* event, 'failed' and 'dead' need a failure in the log, whatever zombies,
\* crashes and requeues came between the POST and the record of it.
OutcomeIsRecorded ==
    \A e \in Events :
        /\ status[e] = "delivered" => "success" \in log[e]
        /\ "success" \in log[e] => e \in received
        /\ status[e] \in {"failed", "dead"} => "failure" \in log[e]
        /\ attempts[e] > 0 => log[e] # {}

\* The two circuit columns of an endpoint agree: circuit_open_until is set
\* exactly from the threshold on, under concurrent successes, failures of
\* zombies and manual resets of the same endpoint.
CircuitFollowsFailures ==
    \A p \in Endpoints : circuit[p] # "closed" <=> failures[p] >= CircuitThreshold

\* Foreign keys: a row has its endpoint, and a record_failure that has its
\* transaction open finds both still there when it goes on to update them.
ForeignKeysHold ==
    \A e \in Events :
        (status[e] \in Rows \/ Held(e)) =>
            /\ status[e] \in Rows
            /\ Registered(EndpointOf[e])

\* What a task knows is true: it delivers an event that was accepted, and a
\* 2xx answer it still has to record is a consumer's that processed the event.
TasksFollowEvents ==
    \A w \in Workers, e \in Events :
        /\ task[w][e] # "none" => status[e] # "unborn"
        /\ task[w][e] = "succeeded" => e \in received

\* While no task outlives the stuck timeout, a task's event, unless deleted,
\* is 'delivering' under that task's own claim: no two workers ever hold one
\* event, and no record_* statement of a task is a zombie's.
ClaimsAreExclusive ==
    ~SlowTasks =>
        \A w \in Workers, e \in Events :
            task[w][e] # "none" /\ status[e] \in Rows =>
                status[e] = "delivering" /\ claimant[e] = w

\* A delivered event is never sent back to the queue nor to the dead-letter
\* queue: no zombie, reaper or operator call takes it anywhere but out.
DeliveredIsFinal ==
    [][\A e \in Events :
           status[e] = "delivered" => status'[e] \in {"delivered", "gone"}]_vars

\* What exclusive claims rest on: the reaper's candidates have no task.
ReaperSparesTasks ==
    ~SlowTasks =>
        \A w \in Workers, e \in Events : task[w][e] # "none" => e \notin stuck

\* A failure that settles its event buries it exactly when it used up the
\* max_attempts that the task was started with. Zombies, requeues and further
\* claims may come between the count that was read and the UPDATE that adds to
\* it: the lock of the attempt row must keep every new claim out meanwhile.
AttemptsAreHonoured ==
    [][\A w \in Workers, e \in Events :
           RecordFailure(w, e) /\ status[e] = "delivering" =>
               /\ attempts'[e] >= snapshot[w][e] => status'[e] = "dead"
               /\ attempts'[e] < snapshot[w][e] => status'[e] = "failed"]_vars

\* No event is ever tried more often than the largest max_attempts, however
\* many zombies record their failure too and whatever an operator sets the
\* max_attempts of the endpoint to under a running delivery.
AttemptsAreBounded ==
    \A e \in Events : \E m \in MaxAttemptsValues : attempts[e] <= m

\* The inductive invariants behind the theorems of DeliveryProofs.
RecordInv ==
    TypeOK /\ TasksFollowEvents /\ OutcomeIsRecorded /\ ForeignKeysHold
ClaimInv ==
    RecordInv /\ ClaimsAreExclusive /\ ReaperSparesTasks

\* While the event is still claimed, an open record_failure has decided what
\* it would decide now.
DecisionsHold ==
    \A w \in Workers, e \in Events :
        status[e] = "delivering" =>
            /\ task[w][e] = "burying" => Exhausts(w, e)
            /\ task[w][e] = "retrying" => ~Exhausts(w, e)

\* While the event is not settled, some max_attempts leaves it an attempt.
Unsettled == Queued \cup {"delivering"}
AttemptsInv ==
    /\ DecisionsHold
    /\ \A e \in Events :
          /\ status[e] = "unborn" => attempts[e] = 0
          /\ status[e] \in Unsettled =>
                attempts[e] = 0 \/ \E m \in MaxAttemptsValues : attempts[e] < m
    /\ AttemptsAreBounded

\* The pipeline implements the abstract at-least-once queue.
QueueState(s) ==
    CASE s = "unborn" -> "absent"
      [] s \in Queued \cup {"delivering"} -> "queued"
      [] s = "gone" -> "removed"
      [] OTHER -> s

Queue == INSTANCE AtLeastOnce
            WITH state <- [e \in Events |-> QueueState(status[e])]

ImplementsAtLeastOnce == Queue!Spec

\* What can keep an event from settling: an operator or a fault. A step that the
\* worker itself may take, such as an empty claim, is never one of them.
Interferes ==
    \/ \E p \in Endpoints, m \in MaxAttemptsValues : UpdateMaxAttempts(p, m)
    \/ \E p \in Endpoints : Disable(p) \/ RetryAllDead(p)
    \/ \E e \in Events : RetryDead(e)
    \/ \E e \in Events : StuckTimeoutElapses(e) /\ Live(e)
    \/ \E w \in Workers : Crash(w) /\ ~Cycle(w)
    \/ \E w \in Workers, e \in Events : LoseTask(w, e) /\ ~Deliver(w, e)

\* Nothing is stranded: once operators and faults leave the pipeline alone,
\* every queued or claimed event whose endpoint is enabled comes to be
\* delivered, dead or deleted. An endpoint's circuit, a full batch ahead of
\* it, a crashed claimant or a lost task delay it, never for good.
EventuallySettled ==
    (<>[][~Interferes]_vars) =>
        \A e \in Events :
            (status[e] \in Queued \cup {"delivering"})
                ~> \/ status[e] \in {"delivered", "dead", "gone"}
                   \/ endpoint[EndpointOf[e]] = "disabled"
=============================================================================
