# A verification project for webhooksmith

TLA+ models of the webhooksmith outbox library, the TLC configurations that check
them on small instances, and theorems about each of them that TLAPS proves for every
size. `PROJECT.json` maps every definition to the lines of code it
stands for.

## 1. The system

webhooksmith is a library inside an application process. The application registers
endpoints and enqueues events, optionally inside its own database transaction; a
worker in the same or another process claims events from the database, signs and POSTs
them and records the outcome. The consumer at the other end may use the extractors of
webhooksmith-axum or webhooksmith-actix. All coordination on the sending side goes
through the database; there are no messages between its processes and no state in
memory that outlives a batch.

| Component | State | Operations | Interacts through |
|---|---|---|---|
| storage.rs (PostgreSQL) | tables `webhook_endpoints`, `webhook_events`, `webhook_delivery_attempts` | endpoint administration, enqueue, broadcast, claim, record, requeue, recover, clean up | rows and row locks |
| worker.rs | run loop, one task per claimed event | `run_once`, `run`, `run_graceful`, `deliver_event` | storage statements, HTTP, the shutdown future |
| backends/sqlite.rs, sqlite_engine.rs | the same tables; one connection | the same operations, most of them as sequences of statements; events of a batch one after the other | statements |
| circuit breaker (inside storage.rs and sqlite.rs) | `consecutive_failures`, `circuit_open_until` | count, open, elapse, reset | the same transactions |
| idempotent enqueueing (same files) | the unique index on `(endpoint_id, idempotency_key)` | send and broadcast with a key, alone or in the caller's transaction | rows, the caller's transaction |
| event filters (model.rs, storage.rs, sqlite_engine.rs) | `event_filter` | set, clear, update; route a broadcast | columns |
| retry.rs | none | `next_delay` | called by both `record_failure`s |
| signing.rs | none | `sign`, `verify` | called by workers and by consumers |
| axum and actix receivers | the configured secret | a layer or app data, the extractors | the POST of a delivery |
| CLI, admin routers | none | forward | engine calls |

What makes each part correct:

* pipeline: an accepted event is delivered or ends in the dead-letter queue, and its
  status never lies; two workers do not hold one event; `max_attempts` is honoured; a
  delivered event stays delivered; nothing is stranded by a crash.
* circuit breaker and retry delay: both columns agree, durations and delays follow the
  documented tables, and failures keep counting however long an endpoint is down.
* outbox: event and business write are committed together; a key is accepted once.
* loops: a signalled loop drains its batch in bounded time and returns; the reaper of
  one loop leaves the batches of another alone while they are alive.
* filters: a broadcast reaches the subscribers and nobody else.
* signing: what reaches a handler is authentic, recent and well-formed; a refusal names
  what is wrong; after an endpoint was moved or its secret rotated, an event is delivered
  or, if the two sides disagreed for all its attempts, kept among the dead letters.

What is hard about them: several worker processes without any coordinator, a reaper that
may take an event from a task that is still alive, read-then-write sequences under READ
COMMITTED or with no transaction at all, operators acting on the same rows, rows that
vanish by cascade, crashes between a POST and its record, counters that nothing bounds,
timeouts that are compared in one unit and used in another, and two clocks and two
deployments at the ends of a delivery. `PROJECT.json` lists each hazard at its line.

## 2. Modules

| Module | Models | Remarks |
|---|---|---|
| `AtLeastOnce` | the abstract queue: absent, queued, delivered, dead, removed, and what consumers have processed | no workers, attempts or circuits |
| `Delivery` | the pipeline over PostgreSQL | refines `AtLeastOnce` |
| `SqliteDelivery` | the pipeline over SQLite | refines `AtLeastOnce` with one loop and one caller |
| `Backoff` | how long the circuit is opened for, and when an event is retried | real widths: double precision, u64 |
| `Outbox` | keyed enqueueing over both databases | |
| `WorkerLoop` | run loops, shutdown and the reaper's clock of both engines | batches counted, not told apart |
| `EventFilter` | filters, both routing predicates and broadcasts | |
| `Signing` | a signed delivery, both receivers, rotation of secrets | ideal signatures |
| `<Module>Proofs` | theorems about each of the seven models | section 5 |
| `MC*` | instances for TLC | |

### Delivery

One action is one SQL statement or one transaction. `record_failure` is two actions
(`ReadAttempts`, `RecordFailure`): under READ COMMITTED its SELECT of the attempts and
its guarded UPDATE see different snapshots, and it decides on the former. The reaper and
operators may write the row in between. A claim may not: the transaction has inserted
its row of the log before, the foreign key of that row holds FOR KEY SHARE on the event
until the commit, and `FOR UPDATE SKIP LOCKED` passes over it; nor may the row be
deleted. `Held` is that lock. A `deliver_event` task is the phase `task[w][e]`: claimed,
then sending (with the `max_attempts` it has fetched in `snapshot`) or resetting, then
succeeded or failed, then for a failure burying or retrying. `LoseTask` ends a task
anywhere (a database error, a broken deadlock, a panic), `Crash` all tasks of a process.

Time is what the code compares it with: `due` for `scheduled_at <= NOW()`, `earlier`
for the order of `scheduled_at`, `stuck` for a `delivering_since` older than the stuck
timeout, and `closed`, `open`, `elapsed` for `circuit_open_until`. The builder checks
`http_timeout < stuck_timeout`, so a task outlives the stuck timeout only if it is held
up outside its POST. `SlowTasks` says whether that happens: properties of
well-behaved workers are claimed for `~SlowTasks`, the others for both values.
`claimant` and `received` are history: no action reads them in a guard.

### SqliteDelivery

Claiming is `Select`, one `Mark` per id and one `Fetch` per id; retrying is `CheckDead`,
`LookUpEndpoint`, `RetryKnown`, `CloseCircuit`; a broadcast is `BeginBroadcast` and one
`FanOut` per endpoint. `record_success` and `record_failure` are transactions on the
pool's only connection, one action each. Any sequence may stop after any statement
(`FailClaim`, `AbandonCall`, `Crash`, `LoseDelivery`).

### Backoff, Outbox, WorkerLoop, EventFilter, Signing

`Backoff` keeps the count of failures going beyond the threshold, which the two pipelines
stop at: what the count decides there is only the duration. Beside it goes one event
with its attempts and the bounds that `next_delay` draws its retry from. A product that
ends up capped is compared with its cap before it is computed (`Capped`), because
what is beyond the cap may be beyond any word; `Kept` is the factor that a u64 has left
once the other bits are shifted out.

`Outbox` names a row by the call and the try that inserted it. An INSERT over
PostgreSQL waits while the row in its way belongs to an open transaction; over SQLite
the three statements of `enqueue_idempotent` are three actions.

`WorkerLoop` has the statements of a cycle and the look at the shutdown future between
cycles; `Panic` ends one task over PostgreSQL and the whole loop over SQLite. `Tick` is
the clock: `age` is what the reaper compares, `spent` what `http_timeout` and the
`latency` of the statements around a POST bound. A `Timings` record gives the two
timeouts and the length of a second in ticks, so that the builder compares ticks and
the reaper whole seconds.

`EventFilter` has the SQL predicate with LIKE as PostgreSQL evaluates it (a backslash
escapes, because the statement has no ESCAPE clause), the Rust predicate, and the
documented table as the reference (`Covers`). A broadcast is one action over PostgreSQL
and one per row over SQLite; `ever` and `always` are history and say who was subscribed
while it ran; `unheeded` is history and says whose last filter was accepted and is not
the one stored.

`Signing` follows one event: `Fetch` reads the endpoint's url and secret, `Post` signs,
`ReadHeaders` and `ReadBody` are the extractor before and after it waits for the body,
and each crate has its list of checks in its order (`HeaderChecks`, `BodyChecks`). A
signature is the secret it was made with, or "wrong". A `Home` is a pair of a url and a
secret that operators mean; `UpdateEndpoint` writes one, in one statement over
PostgreSQL, in two over SQLite, and `Deploy` restarts a consumer with a secret of its
own. Attempts are counted, so that refusals (`Receive`) and broken connections (`Break`)
may bury the event, which only `RetryDead` brings back; a dead worker's event is taken
back uncounted (`Reclaim`). Claims, backoff and circuits are left to the other modules.

## 3. Runs

A name in the first column is a run of `PROJECT.json`; a "refuted" run ends in a
counterexample to a sentence of the documentation (section 4).

| Run | Instance | States | Shows |
|---|---|---|---|
| races | 1 event, 2 workers, `SlowTasks`, threshold 2, `max_attempts` 1 or 2 | 80,410 | zombies, crashes and operators never make a status lie, never separate the circuit columns, never move a delivered event; `max_attempts` is honoured to the attempt; refines `AtLeastOnce`; the event settles once the faults stop |
| exclusive | 2 events of 1 endpoint, 2 workers, batches of 2, not `SlowTasks` | 452,758 | exclusive claims |
| live | 2 endpoints with an event each, 1 worker, batches of 1 | 74,928 | a disabled or open endpoint at the head of the queue does not block the other, and every event settles |
| sqlite_one_loop | 2 endpoints with an event each, 1 loop, 1 caller, slow batches of 2 | 804,896 | what a batch owns, no POST after a recorded success, refines `AtLeastOnce` |
| sqlite_races | 1 event, 2 loops, 1 caller, slow batches, the reaper by hand | 324,636 | what survives unguarded claims and retries; the event settles once the faults stop |
| sqlite_retries | 1 event, 1 loop, 2 callers | | refuted |
| backoff | all three builds, up to 75 failures in a row, and 75 more after 1000; initial delays of 1, 1000 and 2^31-1 ms, 67 attempts | 119,739 | durations and delays follow the tables, backing off never goes backwards, failures count as long as the arithmetic holds |
| outbox | both databases, with and without cleanups; 2 sends (in transactions over PostgreSQL) and a broadcast, 2 keys, each call made at most twice | 443,770 | no duplicates, answers and business writes match committed rows |
| loops | both engines, 2 loops, batches of 2, at most 2 waiting, 2 pairs of timeouts over PostgreSQL, statements that take no time or a tick | 198,480 | the reaper spares live batches, at most one late batch, a bounded drain, return |
| filters | both databases, one endpoint, every filter over 6 patterns, every event type of up to 3 characters out of 4 and two that cannot be sent | 243,231 | nobody is missed, over PostgreSQL unless the event type has LIKE's escape character; nobody else is reached, over PostgreSQL only without LIKE's characters |
| filter_update | the same instance | | refuted |
| signing | both engines, both crates, 2 consumers, 2 secrets and 3 homes, clocks that agree or differ by more than the tolerance, `max_attempts` 2 | 264,408 | answers are justified, secrets stay with their urls over PostgreSQL, and once both sides agree the event is delivered, or it stays dead until it is retried |

Bounds. One event is enough for everything that concerns a single row, and two
workers are the smallest number that race for it; two events of one endpoint add the
shared counters and circuit, two endpoints the batch, the broadcast and the order of
the queue. A threshold of 1 or 2 replaces 5 and `max_attempts` of 1 and 2 replaces 10,
so that both are reached and can be raised and lowered under a running delivery.
`consecutive_failures` is counted up to the threshold (beyond it only the duration
changes) and, over SQLite, `attempts` up to `AttemptsCap`, which is at least every
`max_attempts`. In `Delivery` attempts need no cap: `AttemptsAreBounded` bounds them.
`MaxTries` and `MaxQueue` bound the calls and the waiting events. `Stretch` and
`LongOutage` bound the failures that `Backoff` follows: 75 passes the 67th and 69th, at
which u64 arithmetic fails, 1000 and 75 more pass the 1029th, at which PostgreSQL's does,
and nothing happens in between. 67 attempts pass the 62 at which `next_delay` stops
shifting and the 64 of a word. In `WorkerLoop` two PostgreSQL timings suffice, one whose
timeouts lie a second apart and one within the same second; ages and drain times are
counted one tick beyond what the properties ask for. In `Signing` a tick is longer than
the tolerance of 300 seconds, so that a request is from the future, fresh or stale, and
it is followed until it is stale on its consumer's clock; two attempts are the fewest of
which a refusal may leave one. The two workers of `exclusive` and the two sends of
`outbox` are symmetric; runs of liveness properties do not use symmetry.

`Outbox`, `Backoff`, `WorkerLoop`, `EventFilter` and `Signing` choose the database, the
build, the engine or the crate in the initial state and keep it.

Deadlock is checked except for `Outbox`, where the application stops after `MaxTries`,
`WorkerLoop`, where both loops may have returned, and `Backoff`, where a panic may have
ended the loop.

Fairness. `Cycle`, `Deliver` and, over SQLite, `Claim` are weakly fair: the loops
never stop, `http_timeout` ends every POST, and statements return or fail. Backoffs,
the stuck timeout and open circuits elapse, because time passes. Nothing obliges an
operator, a producer, a caller or a fault to act. `EventuallySettled` is about
behaviours in which operators and faults eventually leave the pipeline alone, since
an endpoint that is disabled and enabled for ever, or a task that is lost every time,
keeps an event unsettled in the real system as well; what they leave behind until
then is arbitrary. A step that the worker could have taken by itself never counts as a
fault (an empty claim looks like a crash: both leave the process where it began), so
an idling worker does not escape the property. `ReturnsAfterSignal` has no such premise.
In `Signing` the steps of the worker and of the consumer are weakly fair for the same
reasons. `EventuallyDelivered` assumes that both sides agree from some moment on and
that updates, broken connections, dead workers, spoilt and slow requests stop: a consumer
with another secret refuses in the real system too, until the attempts are used up.
Nothing obliges an operator to retry a dead letter, so the event may stay one; the
property says that one retry is then enough.

## 4. Where code and documentation part

Refuted by a run:

* sqlite_retries: `retry_dead` over SQLite is not atomic; a second call resets an event
  that is pending, delivering or delivered.
* filter_update: `update_endpoint` over SQLite returns Ok and drops `event_filter`
  (model.rs:293-294 says that it sets or clears the filter). The other properties of
  `EventFilter` are about the filter that is stored.

Modelled, and a limit that the wording of a property names:

* A task whose event was taken back still counts its failure against the endpoint and
  may open the circuit (storage.rs:549; the comment at 513 calls zombies no-ops), and a
  success recorded that late does not reset the counter (model.rs:28 says any success
  does). `CircuitFollowsFailures` relates the two columns only.
* Two run loops over SQLite claim and deliver the same event: sqlite.rs:452 marks by id.
  `BatchIsOwned`, `NoPostAfterSuccess` and the refinement are claimed for one loop.
* PostgreSQL computes the power of two before it caps it. From the 1029th failure in a
  row it refuses the UPDATE, and `record_failure` rolls back for good; SQLite's u64
  arithmetic overflows from the 67th on, which panics and ends the run loop with
  overflow checks, and opens the circuit for 0 minutes from the 69th without. The
  bounds in `EveryFailureCounts` say so, and `Wrapped` in `DurationsFollowTable` and
  `BacksOff`. An open circuit that elapses releases a batch of up to 50 events, so these
  counts are days away for an endpoint that is down, not years.
* The builder compares durations, the reaper whole seconds: `http_timeout` below
  `stuck_timeout` (engine.rs:96) does not keep the reaper from a live batch when both lie
  within one second, nor when the statements around the POST are slow, nor over SQLite,
  where a batch takes its POSTs one after the other. The premise of
  `ReaperSparesLiveBatches` is what is really needed.
* A signalled loop over SQLite finishes up to 50 POSTs of up to 30 s: `DrainIsBounded`.
* A failed update over SQLite may leave the url of one consumer with the secret of
  another, and deliveries in between go out so: `SecretFollowsUrl` is about PostgreSQL.
  `EventuallyDelivered` holds over both: a refused event is tried again until
  `max_attempts` is reached. Then it is dead and not retried automatically
  (webhooksmith/README.md:446), so a disagreement that outlasts the attempts takes an
  operator's `retry_dead` to make good.
* axum answers 413 to every error of `to_bytes` (axum lib.rs:195), also to a body that
  breaks off and is not too large; actix answers that 400. `NamesADefect` has the
  exception, and the documents list a body that breaks off for neither crate.
* The axum crate checks the age of the timestamp with the signature only, actix before
  the body as well; actix looks for JSON before the signature, so that a spoilt body is
  answered 422 by one and 401 by the other. `AnswersNameADefect` allows each order.
* Filters are validated at registration only; docs/05-event-filtering.md says
  "registration/update time".
* Cleaning up an event forgets its idempotency key: `~cleanups` in `NeverDuplicates`.
* A signal during `run_once` does not stop the claim of that cycle (worker.rs:191 says it
  does): hence at most one late batch, not none.
* `_`, `%` and `\` in a wildcard pattern keep their meaning in PostgreSQL's LIKE, and
  `validate_event_filter` lets them through: a filter `a\.*` is sent `a.x` instead of
  `a\.x`. Hence `HasLikeCharacter` in `OnlySubscribers` and the premise of
  `SubscribersReached`.

## 5. What is proved

Each model has its theorems in a module of its own. They hold for any sets of
endpoints, events, keys, patterns and so on and any values of the parameters, under
the assumption that the model's module states.

| Module | Theorem | States |
|---|---|---|
| `DeliveryProofs` | `TypeCorrect` | `TypeOK` |
| | `OutcomesRecorded` | `OutcomeIsRecorded` |
| | `ForeignKeys` | `ForeignKeysHold` |
| | `CircuitConsistent` | `CircuitFollowsFailures` |
| | `ExclusiveClaims` | `ClaimsAreExclusive` |
| | `AttemptsHonoured` | `AttemptsAreHonoured` |
| | `AttemptsBounded` | `AttemptsAreBounded` |
| | `DeliveredStays` | `DeliveredIsFinal` |
| | `AtLeastOnceImplemented` | `ImplementsAtLeastOnce` |
| `SqliteDeliveryProofs` | `TypeCorrect` | `TypeOK` |
| | `ForeignKeys` | `ForeignKeysHold` |
| | `CircuitAgrees` | `CircuitFollowsFailures` |
| | `OutcomesRecorded` | `OutcomeIsRecorded` |
| | `BatchOwned` | `BatchIsOwned`, if `OneOfEach` |
| | `NeverPostedAgain` | `NoPostAfterSuccess`, if `OneOfEach` |
| | `AtLeastOnceImplemented` | `ImplementsAtLeastOnce`, if `OneOfEach` |
| `OutboxProofs` | `TypeCorrect` | `TypeOK` |
| | `AnswersCommitted` | `AnswersAreCommitted` |
| | `OutboxAtomic` | `WrittenTogether` |
| | `KeysAcceptedOnce` | `NeverDuplicates` |
| `WorkerLoopProofs` | `TypeCorrect` | `TypeOK` |
| | `LiveBatchesSpared` | `ReaperSparesLiveBatches` |
| | `OneLateBatch` | `AtMostOneLateBatch` |
| | `BoundedDrain` | `DrainIsBounded` |
| `SigningProofs` | `TypeCorrect` | `TypeOK` |
| | `SecretsFollow` | `SecretFollowsUrl` |
| | `AnswersJustified` | `AnswersNameADefect` |
| `EventFilterProofs` | `TypeCorrect` | `TypeOK` |
| | `NobodyMissed` | `SubscribersReached` |
| | `NobodyElseReached` | `OnlySubscribers` |
| `BackoffProofs` | `TypeCorrect` | `TypeOK` |
| | `DurationsCorrect` | `DurationsFollowTable` |
| | `DelaysCorrect` | `DelaysFollowTable` |
| | `BackingOff` | `BacksOff` |
| | `FailuresCount` | `EveryFailureCounts` |

Most of these properties are not inductive. What each proof adds, and why:

* `Delivery`. `RecordInv` joins `TypeOK`, `TasksFollowEvents`, `OutcomeIsRecorded` and
  `ForeignKeysHold`: that a `delivered` row has a success in its log is lost without
  knowing that a task in phase "succeeded" has had a consumer process the event, and
  that the row an open `record_failure` goes on to update still exists. `ClaimInv` adds
  `ClaimsAreExclusive` and `ReaperSparesTasks`: exclusiveness alone is lost in the next
  step unless the rows the reaper takes have no task. `AttemptsInv` adds
  `DecisionsHold`, that what an open `record_failure` has read is still true if its
  guarded UPDATE finds the row: requeueing takes the row away from 'delivering', only a
  claim brings it back, and the lock of the open transaction keeps claims off. With it,
  and as an event that is not settled (`Unsettled`) has an attempt left by some
  `max_attempts`, zombies cannot count beyond it.
* `SqliteDelivery`. `SettledInv` adds to the types what the sequences of statements
  have read: `BatchesFollowSteps` and `BatchesWereQueued` for the run loops,
  `CallsHaveTheirEvent` for the callers, and `EvidenceIsAtHand` between a POST and its
  record. `OneLoopInv` carries what does not survive a second loop: no event is twice
  in a batch, a `retry_dead` still finds the event dead that it found dead, and a
  success in the log settles. Its premise `OneOfEach` is that there is one loop and one
  caller and that nobody runs the reaper by hand; section 4 says what goes wrong
  otherwise, and the run sqlite_races checks what is left.
* `Outbox`. `OutboxInv` relates the program counter of a call to the rows it has
  inserted (`CallsFollowSteps`) and says that the index is unique also among
  uncommitted rows (`RowsAreUnique`).
* `WorkerLoop`. `LoopInv` bounds the age of a delivery and the time spent on a batch by
  the deliveries that have not ended (`AgesFollowDeliveries`,
  `DrainsFollowDeliveries`), and says that a loop that was signalled at a batch stops
  behind it (`LateLoopsStop`).
* `Signing`. `SigningInv` says of the endpoint's row and of what a worker has fetched
  from it that url and secret were meant for each other (`PairsAreMeant`), and of a
  request between its headers and its body that the former have passed their
  checks (`HeadersAreRead`).
* `EventFilter`. `CallInv` says that whoever was subscribed all along has an event or
  is still on the list, and that whoever is on the list was subscribed when it was
  made. The steps need that both predicates agree with `Covers` on all strings, which
  the lemmas on prefixes, stems and LIKE say. That LIKE's cut into pieces has no gaps
  (`NoGaps`) is an induction over an index, done on the least counterexample
  (`WFMin` and `NatLessThanWellFounded`).
* `Backoff`. `BackoffInv` says that the two pauses are those of the counts, and that a
  debug build does not get beyond its arithmetic (`PausesFollowCounts`). The rest is
  arithmetic: the documented tables double step by step, the code takes a power of two,
  and `DoubledIsCapped` shows by the least counterexample that both agree for any first
  value and any number of steps. Induction on the definition of powers is out of reach,
  so `Powers` lists those below the largest cap; beyond them the cap decides.

Assumptions on constants that only proofs need: there is a value for the `max_attempts`
of `Delivery`, which `AttemptsAreBounded` needs; the outage that `Backoff` may start in
has opened the circuit (`LongOutage >= Threshold`); events and loops are finitely many
where a batch is turned into a sequence or deliveries are summed up; in `Signing` a
secret is not one of the markers for none, a missing and a wrong one, and among the
differences of the clocks there is a smallest one, up to which ages are counted. All of
them hold of any real deployment, and TLC evaluates them for every instance.

Only model-checked:

* liveness (`EventuallySettled`, `ReturnsAfterSignal`, `EventuallyDelivered`): fairness
  and ENABLED are out of the prover's reach;
* the two refuted sentences of section 4, which are counterexamples.

## 6. Not modelled, and the plan

Not modelled:

* description of an endpoint, wording of log rows, the optional headers of a request:
  nothing depends on them.
* the validation of urls and the DNS resolver's address rules: stateless predicates
  whose refusal is an error of the call or a failed POST.
* statistics, listings and admin routes that read: nothing in the library acts on them.
  Over SQLite the five counts of `queue_stats` belong to five moments, and paging by
  offset shifts when events move between two pages; no document promises otherwise.
* the CLI and the other admin routes: they forward to calls that are modelled.
* examples, migrations and start-up.
* lock waits: a broken deadlock is a statement that fails.

What remains:

* Composition: the rows of `Outbox` as the input of `Delivery`, and the loops of
  `Delivery` with the clocks of `WorkerLoop` in place of `SlowTasks`.
