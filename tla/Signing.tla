------------------------------ MODULE Signing ------------------------------
(***************************************************************************)
(* A signed delivery from the endpoint's row to the consumer's handler:    *)
(* the worker signs with the secret it has fetched, at its own clock, and  *)
(* the extractor of webhooksmith-axum or webhooksmith-actix checks headers *)
(* first, the body and the signature when the body is complete, at its own *)
(* clock. Meanwhile the endpoint is updated, field by field over SQLite,   *)
(* consumers are redeployed with other secrets, and a proxy may spoil a    *)
(* request. The signature scheme is ideal: a signature stands for the      *)
(* secret under which it is right for the timestamp and the body. Attempts *)
(* are counted, because a disagreement of the two sides may use them up;   *)
(* claims, backoff and circuits are left to Delivery.tla and Backoff.tla.  *)
(***************************************************************************)
EXTENDS Integers, SequencesExt

CONSTANTS
    Urls,
    Secrets,
    Homes,       \* pairs of a url and a secret that operators mean
    Typed,       \* urls whose handler takes a TypedWebhook
    NoSecret,    \* of a consumer whose secret is not configured
    None,        \* no request under way, no update in progress
    MaxAttempts, \* max_attempts of the endpoint
    Tolerance,   \* MAX_TIMESTAMP_AGE_SECS and TIMESTAMP_TOLERANCE_SECS, in ticks
    Skews        \* how far the consumers' clocks may be from the worker's

VARIABLES
    setup,       \* engine, framework of the consumers, their clocks' skew
    row,         \* url and signing_secret of the endpoint
    update,      \* update_endpoint over SQLite: the pair it writes, what is next
    configured,  \* the secret each consumer was started with
    event,       \* its payload, status and attempts, what was fetched to deliver it
    request      \* the POST under way

rows == <<row, update>>
vars == <<setup, rows, configured, event, request>>

\* JSON that deserializes into T, any other JSON, more than MAX_BODY_BYTES of it,
\* what is not JSON, and what breaks off before its end. A payload beyond that
\* limit is never enqueued.
Bodies == {"T", "json", "large", "text", "broken"}
Payloads == {"T", "json"}

\* Stale on every clock; older makes no difference.
MaxAge == Tolerance + 1 - Min(Skews \cup {0})

SetupValues ==
    [engine : {"postgres", "sqlite"}, framework : {"axum", "actix"}, skew : Skews]
Events ==
    [body : Payloads, status : {"queued", "fetched", "sent", "delivered", "dead"},
     attempts : 0..MaxAttempts, endpoint : (Urls \X Secrets) \cup {None}]
Updates == [to : Homes, next : {"url", "secret"}]
Answers == [answer : {200, 400, 401, 413, 422, 500}]
Requests ==
    [url : Urls, timestamp : {"given", "missing"}, age : 0..MaxAge,
     signature : Secrets \cup {"missing", "wrong"}, body : Bodies,
     reading : BOOLEAN, secret : Secrets \cup {NoSecret}, wasStale : BOOLEAN]

\* Of any number of consumers' clocks, one is the furthest behind.
ASSUME SigningAssumption ==
    /\ Homes \subseteq Urls \X Secrets
    /\ Typed \subseteq Urls
    /\ Secrets \cap {NoSecret, "missing", "wrong"} = {}
    /\ None \notin Updates \cup Answers \cup Requests \cup (Urls \X Secrets)
    /\ MaxAttempts \in Nat \ {0}
    /\ Tolerance \in Nat /\ Skews \subseteq Int
    /\ \E s \in Skews \cup {0} : \A t \in Skews \cup {0} : s <= t

TypeOK ==
    /\ setup \in SetupValues
    /\ row \in Urls \X Secrets
    /\ update \in Updates \cup {None}
    /\ configured \in [Urls -> Secrets \cup {NoSecret}]
    /\ event \in Events
    /\ event.status \in {"queued", "fetched", "sent"} => event.attempts < MaxAttempts
    /\ (event.status = "fetched") = (event.endpoint # None)
    /\ (event.status = "sent") = (request # None)
    /\ request \in Requests \cup Answers \cup {None}

Init ==
    /\ setup \in SetupValues
    /\ row \in Homes
    /\ update = None
    /\ configured = [u \in Urls |-> NoSecret]
    /\ event \in [body : Payloads, status : {"queued"}, attempts : {0},
                  endpoint : {None}]
    /\ request = None

-----------------------------------------------------------------------------
(* Operators of the two sides.                                             *)

\* A wrong form of the next definition: two statements over PostgreSQL too.
UpdateByField(to) ==
    /\ update = None
    /\ update' = [to |-> to, next |-> "url"]
    /\ UNCHANGED <<row, configured, event, request>>

\* update_endpoint: one statement over PostgreSQL, one per field over SQLite.
UpdateEndpoint(to) ==
    /\ update = None
    /\ IF setup.engine = "postgres"
       THEN row' = to /\ UNCHANGED update
       ELSE update' = [to |-> to, next |-> "url"] /\ UNCHANGED row
    /\ UNCHANGED <<configured, event, request>>

\* The next statement of update_endpoint_field.
WriteField ==
    /\ update # None
    /\ IF update.next = "url"
       THEN row' = <<update.to[1], row[2]>> /\ update' = [update EXCEPT !.next = "secret"]
       ELSE row' = <<row[1], update.to[2]>> /\ update' = None
    /\ UNCHANGED <<configured, event, request>>

\* A statement fails, or the caller's process dies.
AbandonUpdate ==
    /\ update # None
    /\ update' = None
    /\ UNCHANGED <<row, configured, event, request>>

\* A consumer is deployed with a secret that is meant for it, or without one. A
\* request that its old process has begun to read is still answered, or breaks.
Deploy(u) ==
    /\ \E secret \in {NoSecret} \cup {s \in Secrets : <<u, s>> \in Homes} :
          configured' = [configured EXCEPT ![u] = secret]
    /\ UNCHANGED <<rows, event, request>>

-----------------------------------------------------------------------------
(* deliver_event, as far as signing goes.                                  *)

Becomes(status) == event' = [event EXCEPT !.status = status, !.endpoint = None]

\* A wrong form of the next definition: an endpoint that has not just been
\* updated is taken from a cache.
FetchCached ==
    /\ event.status = "queued"
    /\ \E endpoint \in Homes :
          event' = [event EXCEPT !.status = "fetched", !.endpoint = endpoint]
    /\ UNCHANGED <<rows, configured, request>>

\* get_endpoint: one row, read before every attempt.
Fetch ==
    /\ event.status = "queued"
    /\ event' = [event EXCEPT !.status = "fetched", !.endpoint = row]
    /\ UNCHANGED <<rows, configured, request>>

\* sign and send.
Post ==
    /\ event.status = "fetched"
    /\ request' = [url |-> event.endpoint[1], timestamp |-> "given", age |-> 0,
                   signature |-> event.endpoint[2], body |-> event.body,
                   reading |-> FALSE, secret |-> NoSecret, wasStale |-> FALSE]
    /\ Becomes("sent")
    /\ UNCHANGED <<rows, configured>>

InFlight == request # None /\ "answer" \notin DOMAIN request
Answered == request # None /\ "answer" \in DOMAIN request

\* record_success and record_failure count the attempt, ...
RecordOutcome(status) ==
    event' = [event EXCEPT !.status = status, !.attempts = @ + 1]

\* ... and the last one that fails buries the event.
AfterFailure == IF event.attempts + 1 >= MaxAttempts THEN "dead" ELSE "queued"

\* The worker has the answer. Outside 2xx the attempt has failed, and the next
\* one signs afresh.
Receive ==
    /\ Answered
    /\ RecordOutcome(IF request.answer \in 200..299 THEN "delivered" ELSE AfterFailure)
    /\ request' = None
    /\ UNCHANGED <<rows, configured>>

\* A wrong form of the next definition: the consumer goes on unnoticed.
BreakOneSide ==
    /\ event.status = "sent"
    /\ RecordOutcome(AfterFailure)
    /\ UNCHANGED <<rows, configured, request>>

\* The connection breaks or http_timeout passes before the worker has the answer:
\* a failed attempt. A consumer drops the request of a connection that is gone;
\* one that has answered has processed it in vain.
Break ==
    /\ event.status = "sent"
    /\ RecordOutcome(AfterFailure)
    /\ request' = None
    /\ UNCHANGED <<rows, configured>>

\* The worker dies or its database fails it, and the reaper takes the event back:
\* no attempt is counted.
Reclaim ==
    /\ event.status \in {"fetched", "sent"}
    /\ Becomes("queued")
    /\ request' = None
    /\ UNCHANGED <<rows, configured>>

\* retry_dead: an operator gives a dead letter all its attempts again.
RetryDead ==
    /\ event.status = "dead"
    /\ event' = [event EXCEPT !.status = "queued", !.attempts = 0]
    /\ UNCHANGED <<rows, configured, request>>

\* A proxy on the way drops a header, rewrites or pads the body, or breaks it off.
Spoil ==
    /\ InFlight /\ ~request.reading
    /\ request.timestamp = "given" /\ request.signature \in Secrets
    /\ \/ request' = [request EXCEPT !.timestamp = "missing"]
       \/ request' = [request EXCEPT !.signature = "missing"]
       \/ \E body \in Bodies \ {"T"} :
             request' = [request EXCEPT !.signature = "wrong", !.body = body]
    /\ UNCHANGED <<rows, configured, event>>

-----------------------------------------------------------------------------
(* The extractors.                                                         *)

Stale(r) == r.age + setup.skew \notin -Tolerance..Tolerance

\* A wrong form of the next definition: trusts the look at the clock that was
\* taken before the body.
VerifyOnce(r) == ~r.wasStale /\ r.signature = r.secret

\* signing::verify, with its own look at the clock.
Verify(r) == ~Stale(r) /\ r.signature = r.secret

\* Whether a check of extract_and_verify, or of the extractor after it, refuses
\* the request. axum takes every error of to_bytes for a body that is too large.
Refuses(check, r) ==
    CASE check = "MissingSecret"    -> r.secret = NoSecret
      [] check = "MissingTimestamp" -> r.timestamp = "missing"
      [] check = "MissingSignature" -> r.signature = "missing"
      [] check = "StaleTimestamp"   -> Stale(r)
      [] check = "BodyReadError"    -> r.body = "broken"
      [] check = "BodyTooLarge"     -> \/ r.body = "large"
                                       \/ r.body = "broken" /\ setup.framework = "axum"
      [] check = "InvalidSignature" -> ~Verify(r)
      [] check = "InvalidBody"      -> r.body = "text"
      [] check = "WrongType"        -> r.url \in Typed /\ r.body # "T"

StatusOf ==
    [MissingSecret |-> 500, MissingTimestamp |-> 400, MissingSignature |-> 401,
     StaleTimestamp |-> 401, BodyReadError |-> 400, BodyTooLarge |-> 413,
     InvalidSignature |-> 401, InvalidBody |-> 422, WrongType |-> 422]

\* The checks of each crate before and after the body is read, in their order.
HeaderChecks ==
    [axum  |-> <<"MissingSecret", "MissingTimestamp", "MissingSignature">>,
     actix |-> <<"MissingSecret", "MissingSignature", "MissingTimestamp",
                 "StaleTimestamp">>]

BodyChecks ==
    [axum  |-> <<"BodyTooLarge", "InvalidSignature", "InvalidBody", "WrongType">>,
     actix |-> <<"BodyReadError", "BodyTooLarge", "InvalidBody", "InvalidSignature",
                 "WrongType">>]

\* The status of the first check that refuses, or 200.
Verdict(checks, r) ==
    LET i == SelectInSeq(checks, LAMBDA check : Refuses(check, r))
    IN  IF i = 0 THEN 200 ELSE StatusOf[checks[i]]

\* The secret is cloned, then the headers are looked at.
WithSecret(r) ==
    [r EXCEPT !.reading = TRUE, !.secret = configured[r.url], !.wasStale = Stale(r)]

\* extract_and_verify up to the body.
ReadHeaders ==
    /\ InFlight /\ ~request.reading
    /\ LET r      == WithSecret(request)
           answer == Verdict(HeaderChecks[setup.framework], r)
       IN  request' = IF answer = 200 THEN r ELSE [answer |-> answer]
    /\ UNCHANGED <<rows, configured, event>>

\* The body is complete, too long or broken off: the rest of it, and the handler's answer.
ReadBody ==
    /\ InFlight /\ request.reading
    /\ request' = [answer |-> Verdict(BodyChecks[setup.framework], request)]
    /\ UNCHANGED <<rows, configured, event>>

-----------------------------------------------------------------------------
Tick ==
    /\ InFlight
    /\ request.age + setup.skew <= Tolerance
    /\ request' = [request EXCEPT !.age = @ + 1]
    /\ UNCHANGED <<rows, configured, event>>

Operate ==
    \/ \E to \in Homes : UpdateEndpoint(to)
    \/ WriteField \/ AbandonUpdate
    \/ \E u \in Urls : Deploy(u)

Step == Fetch \/ Post \/ ReadHeaders \/ ReadBody \/ Receive

Next ==
    /\ Operate \/ Step \/ Break \/ Reclaim \/ RetryDead \/ Spoil \/ Tick
    /\ UNCHANGED setup

Spec == Init /\ [][Next]_vars

\* The worker goes on with its deliveries, and consumers with their requests.
FairSpec == Spec /\ WF_vars(Step /\ UNCHANGED setup)

-----------------------------------------------------------------------------
(* Properties.                                                             *)

\* What the tables of docs/04-receiving-webhooks.md and of the two READMEs list
\* as wrong with a request, and, in none of them, a body that breaks off.
Defects(r) ==
    {d \in DOMAIN StatusOf :
        CASE d = "MissingSecret"    -> r.secret = NoSecret
          [] d = "MissingTimestamp" -> r.timestamp = "missing"
          [] d = "MissingSignature" -> r.signature = "missing"
          [] d = "StaleTimestamp"   -> r.timestamp = "given" /\ Stale(r)
          [] d = "BodyReadError"    -> r.body = "broken"
          [] d = "BodyTooLarge"     -> r.body = "large"
          [] d = "InvalidSignature" -> r.signature \notin {r.secret, "missing"}
          [] d = "InvalidBody"      -> r.body = "text"
          [] d = "WrongType"        -> r.url \in Typed /\ r.body # "T"}

\* What an answer says of the request it is an answer to. Only axum's 413 to a
\* body that breaks off does not say what is wrong with it.
NamesADefect(r, answer) ==
    LET early == IF r.wasStale THEN {"StaleTimestamp"} ELSE {}
    IN  IF answer = 200 THEN Defects(r) = {}
        ELSE \/ \E d \in Defects(r) \cup early : answer = StatusOf[d]
             \/ answer = 413 /\ r.body = "broken" /\ setup.framework = "axum"

\* In whatever order a crate looks for them, and however long the body takes, a
\* request reaches the handler only if nothing is wrong with it at that moment,
\* and is refused only with the status of something that is, or that was when
\* its headers were read (but for what axum answers to a body that breaks off). So
\* the two crates accept the same requests.
AnswersNameADefect ==
    [][InFlight /\ Answered' =>
          NamesADefect(IF request.reading THEN request ELSE WithSecret(request),
                       request'.answer)]_vars

\* No delivery over PostgreSQL goes to one consumer with the secret meant for
\* another, whenever the endpoint is moved under it. (Over SQLite one may, while
\* an update is in progress or after one that stopped halfway.)
SecretFollowsUrl ==
    setup.engine = "postgres" /\ InFlight =>
        (request.signature \in Secrets => <<request.url, request.signature>> \in Homes)

\* The inductive invariants behind the theorems of SigningProofs: over PostgreSQL
\* the worker only ever sees pairs that were meant, and a consumer reads the body
\* of a request only if its headers are complete and it has a secret itself.
PairsAreMeant ==
    setup.engine = "postgres" =>
        /\ update = None /\ row \in Homes
        /\ event.status = "fetched" => event.endpoint \in Homes

HeadersAreRead ==
    InFlight /\ request.reading =>
        /\ request.secret # NoSecret
        /\ request.timestamp = "given" /\ request.signature # "missing"

SigningInv == TypeOK /\ PairsAreMeant /\ SecretFollowsUrl /\ HeadersAreRead

\* The secret the endpoint has is the one its consumer has, their clocks are
\* close enough, and the payload is one the consumer takes.
InAgreement ==
    /\ configured[row[1]] = row[2]
    /\ setup.skew \in -Tolerance..Tolerance
    /\ event.body = "T" \/ (event.body = "json" /\ row[1] \notin Typed)

\* Moving an endpoint or rotating its secret loses nothing for good, in whatever
\* order the two sides are changed and wherever an update stops: once they agree,
\* and deliveries are no longer disturbed or slow, the event is delivered, unless
\* the disagreement has outlasted its attempts. Then it stays in the dead-letter
\* queue until an operator retries it, and that is enough.
EventuallyDelivered ==
    <>[]InAgreement /\ <>[][~((Operate \/ Break \/ Reclaim \/ Spoil \/ Tick) /\ ~Step)]_vars
        => <>(event.status = "delivered") \/ <>[](event.status = "dead")
=============================================================================
