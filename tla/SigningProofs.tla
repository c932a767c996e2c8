---------------------------- MODULE SigningProofs ----------------------------
(***************************************************************************)
(* Proofs about Signing, for any number of consumers and secrets, any      *)
(* meant pairs of them, any tolerance and any skew of the clocks.          *)
(***************************************************************************)
EXTENDS Signing, SequenceTheorems, TLAPS

USE SigningAssumption DEF SigningAssumption

-----------------------------------------------------------------------------
(* Requests and answers.                                                   *)

\* There is an age at which a request is stale on every clock, and none is older.
LEMMA AgeBound ==
    /\ MaxAge \in Nat
    /\ \A skew \in Skews, age \in Nat : age + skew <= Tolerance => age + 1 \in 0..MaxAge
<1> DEFINE S == Skews \cup {0}
<1>1. PICK m : m = Min(S)
    OBVIOUS
<1>2. m \in S /\ \A t \in S : m <= t
    BY <1>1 DEF Min
<1>3. S \subseteq Int /\ 0 \in S
    OBVIOUS
<1> HIDE DEF S
<1>4. m \in Int /\ m <= 0
    BY <1>2, <1>3
<1>5. MaxAge = Tolerance + 1 - m
    BY <1>1 DEF MaxAge, S
<1>6. ASSUME NEW skew \in Skews, NEW age \in Nat, age + skew <= Tolerance
      PROVE  age + 1 \in 0..MaxAge
    <2>1. skew \in Int /\ m <= skew
        BY <1>2 DEF S
    <2> QED BY <1>4, <1>5, <1>6, <2>1
<1> QED BY <1>4, <1>5, <1>6

\* A request and its answer are told apart by their fields.
LEMMA RequestKinds ==
    /\ \A r \in Requests : "answer" \notin DOMAIN r /\ r # None
    /\ \A r \in Answers : "answer" \in DOMAIN r /\ r # None
  BY DEF Requests, Answers

\* So what is in flight is a request, and what is answered an answer.
LEMMA RequestTypes ==
    ASSUME TypeOK
    PROVE  /\ InFlight <=> request \in Requests
           /\ Answered <=> request \in Answers
  BY RequestKinds DEF TypeOK, InFlight, Answered

\* A verdict other than 200 is the status of a check that refuses.
LEMMA Verdicts ==
    ASSUME NEW r, NEW checks \in Seq(DOMAIN StatusOf), Len(checks) <= 5
    PROVE  \/ /\ Verdict(checks, r) = 200
              /\ \A i \in 1..Len(checks) : ~Refuses(checks[i], r)
           \/ \E i \in 1..Len(checks) :
                 Refuses(checks[i], r) /\ Verdict(checks, r) = StatusOf[checks[i]]
<1> DEFINE I == {i \in 1..Len(checks) : Refuses(checks[i], r)}
<1>1. SelectInSeq(checks, LAMBDA check : Refuses(check, r)) = IF I # {} THEN Min(I) ELSE 0
    BY DEF SelectInSeq
<1>2. I # {} => Min(I) \in I
    <2>1. Len(checks) \in {0, 1, 2, 3, 4, 5}
        <3>1. \A n \in Nat : n <= 5 => n \in {0, 1, 2, 3, 4, 5}
            OBVIOUS
        <3> QED BY <3>1, LenProperties
    <2>2. I \subseteq {1, 2, 3, 4, 5}
        BY <2>1
    <2> HIDE DEF I
    <2>3. ASSUME I # {} PROVE \E x \in I : \A y \in I : x <= y
        <3>1. CASE 1 \in I
            BY <2>2, <3>1
        <3>2. CASE 1 \notin I /\ 2 \in I
            BY <2>2, <3>2
        <3>3. CASE I \subseteq {3, 4, 5} /\ 3 \in I
            BY <3>3
        <3>4. CASE I \subseteq {4, 5} /\ 4 \in I
            BY <3>4
        <3>5. CASE I \subseteq {5}
            <4>1. I = {5}
                BY <2>3, <3>5
            <4> QED BY <4>1
        <3> QED BY <2>2, <3>1, <3>2, <3>3, <3>4, <3>5
    <2> QED BY <2>3 DEF Min
<1>3. I \subseteq 1..Len(checks) /\ 0 \notin I
    OBVIOUS
<1>4. CASE I = {}
    BY <1>1, <1>4 DEF Verdict
<1>5. CASE I # {}
    BY <1>1, <1>2, <1>3, <1>5 DEF Verdict
<1> QED BY <1>4, <1>5

\* A verdict of checks in a row, first to last.
LEMMA ThreeChecks ==
    ASSUME NEW r, NEW a \in DOMAIN StatusOf, NEW b \in DOMAIN StatusOf,
           NEW c \in DOMAIN StatusOf
    PROVE  \/ /\ Verdict(<<a, b, c>>, r) = 200
              /\ \A check \in {a, b, c} : ~Refuses(check, r)
           \/ \E check \in {a, b, c} :
                 Refuses(check, r) /\ Verdict(<<a, b, c>>, r) = StatusOf[check]
<1> DEFINE s == <<a, b, c>>
<1>1. s \in Seq(DOMAIN StatusOf) /\ Len(s) = 3 /\ s[1] = a /\ s[2] = b /\ s[3] = c
    OBVIOUS
<1> HIDE DEF s
<1>2. \A i \in 1..Len(s) : s[i] \in {a, b, c}
    BY <1>1
<1>3. 1 \in 1..Len(s) /\ 2 \in 1..Len(s) /\ 3 \in 1..Len(s)
    BY <1>1
<1>4. \/ Verdict(s, r) = 200 /\ \A i \in 1..Len(s) : ~Refuses(s[i], r)
      \/ \E i \in 1..Len(s) : Refuses(s[i], r) /\ Verdict(s, r) = StatusOf[s[i]]
    <2>1. Len(s) <= 5
        BY <1>1
    <2> QED BY <1>1, <2>1, Verdicts, Zenon
<1>5. CASE Verdict(s, r) = 200 /\ \A i \in 1..Len(s) : ~Refuses(s[i], r)
    <2>1. \A check \in {a, b, c} : ~Refuses(check, r)
        BY <1>1, <1>3, <1>5
    <2> QED BY <1>5, <2>1 DEF s
<1>6. ASSUME NEW i \in 1..Len(s), Refuses(s[i], r), Verdict(s, r) = StatusOf[s[i]]
      PROVE  \E check \in {a, b, c} : Refuses(check, r) /\ Verdict(s, r) = StatusOf[check]
    BY <1>2, <1>6, Zenon
<1> QED BY <1>4, <1>5, <1>6 DEF s

\* The same of four.
LEMMA FourChecks ==
    ASSUME NEW r, NEW a \in DOMAIN StatusOf, NEW b \in DOMAIN StatusOf,
           NEW c \in DOMAIN StatusOf, NEW d \in DOMAIN StatusOf
    PROVE  \/ /\ Verdict(<<a, b, c, d>>, r) = 200
              /\ \A check \in {a, b, c, d} : ~Refuses(check, r)
           \/ \E check \in {a, b, c, d} :
                 Refuses(check, r) /\ Verdict(<<a, b, c, d>>, r) = StatusOf[check]
<1> DEFINE s == <<a, b, c, d>>
<1>1. /\ s \in Seq(DOMAIN StatusOf) /\ Len(s) = 4
      /\ s[1] = a /\ s[2] = b /\ s[3] = c /\ s[4] = d
    OBVIOUS
<1> HIDE DEF s
<1>2. \A i \in 1..Len(s) : s[i] \in {a, b, c, d}
    BY <1>1
<1>3. 1 \in 1..Len(s) /\ 2 \in 1..Len(s) /\ 3 \in 1..Len(s) /\ 4 \in 1..Len(s)
    BY <1>1
<1>4. \/ Verdict(s, r) = 200 /\ \A i \in 1..Len(s) : ~Refuses(s[i], r)
      \/ \E i \in 1..Len(s) : Refuses(s[i], r) /\ Verdict(s, r) = StatusOf[s[i]]
    <2>1. Len(s) <= 5
        BY <1>1
    <2> QED BY <1>1, <2>1, Verdicts, Zenon
<1>5. CASE Verdict(s, r) = 200 /\ \A i \in 1..Len(s) : ~Refuses(s[i], r)
    <2>1. \A check \in {a, b, c, d} : ~Refuses(check, r)
        BY <1>1, <1>3, <1>5
    <2> QED BY <1>5, <2>1 DEF s
<1>6. ASSUME NEW i \in 1..Len(s), Refuses(s[i], r), Verdict(s, r) = StatusOf[s[i]]
      PROVE  \E check \in {a, b, c, d} : Refuses(check, r) /\ Verdict(s, r) = StatusOf[check]
    BY <1>2, <1>6, Zenon
<1> QED BY <1>4, <1>5, <1>6 DEF s

\* The same of five.
LEMMA FiveChecks ==
    ASSUME NEW r, NEW a \in DOMAIN StatusOf, NEW b \in DOMAIN StatusOf,
           NEW c \in DOMAIN StatusOf, NEW d \in DOMAIN StatusOf,
           NEW e \in DOMAIN StatusOf
    PROVE  \/ /\ Verdict(<<a, b, c, d, e>>, r) = 200
              /\ \A check \in {a, b, c, d, e} : ~Refuses(check, r)
           \/ \E check \in {a, b, c, d, e} :
                 Refuses(check, r) /\ Verdict(<<a, b, c, d, e>>, r) = StatusOf[check]
<1> DEFINE s == <<a, b, c, d, e>>
<1>1. /\ s \in Seq(DOMAIN StatusOf) /\ Len(s) = 5
      /\ s[1] = a /\ s[2] = b /\ s[3] = c /\ s[4] = d /\ s[5] = e
    OBVIOUS
<1> HIDE DEF s
<1>2. \A i \in 1..Len(s) : s[i] \in {a, b, c, d, e}
    BY <1>1
<1>3. /\ 1 \in 1..Len(s) /\ 2 \in 1..Len(s) /\ 3 \in 1..Len(s) /\ 4 \in 1..Len(s)
      /\ 5 \in 1..Len(s)
    BY <1>1
<1>4. \/ Verdict(s, r) = 200 /\ \A i \in 1..Len(s) : ~Refuses(s[i], r)
      \/ \E i \in 1..Len(s) : Refuses(s[i], r) /\ Verdict(s, r) = StatusOf[s[i]]
    <2>1. Len(s) <= 5
        BY <1>1
    <2> QED BY <1>1, <2>1, Verdicts, Zenon
<1>5. CASE Verdict(s, r) = 200 /\ \A i \in 1..Len(s) : ~Refuses(s[i], r)
    <2>1. \A check \in {a, b, c, d, e} : ~Refuses(check, r)
        BY <1>1, <1>3, <1>5
    <2> QED BY <1>5, <2>1 DEF s
<1>6. ASSUME NEW i \in 1..Len(s), Refuses(s[i], r), Verdict(s, r) = StatusOf[s[i]]
      PROVE  \E check \in {a, b, c, d, e} : Refuses(check, r) /\ Verdict(s, r) = StatusOf[check]
    BY <1>2, <1>6, Zenon
<1> QED BY <1>4, <1>5, <1>6 DEF s

\* The checks of both crates before the body, ...
LEMMA HeaderVerdicts ==
    ASSUME NEW framework \in {"axum", "actix"}, NEW r
    PROVE  \/ /\ Verdict(HeaderChecks[framework], r) = 200
              /\ ~Refuses("MissingSecret", r) /\ ~Refuses("MissingTimestamp", r)
              /\ ~Refuses("MissingSignature", r)
           \/ \E check \in {"MissingSecret", "MissingTimestamp", "MissingSignature",
                            "StaleTimestamp"} :
                 Refuses(check, r) /\ Verdict(HeaderChecks[framework], r) = StatusOf[check]
<1>0. {"MissingSecret", "MissingTimestamp", "MissingSignature", "StaleTimestamp"}
         \subseteq DOMAIN StatusOf
    BY DEF StatusOf
<1>1. CASE framework = "axum"
    <2>1. HeaderChecks[framework] =
             <<"MissingSecret", "MissingTimestamp", "MissingSignature">>
        BY <1>1 DEF HeaderChecks
    <2> QED BY <1>0, <2>1, ThreeChecks
<1>2. CASE framework = "actix"
    <2>1. HeaderChecks[framework] =
             <<"MissingSecret", "MissingSignature", "MissingTimestamp", "StaleTimestamp">>
        BY <1>2 DEF HeaderChecks
    <2> QED BY <1>0, <2>1, FourChecks
<1> QED BY <1>1, <1>2

BodyDefects ==
    {"BodyReadError", "BodyTooLarge", "InvalidSignature", "InvalidBody", "WrongType"}

\* ... and after it. What actix calls a body it cannot read is too large for axum.
LEMMA BodyVerdicts ==
    ASSUME setup.framework \in {"axum", "actix"}, NEW r
    PROVE  \/ /\ Verdict(BodyChecks[setup.framework], r) = 200
              /\ \A check \in BodyDefects : ~Refuses(check, r)
           \/ \E check \in BodyDefects :
                 /\ Refuses(check, r)
                 /\ Verdict(BodyChecks[setup.framework], r) = StatusOf[check]
<1>0. BodyDefects \subseteq DOMAIN StatusOf
    BY DEF StatusOf, BodyDefects
<1>1. CASE setup.framework = "axum"
    <2>1. BodyChecks[setup.framework] =
             <<"BodyTooLarge", "InvalidSignature", "InvalidBody", "WrongType">>
        BY <1>1 DEF BodyChecks
    <2>2. ~Refuses("BodyTooLarge", r) => ~Refuses("BodyReadError", r)
        BY <1>1 DEF Refuses
    <2>3. {"BodyTooLarge", "InvalidSignature", "InvalidBody", "WrongType"}
             \subseteq DOMAIN StatusOf
        BY DEF StatusOf
    <2>4. \/ /\ Verdict(BodyChecks[setup.framework], r) = 200
             /\ ~Refuses("BodyTooLarge", r) /\ ~Refuses("InvalidSignature", r)
             /\ ~Refuses("InvalidBody", r) /\ ~Refuses("WrongType", r)
          \/ \E check \in {"BodyTooLarge", "InvalidSignature", "InvalidBody", "WrongType"} :
                /\ Refuses(check, r)
                /\ Verdict(BodyChecks[setup.framework], r) = StatusOf[check]
        BY <2>1, <2>3, FourChecks
    <2>5. CASE /\ Verdict(BodyChecks[setup.framework], r) = 200
               /\ ~Refuses("BodyTooLarge", r) /\ ~Refuses("InvalidSignature", r)
               /\ ~Refuses("InvalidBody", r) /\ ~Refuses("WrongType", r)
        BY <2>2, <2>5 DEF BodyDefects
    <2>6. {"BodyTooLarge", "InvalidSignature", "InvalidBody", "WrongType"} \subseteq BodyDefects
        BY DEF BodyDefects
    <2> QED BY <2>4, <2>5, <2>6
<1>2. CASE setup.framework = "actix"
    <2>1. BodyChecks[setup.framework] =
             <<"BodyReadError", "BodyTooLarge", "InvalidBody", "InvalidSignature",
               "WrongType">>
        BY <1>2 DEF BodyChecks
    <2> QED BY <1>0, <2>1, FiveChecks DEF BodyDefects
<1> QED BY <1>1, <1>2

-----------------------------------------------------------------------------
(* The worker and the endpoint.                                            *)

\* The initial states are well-formed.
LEMMA TypeInit == Init => TypeOK
<1> SUFFICES ASSUME Init PROVE TypeOK
    OBVIOUS
<1>1. configured \in [Urls -> Secrets \cup {NoSecret}]
    BY DEF Init
<1>2. /\ event \in Events
      /\ event.status = "queued" /\ event.attempts = 0 /\ event.endpoint = None
    BY DEF Init, Events
<1> QED BY <1>1, <1>2 DEF Init, TypeOK

\* What a step may do to the request under way.
LEMMA RequestSteps ==
    ASSUME TypeOK, Next
    PROVE  \/ request' = request
           \/ request' = None
           \/ Post
           \/ Spoil \/ Tick \/ ReadHeaders \/ ReadBody
  BY DEF Next, Operate, Step, UpdateEndpoint, WriteField, AbandonUpdate, Deploy, Fetch,
         Receive, Break, Reclaim, RetryDead

\* What type correctness says of an event.
EventType ==
    /\ event \in Events
    /\ event.status \in {"queued", "fetched", "sent"} => event.attempts < MaxAttempts
    /\ (event.status = "fetched") = (event.endpoint # None)

\* Events keep their type when they change their status, ...
LEMMA EventSteps ==
    ASSUME EventType, event.status \in {"fetched", "sent"},
           NEW s \in {"queued", "sent"}, Becomes(s)
    PROVE  EventType' /\ event'.status = s
  BY DEF EventType, Becomes, Events

\* ... when the outcome of an attempt is recorded, ...
LEMMA OutcomeSteps ==
    ASSUME EventType, event.status = "sent",
           NEW s \in {"delivered", AfterFailure}, RecordOutcome(s)
    PROVE  EventType' /\ event'.status \in {"queued", "delivered", "dead"}
<1> DEFINE n == event.attempts + 1
<1>1. /\ event \in Events /\ event.endpoint = None
      /\ event.attempts \in Nat /\ event.attempts < MaxAttempts
    BY DEF EventType, Events
<1>2. n \in 0..MaxAttempts
    BY <1>1
<1>3. s \in {"queued", "delivered", "dead"} /\ (s = "queued" => n < MaxAttempts)
    BY <1>1 DEF AfterFailure
<1>4. event' = [event EXCEPT !.status = s, !.attempts = n]
    BY DEF RecordOutcome
<1> HIDE DEF n
<1> QED BY <1>1, <1>2, <1>3, <1>4 DEF EventType, Events

\* ... and when a dead letter is retried.
LEMMA RetrySteps ==
    ASSUME EventType, RetryDead
    PROVE  EventType' /\ event'.status = "queued"
<1>1. event \in Events /\ event.status = "dead" /\ event.endpoint = None
    BY DEF EventType, RetryDead
<1>2. 0 \in 0..MaxAttempts /\ 0 < MaxAttempts
    OBVIOUS
<1>3. event' = [event EXCEPT !.status = "queued", !.attempts = 0]
    BY DEF RetryDead
<1> QED BY <1>1, <1>2, <1>3 DEF EventType, Events

\* What a consumer adds to a request when it begins to read it.
LEMMA RequestWithSecret ==
    ASSUME TypeOK, request \in Requests
    PROVE  /\ WithSecret(request) \in Requests
           /\ WithSecret(request).age = request.age
           /\ WithSecret(request).wasStale = Stale(request)
<1>1. configured[request.url] \in Secrets \cup {NoSecret}
    BY DEF TypeOK, Requests
<1>2. Stale(request) \in BOOLEAN
    BY DEF Stale
<1> QED BY <1>1, <1>2 DEF WithSecret, Requests

\* What is in flight stays well-formed until it is answered.
LEMMA RequestNext ==
    ASSUME TypeOK, Next, Spoil \/ Tick \/ ReadHeaders \/ ReadBody
    PROVE  request' \in Requests \cup Answers /\ UNCHANGED <<setup, row, update, configured, event>>
<1>0. request \in Requests /\ setup \in SetupValues /\ setup' = setup
    BY RequestTypes DEF Spoil, Tick, ReadHeaders, ReadBody, TypeOK, Next
<1>1. UNCHANGED <<setup, row, update, configured, event>>
    BY <1>0 DEF Spoil, Tick, ReadHeaders, ReadBody, rows
<1>2. CASE Spoil
    <2>1. /\ [request EXCEPT !.timestamp = "missing"] \in Requests
          /\ [request EXCEPT !.signature = "missing"] \in Requests
        BY <1>0 DEF Requests
    <2>2. ASSUME NEW body \in Bodies \ {"T"}
          PROVE  [request EXCEPT !.signature = "wrong", !.body = body] \in Requests
        BY <1>0, <2>2 DEF Requests
    <2>3. request' \in Requests
        BY <1>2, <2>1, <2>2, Zenon DEF Spoil
    <2> QED BY <1>1, <2>3
<1>3. CASE Tick
    <2>1. request.age \in Nat /\ request.age + 1 \in 0..MaxAge
        <3>1. setup.skew \in Skews /\ request.age \in 0..MaxAge
            BY <1>0 DEF SetupValues, Requests
        <3>2. request.age \in Nat /\ request.age + setup.skew <= Tolerance
            BY <1>3, <3>1, AgeBound DEF Tick
        <3> QED BY <3>1, <3>2, AgeBound
    <2>2. PICK age : age = request.age + 1
        OBVIOUS
    <2>3. [request EXCEPT !.age = age] \in Requests
        BY <1>0, <2>1, <2>2 DEF Requests
    <2>4. request' = [request EXCEPT !.age = age]
        BY <1>3, <2>2 DEF Tick
    <2> QED BY <1>1, <2>3, <2>4
<1>a. \A check \in DOMAIN StatusOf : [answer |-> StatusOf[check]] \in Answers
    BY DEF StatusOf, Answers
<1>b. [answer |-> 200] \in Answers
    BY DEF Answers
<1>f. setup.framework \in {"axum", "actix"}
    BY <1>0 DEF SetupValues
<1>4. CASE ReadHeaders
    <2> DEFINE r == WithSecret(request)
    <2>1. r \in Requests
        BY <1>0, RequestWithSecret
    <2> HIDE DEF r
    <2>2. PICK answer : answer = Verdict(HeaderChecks[setup.framework], r)
        OBVIOUS
    <2>3. answer = 200 \/ \E check \in DOMAIN StatusOf : answer = StatusOf[check]
        <3>1. PICK checks : checks = {"MissingSecret", "MissingTimestamp",
                                      "MissingSignature", "StaleTimestamp"}
            OBVIOUS
        <3>2. checks \subseteq DOMAIN StatusOf
            BY <3>1 DEF StatusOf
        <3>3. answer = 200 \/ \E check \in checks : answer = StatusOf[check]
            BY <1>f, <2>2, <3>1, HeaderVerdicts
        <3> QED BY <3>2, <3>3, Zenon
    <2>4. request' = IF answer = 200 THEN r ELSE [answer |-> answer]
        BY <1>4, <2>2 DEF ReadHeaders, r
    <2> QED BY <1>1, <1>a, <2>1, <2>3, <2>4
<1>5. CASE ReadBody
    <2>1. PICK answer : answer = Verdict(BodyChecks[setup.framework], request)
        OBVIOUS
    <2>2. answer = 200 \/ \E check \in DOMAIN StatusOf : answer = StatusOf[check]
        <3>1. BodyDefects \subseteq DOMAIN StatusOf
            BY DEF StatusOf, BodyDefects
        <3>2. answer = 200 \/ \E check \in BodyDefects : answer = StatusOf[check]
            BY <1>f, <2>1, BodyVerdicts
        <3> QED BY <3>1, <3>2, Zenon
    <2>3. request' = [answer |-> answer]
        BY <1>5, <2>1 DEF ReadBody
    <2> QED BY <1>1, <1>a, <1>b, <2>2, <2>3
<1> QED BY <1>1, <1>2, <1>3, <1>4, <1>5

\* The rows, the consumers, the event and the request keep their types.
LEMMA TypeNext == TypeOK /\ [Next]_vars => TypeOK'
<1> SUFFICES ASSUME TypeOK, Next PROVE TypeOK'
    BY DEF TypeOK, vars, rows
<1>0. /\ setup \in SetupValues /\ setup' = setup
      /\ row \in Urls \X Secrets /\ update \in Updates \cup {None}
      /\ configured \in [Urls -> Secrets \cup {NoSecret}]
      /\ EventType /\ request \in Requests \cup Answers \cup {None}
      /\ (event.status = "sent") = (request # None)
    BY DEF TypeOK, Next, EventType
<1>a. ASSUME row' \in Urls \X Secrets, update' \in Updates \cup {None},
             configured' \in [Urls -> Secrets \cup {NoSecret}], UNCHANGED <<event, request>>
      PROVE  TypeOK'
    BY <1>0, <1>a DEF TypeOK, EventType
<1>b. ASSUME UNCHANGED <<rows, configured>>, EventType',
             request' \in Requests \cup Answers \cup {None},
             (event'.status = "sent") = (request' # None)
      PROVE  TypeOK'
    BY <1>0, <1>b DEF TypeOK, EventType, rows
<1>1. ASSUME NEW to \in Homes, UpdateEndpoint(to) PROVE TypeOK'
    <2>1. to \in Urls \X Secrets /\ [to |-> to, next |-> "url"] \in Updates
        BY DEF Updates
    <2> QED BY <1>0, <1>1, <1>a, <2>1 DEF UpdateEndpoint
<1>2. CASE WriteField
    <2>1. update \in Updates
        BY <1>0, <1>2 DEF WriteField
    <2>2. update.to \in Urls \X Secrets /\ update.to \in Homes
        BY <2>1 DEF Updates
    <2>3. [update EXCEPT !.next = "secret"] \in Updates
        BY <2>1 DEF Updates
    <2>4. row' \in Urls \X Secrets
        BY <1>0, <1>2, <2>2 DEF WriteField
    <2>5. update' \in Updates \cup {None}
        BY <1>2, <2>3 DEF WriteField
    <2> QED BY <1>0, <1>2, <1>a, <2>4, <2>5 DEF WriteField
<1>3. CASE AbandonUpdate
    BY <1>0, <1>3, <1>a DEF AbandonUpdate
<1>4. ASSUME NEW u \in Urls, Deploy(u) PROVE TypeOK'
    <2>1. configured' \in [Urls -> Secrets \cup {NoSecret}]
        BY <1>0, <1>4 DEF Deploy
    <2> QED BY <1>0, <1>4, <1>a, <2>1 DEF Deploy, rows
<1>5. CASE Fetch
    <2>1. row # None
        BY <1>0
    <2>2. EventType' /\ event'.status = "fetched"
        BY <1>0, <1>5, <2>1 DEF Fetch, EventType, Events
    <2> QED BY <1>0, <1>5, <1>b, <2>2 DEF Fetch
<1>6. CASE Post
    <2>1. event.endpoint \in Urls \X Secrets /\ event.body \in Bodies
        BY <1>0, <1>6 DEF Post, EventType, Events, Payloads, Bodies
    <2>2. request' \in Requests
        BY <1>6, <2>1, AgeBound DEF Post, Requests
    <2>3. EventType' /\ event'.status = "sent"
        BY <1>0, <1>6, EventSteps DEF Post
    <2> QED BY <1>6, <1>b, <2>2, <2>3 DEF Post
<1>7. CASE Receive \/ Break \/ Reclaim \/ RetryDead
    <2>1. EventType' /\ event'.status # "sent"
        <3>1. CASE Receive \/ Break
            <4>1. event.status = "sent"
                BY <1>0, <3>1 DEF Receive, Answered, Break
            <4>2. \E s \in {"delivered", AfterFailure} : RecordOutcome(s)
                BY <3>1, Zenon DEF Receive, Break
            <4> QED BY <1>0, <4>1, <4>2, OutcomeSteps
        <3>2. CASE Reclaim
            BY <1>0, <3>2, EventSteps DEF Reclaim
        <3>3. CASE RetryDead
            BY <1>0, <3>3, RetrySteps
        <3> QED BY <1>7, <3>1, <3>2, <3>3
    <2>2. request' = None /\ UNCHANGED <<rows, configured>>
        BY <1>0, <1>7 DEF Receive, Break, Reclaim, RetryDead, rows
    <2> QED BY <1>b, <2>1, <2>2
<1>8. CASE Spoil \/ Tick \/ ReadHeaders \/ ReadBody
    <2>1. request' \in Requests \cup Answers /\ UNCHANGED <<row, update, configured, event>>
        BY <1>8, RequestNext
    <2>2. request # None /\ request' # None
        BY <1>8, <2>1 DEF Spoil, Tick, ReadHeaders, ReadBody, InFlight
    <2> QED BY <1>0, <1>b, <2>1, <2>2 DEF rows, EventType
<1> QED BY <1>1, <1>2, <1>3, <1>4, <1>5, <1>6, <1>7, <1>8 DEF Next, Operate, Step

\* Rows, consumers, events and requests keep their types.
THEOREM TypeCorrect == Spec => []TypeOK
  BY TypeInit, TypeNext, PTL DEF Spec

\* Over PostgreSQL an endpoint is one row of two columns that are written and
\* read together.
LEMMA PairsNext == TypeOK /\ PairsAreMeant /\ [Next]_vars => PairsAreMeant'
<1> SUFFICES ASSUME TypeOK, PairsAreMeant, Next, setup.engine = "postgres"
             PROVE  /\ update' = None /\ row' \in Homes
                    /\ event'.status = "fetched" => event'.endpoint \in Homes
    BY DEF PairsAreMeant, vars, rows, Next
<1>0. /\ update = None /\ row \in Homes
      /\ event.status = "fetched" => event.endpoint \in Homes
      /\ EventType /\ event \in Events
    BY DEF PairsAreMeant, TypeOK, EventType
<1>1. ASSUME event'.status # "fetched", UNCHANGED rows
      PROVE  /\ update' = None /\ row' \in Homes
             /\ event'.status = "fetched" => event'.endpoint \in Homes
    BY <1>0, <1>1 DEF rows
<1>2. CASE Operate
    BY <1>0, <1>2 DEF Operate, UpdateEndpoint, WriteField, AbandonUpdate, Deploy, rows
<1>3. CASE Fetch
    BY <1>0, <1>3 DEF Fetch, rows, Events
<1>4. CASE Post \/ Receive \/ Break \/ Reclaim \/ RetryDead
    <2>1. UNCHANGED rows
        BY <1>4 DEF Post, Receive, Break, Reclaim, RetryDead
    <2>2. CASE Post \/ Reclaim \/ RetryDead
        BY <1>0, <1>1, <2>1, <2>2 DEF Post, Reclaim, RetryDead, Becomes, Events
    <2>3. CASE Receive \/ Break
        <3>1. \E s \in {"delivered", AfterFailure} : RecordOutcome(s)
            BY <2>3, Zenon DEF Receive, Break
        <3>2. PICK s, n : /\ s # "fetched"
                          /\ event' = [event EXCEPT !.status = s, !.attempts = n]
            BY <3>1 DEF RecordOutcome, AfterFailure
        <3>3. event'.status # "fetched"
            BY <1>0, <3>2 DEF Events
        <3> QED BY <1>1, <2>1, <3>3
    <2> QED BY <1>4, <2>2, <2>3
<1>5. CASE Spoil \/ Tick \/ ReadHeaders \/ ReadBody
    BY <1>0, <1>5, RequestNext
<1> QED BY <1>2, <1>3, <1>4, <1>5 DEF Next, Step

\* Over PostgreSQL the worker signs what it fetched, and no one on the way can
\* sign anew.
LEMMA SecretNext ==
    TypeOK /\ PairsAreMeant /\ SecretFollowsUrl /\ [Next]_vars => SecretFollowsUrl'
<1> SUFFICES ASSUME TypeOK, PairsAreMeant, SecretFollowsUrl, [Next]_vars, TypeOK',
                    setup'.engine = "postgres", InFlight', request'.signature \in Secrets
             PROVE  <<request'.url, request'.signature>> \in Homes
    BY TypeNext DEF SecretFollowsUrl
<1>0. /\ setup.engine = "postgres" /\ request' \in Requests
      /\ request \in Requests => InFlight
      /\ \A a \in Answers : a # request'
    <2>1. setup' = setup
        BY DEF Next, vars
    <2>2. request' \in Requests
        BY RequestKinds DEF TypeOK, InFlight
    <2> QED BY <2>1, <2>2, RequestKinds, RequestTypes
<1>a. ASSUME InFlight, request'.url = request.url, request'.signature = request.signature
      PROVE  <<request'.url, request'.signature>> \in Homes
    BY <1>0, <1>a DEF SecretFollowsUrl
<1>b. /\ "missing" \notin Secrets /\ "wrong" \notin Secrets
      /\ None \notin Requests
    OBVIOUS
<1>1. CASE request' = request
    BY <1>0, <1>1, <1>a
<1>2. CASE Post
    <2>1. event.endpoint \in Homes
        BY <1>0, <1>2 DEF Post, PairsAreMeant
    <2>2. event.endpoint \in Urls \X Secrets
        BY <2>1
    <2>3. event.endpoint = <<event.endpoint[1], event.endpoint[2]>>
        BY <2>2
    <2>4. request'.url = event.endpoint[1] /\ request'.signature = event.endpoint[2]
        BY <1>2 DEF Post
    <2> QED BY <2>1, <2>3, <2>4
<1>3. CASE Spoil
    <2>1. InFlight /\ request \in Requests
        BY <1>3, RequestTypes DEF Spoil
    <2>2. request'.url = request.url
        BY <1>3, <2>1 DEF Spoil, Requests
    <2>3. request'.signature \in {request.signature, "missing", "wrong"}
        BY <1>3, <2>1 DEF Spoil, Requests
    <2> QED BY <1>a, <1>b, <2>1, <2>2, <2>3
<1>4. CASE Tick
    <2>1. InFlight /\ request \in Requests
        BY <1>4, RequestTypes DEF Tick
    <2>2. request'.url = request.url /\ request'.signature = request.signature
        BY <1>4, <2>1 DEF Tick, Requests
    <2> QED BY <1>a, <2>1, <2>2
<1>5. CASE ReadHeaders
    <2>1. InFlight /\ request \in Requests
        BY <1>5, RequestTypes DEF ReadHeaders
    <2>2. PICK answer : request' = IF answer = 200 THEN WithSecret(request)
                                   ELSE [answer |-> answer]
        BY <1>5 DEF ReadHeaders
    <2>3. request' = WithSecret(request)
        BY <2>2, RequestKinds, <1>0 DEF InFlight
    <2>4. request'.url = request.url /\ request'.signature = request.signature
        BY <2>1, <2>3 DEF WithSecret, Requests
    <2> QED BY <1>a, <2>1, <2>4
<1>6. CASE ReadBody
    BY <1>6, RequestKinds DEF ReadBody, InFlight
<1>7. CASE request' = None
    BY <1>0, <1>b, <1>7
<1> QED BY <1>1, <1>2, <1>3, <1>4, <1>5, <1>6, <1>7, RequestSteps DEF vars

\* No check of the headers answers 200, so a request whose body is read has
\* passed each of them.
LEMMA HeadersNext == TypeOK /\ HeadersAreRead /\ [Next]_vars => HeadersAreRead'
<1> SUFFICES ASSUME TypeOK, HeadersAreRead, [Next]_vars, TypeOK',
                    InFlight', request'.reading
             PROVE  /\ request'.secret # NoSecret
                    /\ request'.timestamp = "given" /\ request'.signature # "missing"
    BY TypeNext DEF HeadersAreRead
<1>0. /\ request' \in Requests
      /\ setup \in SetupValues
    BY RequestKinds DEF TypeOK, InFlight
<1>1. CASE request' = request
    BY <1>1 DEF HeadersAreRead, InFlight
<1>2. CASE Post
    <2>1. request'.reading = FALSE
        BY <1>2 DEF Post
    <2> QED BY <2>1
<1>3. CASE Spoil
    <2>1. request \in Requests /\ request.reading = FALSE
        BY <1>3, RequestTypes DEF Spoil, Requests
    <2>2. request'.reading = FALSE
        BY <1>3, <2>1 DEF Spoil, Requests
    <2> QED BY <2>2
<1>4. CASE Tick
    <2>1. InFlight /\ request \in Requests
        BY <1>4, RequestTypes DEF Tick
    <2>2. /\ request'.reading = request.reading /\ request'.secret = request.secret
          /\ request'.timestamp = request.timestamp /\ request'.signature = request.signature
        BY <1>4, <2>1 DEF Tick, Requests
    <2> QED BY <2>1, <2>2 DEF HeadersAreRead
<1>5. CASE ReadHeaders
    <2>1. setup.framework \in {"axum", "actix"}
        BY <1>0 DEF SetupValues
    <2>2. PICK r, answer :
             /\ r = WithSecret(request) /\ answer = Verdict(HeaderChecks[setup.framework], r)
             /\ request' = IF answer = 200 THEN r ELSE [answer |-> answer]
        BY <1>5 DEF ReadHeaders
    <2>3. answer = 200 /\ request' = r
        BY <2>2, RequestKinds, <1>0 DEF InFlight
    <2>4. \A check \in DOMAIN StatusOf : StatusOf[check] # 200
        BY DEF StatusOf
    <2>5. {"MissingSecret", "MissingTimestamp", "MissingSignature", "StaleTimestamp"}
             \subseteq DOMAIN StatusOf
        BY DEF StatusOf
    <2>6. /\ ~Refuses("MissingSecret", r) /\ ~Refuses("MissingTimestamp", r)
          /\ ~Refuses("MissingSignature", r)
        <3>1. \/ /\ ~Refuses("MissingSecret", r) /\ ~Refuses("MissingTimestamp", r)
                 /\ ~Refuses("MissingSignature", r)
              \/ \E check \in {"MissingSecret", "MissingTimestamp", "MissingSignature",
                              "StaleTimestamp"} : answer = StatusOf[check]
            BY <2>1, <2>2, HeaderVerdicts
        <3>2. \A check \in {"MissingSecret", "MissingTimestamp", "MissingSignature",
                            "StaleTimestamp"} : answer # StatusOf[check]
            BY <2>3, <2>4, <2>5
        <3> QED BY <3>1, <3>2, Zenon
    <2>7. r.secret # NoSecret /\ r.timestamp # "missing" /\ r.signature # "missing"
        BY <2>6 DEF Refuses
    <2> QED BY <1>0, <2>3, <2>7 DEF Requests
<1>6. CASE ReadBody
    BY <1>6, RequestKinds DEF ReadBody, InFlight
<1>7. CASE request' = None
    BY <1>0, <1>7
<1> QED BY <1>1, <1>2, <1>3, <1>4, <1>5, <1>6, <1>7, RequestSteps DEF vars

\* Nothing is under way at first.
LEMMA InvInit == Init => SigningInv
<1> SUFFICES ASSUME Init PROVE SigningInv
    OBVIOUS
<1>1. TypeOK
    BY TypeInit
<1>2. event.status = "queued" /\ request = None /\ update = None /\ row \in Homes
    BY DEF Init
<1> QED BY <1>1, <1>2 DEF SigningInv, PairsAreMeant, SecretFollowsUrl, HeadersAreRead, InFlight

\* The invariant of the theorems below holds in every state.
LEMMA InvHolds == Spec => []SigningInv
<1>1. SigningInv /\ [Next]_vars => SigningInv'
    BY TypeNext, PairsNext, SecretNext, HeadersNext DEF SigningInv
<1> QED BY InvInit, <1>1, PTL DEF Spec

\* Over PostgreSQL no delivery goes to one consumer with the secret meant for
\* another: `update_endpoint` writes both columns in one statement, and the
\* worker takes both from one read.
THEOREM SecretsFollow == Spec => []SecretFollowsUrl
<1>1. SigningInv => SecretFollowsUrl
    BY DEF SigningInv
<1> QED BY InvHolds, <1>1, PTL

\* An answer that was decided on the headers.
LEMMA HeaderAnswers ==
    ASSUME TypeOK, ReadHeaders, Answered'
    PROVE  ~request.reading /\ NamesADefect(WithSecret(request), request'.answer)
<1>0. InFlight /\ request \in Requests /\ ~request.reading
    BY RequestTypes DEF ReadHeaders
<1>1. PICK r, answer :
         /\ r = WithSecret(request) /\ answer = Verdict(HeaderChecks[setup.framework], r)
         /\ request' = IF answer = 200 THEN r ELSE [answer |-> answer]
    BY <1>0 DEF ReadHeaders
<1>2. r \in Requests /\ r.age = request.age /\ r.wasStale = Stale(request)
    BY <1>0, <1>1, RequestWithSecret
<1>3. answer # 200 /\ request'.answer = answer
    <2>1. request' # r
        BY <1>2, RequestKinds DEF Answered
    <2> QED BY <1>1, <2>1
<1>4. setup.framework \in {"axum", "actix"}
    BY DEF TypeOK, SetupValues
<1>5. PICK check \in {"MissingSecret", "MissingTimestamp", "MissingSignature",
                      "StaleTimestamp"} :
         Refuses(check, r) /\ answer = StatusOf[check]
    BY <1>1, <1>3, <1>4, HeaderVerdicts
<1>6. CASE check = "StaleTimestamp"
    <2>1. Stale(r)
        BY <1>5, <1>6 DEF Refuses
    <2>2. r.wasStale
        BY <1>2, <2>1 DEF Stale
    <2> QED BY <1>0, <1>1, <1>3, <1>5, <1>6, <2>2 DEF NamesADefect
<1>7. CASE check \in {"MissingSecret", "MissingTimestamp", "MissingSignature"}
    <2>1. check \in DOMAIN StatusOf
        BY <1>7 DEF StatusOf
    <2>2. check \in Defects(r)
        BY <1>5, <1>7, <2>1 DEF Refuses, Defects
    <2> QED BY <1>0, <1>1, <1>3, <1>5, <2>2 DEF NamesADefect
<1> QED BY <1>5, <1>6, <1>7

\* An answer that was decided when the body was complete.
LEMMA BodyAnswers ==
    ASSUME TypeOK, HeadersAreRead, ReadBody
    PROVE  request.reading /\ NamesADefect(request, request'.answer)
<1>0. InFlight /\ request \in Requests /\ request.reading
    BY RequestTypes DEF ReadBody
<1>1. PICK answer :
         answer = Verdict(BodyChecks[setup.framework], request) /\ request'.answer = answer
    BY DEF ReadBody
<1>2. /\ request.secret # NoSecret
      /\ request.timestamp = "given" /\ request.signature # "missing"
    BY <1>0 DEF HeadersAreRead
<1>3. setup.framework \in {"axum", "actix"}
    BY DEF TypeOK, SetupValues
<1>4. \A check \in DOMAIN StatusOf : StatusOf[check] # 200
    BY DEF StatusOf
<1>5. /\ BodyDefects \cup {"StaleTimestamp"} \subseteq DOMAIN StatusOf
      /\ StatusOf["StaleTimestamp"] = StatusOf["InvalidSignature"]
      /\ StatusOf["BodyTooLarge"] = 413
    BY DEF StatusOf, BodyDefects
<1>6. ASSUME \A check \in BodyDefects : ~Refuses(check, request)
      PROVE  Defects(request) = {}
    <2>0. /\ ~Refuses("BodyReadError", request) /\ ~Refuses("BodyTooLarge", request)
          /\ ~Refuses("InvalidSignature", request) /\ ~Refuses("InvalidBody", request)
          /\ ~Refuses("WrongType", request)
        BY <1>6 DEF BodyDefects
    <2>1. /\ ~Stale(request) /\ request.signature = request.secret
          /\ request.body # "broken" /\ request.body # "large" /\ request.body # "text"
          /\ ~(request.url \in Typed /\ request.body # "T")
        BY <2>0 DEF Refuses, Verify
    <2>2. ASSUME NEW d \in DOMAIN StatusOf PROVE d \notin Defects(request)
        BY <1>2, <2>1, <2>2 DEF Defects, StatusOf
    <2> QED BY <2>2 DEF Defects
<1> DEFINE collapsed == request.body = "broken" /\ setup.framework = "axum"
<1>7. ASSUME NEW check \in BodyDefects, Refuses(check, request), answer = StatusOf[check]
      PROVE  /\ answer # 200
             /\ \/ \E d \in Defects(request) : answer = StatusOf[d]
                \/ answer = 413 /\ collapsed
    <2>1. answer # 200
        BY <1>4, <1>5, <1>7
    <2>2. CASE check \notin {"InvalidSignature", "BodyTooLarge"}
        <3>1. check \in Defects(request)
            BY <1>5, <1>7, <2>2 DEF Refuses, Defects, BodyDefects
        <3> QED BY <1>7, <2>1, <3>1
    <2>5. CASE check = "BodyTooLarge"
        <3>1. request.body = "large" \/ collapsed
            BY <1>7, <2>5 DEF Refuses
        <3>2. request.body = "large" => check \in Defects(request)
            BY <1>5, <1>7, <2>5 DEF Defects
        <3> QED BY <1>5, <1>7, <2>1, <2>5, <3>1, <3>2
    <2>3. CASE check = "InvalidSignature" /\ Stale(request)
        <3>1. "StaleTimestamp" \in Defects(request)
            BY <1>2, <1>5, <2>3 DEF Defects
        <3> QED BY <1>5, <1>7, <2>1, <2>3, <3>1
    <2>4. CASE check = "InvalidSignature" /\ ~Stale(request)
        <3>1. request.signature # request.secret
            BY <1>7, <2>4 DEF Refuses, Verify
        <3>2. "InvalidSignature" \in Defects(request)
            BY <1>2, <1>5, <3>1 DEF Defects, BodyDefects
        <3> QED BY <1>7, <2>1, <2>4, <3>2
    <2> QED BY <2>2, <2>3, <2>4, <2>5
<1>8. \/ answer = 200 /\ Defects(request) = {}
      \/ /\ answer # 200
         /\ \/ \E d \in Defects(request) : answer = StatusOf[d]
            \/ answer = 413 /\ collapsed
    <2>1. \/ answer = 200 /\ \A check \in BodyDefects : ~Refuses(check, request)
          \/ \E check \in BodyDefects : Refuses(check, request) /\ answer = StatusOf[check]
        BY <1>1, <1>3, BodyVerdicts
    <2> QED BY <1>6, <1>7, <2>1, Zenon
<1> QED BY <1>0, <1>1, <1>8 DEF NamesADefect

\* Whatever the order of their checks and whenever they look at the clock, both
\* crates call the handler only with a request nothing is wrong with, and refuse
\* one only with the status of a defect it has or had when its headers were read;
\* only to a body that breaks off axum answers that it is too large.
THEOREM AnswersJustified == Spec => AnswersNameADefect
<1>1. ASSUME SigningInv, [Next]_vars, InFlight, Answered'
      PROVE  NamesADefect(IF request.reading THEN request ELSE WithSecret(request),
                          request'.answer)
    <2>1. TypeOK /\ HeadersAreRead
        BY <1>1 DEF SigningInv
    <2>2. request \in Requests /\ request # None /\ "answer" \notin DOMAIN request
        BY <1>1, <2>1, RequestTypes DEF InFlight
    <2>3. request' # request /\ request' # None
        BY <1>1, <2>2 DEF Answered
    <2>4. Next /\ ~Post
        BY <1>1, <2>1, <2>2, <2>3 DEF vars, Post, TypeOK
    <2>5. CASE Spoil \/ Tick
        <3>1. \A r, age : r \in Requests => "answer" \notin DOMAIN [r EXCEPT !.age = age]
            BY DEF Requests
        <3>2. CASE Tick
            BY <1>1, <2>2, <3>1, <3>2 DEF Tick, Answered
        <3>3. CASE Spoil
            BY <1>1, <2>2, <3>3 DEF Spoil, Answered, Requests
        <3> QED BY <2>5, <3>2, <3>3
    <2>6. CASE ReadHeaders
        BY <1>1, <2>1, <2>6, HeaderAnswers
    <2>7. CASE ReadBody
        BY <2>1, <2>7, BodyAnswers
    <2> QED BY <2>1, <2>3, <2>4, <2>5, <2>6, <2>7, RequestSteps
<1>2. SigningInv /\ [Next]_vars =>
         [InFlight /\ Answered' =>
             NamesADefect(IF request.reading THEN request ELSE WithSecret(request),
                          request'.answer)]_vars
    BY <1>1
<1> QED BY InvHolds, <1>2, PTL DEF Spec, AnswersNameADefect
=============================================================================
