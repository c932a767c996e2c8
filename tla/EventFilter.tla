----------------------------- MODULE EventFilter -----------------------------
(***************************************************************************)
(* Which endpoints a broadcast reaches: the event_filter of an endpoint,   *)
(* the calls that set it, the two predicates that read it (the WHERE       *)
(* clause of the broadcasts in storage.rs and event_matches_filter in      *)
(* model.rs, which backends/sqlite.rs applies), and the broadcast itself,  *)
(* one statement over PostgreSQL, a list of endpoints and one INSERT each  *)
(* over SQLite, while operators change the endpoints. What becomes of the  *)
(* events is the subject of Delivery.tla and SqliteDelivery.tla.           *)
(*                                                                         *)
(* Event types and patterns are sequences of characters, " " for any white *)
(* space and "^" for any control character. An Option is the set of its    *)
(* value: a filter is {} (NULL) or {patterns}.                             *)
(***************************************************************************)
EXTENDS Naturals, SequencesExt

CONSTANTS
    Endpoints,
    EventTypes,   \* what the application broadcasts
    Patterns,     \* what it puts into filters
    None          \* no broadcast under way

ASSUME EventFilterAssumption == EventTypes \cup Patterns \subseteq Seq(STRING)

Filters == {{}} \cup {{P} : P \in SUBSET Patterns}

VARIABLES
    backend,    \* "postgres" or "sqlite", for good
    endpoint,   \* "unborn", "enabled", "disabled" or "deleted"
    filter,     \* event_filter
    call,       \* a broadcast: its event type, the endpoints listed and not yet
                \* dealt with, those it has inserted for, and its answer
    ever,       \* history: subscribers at some moment of the call, ...
    always,     \* ... and at every moment of it
    unheeded    \* history: endpoints whose last filter was accepted, not stored

vars == <<backend, endpoint, filter, call, ever, always, unheeded>>

TypeOK ==
    /\ backend \in {"postgres", "sqlite"}
    /\ endpoint \in [Endpoints -> {"unborn", "enabled", "disabled", "deleted"}]
    /\ filter \in [Endpoints -> Filters]
    /\ \/ call = None
       \/ call \in [type : EventTypes, left : SUBSET Endpoints,
                     reached : SUBSET Endpoints, answer : {"none", "Ok", "Err"}]
    /\ always \subseteq ever /\ ever \subseteq Endpoints
    /\ unheeded \subseteq Endpoints

Init ==
    /\ backend \in {"postgres", "sqlite"}
    /\ endpoint = [p \in Endpoints |-> "unborn"]
    /\ filter = [p \in Endpoints |-> {}]
    /\ call = None
    /\ ever = {}
    /\ always = {}
    /\ unheeded = {}

-----------------------------------------------------------------------------
\* A pattern that ends in ".*", and what comes before that.
IsWildcard(pattern) == IsSuffix(<<".", "*">>, pattern)
Stem(pattern)       == SubSeq(pattern, 1, Len(pattern) - 2)

\* PostgreSQL's LIKE: '_' is any character, '%' any sequence of them, and '\'
\* takes the character after it as it stands. The first j characters of the
\* pattern match the first cut[j] of the text.
Like(text, pattern) ==
    \E escapes \in SUBSET DOMAIN pattern :
        /\ escapes = {j \in DOMAIN pattern : pattern[j] = "\\" /\ j - 1 \notin escapes}
        /\ \E cut \in [0..Len(pattern) -> 0..Len(text)] :
              /\ cut[0] = 0 /\ cut[Len(pattern)] = Len(text)
              /\ \A j \in DOMAIN pattern :
                    \/ j \in escapes /\ cut[j] = cut[j - 1]
                    \/ pattern[j] = "%" /\ j - 1 \notin escapes /\ cut[j - 1] <= cut[j]
                    \/ /\ j \notin escapes /\ cut[j] = cut[j - 1] + 1
                       /\ \/ pattern[j] = text[cut[j]]
                          \/ pattern[j] = "_" /\ j - 1 \notin escapes

\* A wrong form of the next definition: drops what the stem alone stands for.
PatternAcceptsBelow(type, pattern) ==
    \/ pattern = <<"*">>
    \/ IsWildcard(pattern) /\ IsPrefix(Append(Stem(pattern), "."), type)
    \/ ~IsWildcard(pattern) /\ type = pattern

\* The closure in event_matches_filter.
PatternAccepts(type, pattern) ==
    \/ pattern = <<"*">>
    \/ /\ IsWildcard(pattern)
       /\ type = Stem(pattern) \/ IsPrefix(Append(Stem(pattern), "."), type)
    \/ ~IsWildcard(pattern) /\ type = pattern

event_matches_filter(type, f) ==
    \A patterns \in f : \E pattern \in patterns : PatternAccepts(type, pattern)

\* A wrong form of the next definition: the pattern goes into LIKE without its
\* dot.
WhereLikeStem(type, f) ==
    \A patterns \in f :
        \/ <<"*">> \in patterns
        \/ type \in patterns
        \/ \E pattern \in patterns :
              IsWildcard(pattern) /\ Like(type, Append(Stem(pattern), "%"))

\* The WHERE clause.
Where(type, f) ==
    \A patterns \in f :
        \/ <<"*">> \in patterns
        \/ type \in patterns
        \/ \E pattern \in patterns :
              /\ IsWildcard(pattern)
              /\ \/ type = Stem(pattern)
                 \/ Like(type, Stem(pattern) \o <<".", "%">>)

\* The endpoints a broadcast of the type inserts an event for.
Targets(type) ==
    {p \in Endpoints :
        /\ endpoint[p] = "enabled"
        /\ IF backend = "postgres" THEN Where(type, filter[p])
           ELSE event_matches_filter(type, filter[p])}

-----------------------------------------------------------------------------
(* The calls of operators.                                                 *)

Blank(text)      == Range(text) \subseteq {" ", "^"}
HasControl(text) == "^" \in Range(text)

\* validate_fields, as far as it is about patterns.
Validated(f) ==
    \A patterns \in f : \A pattern \in patterns :
        ~Blank(pattern) /\ Last(pattern) # "." /\ ~HasControl(pattern)

Registered(p) == endpoint[p] \in {"enabled", "disabled"}

\* register_with.
Register(p, f) ==
    /\ endpoint[p] = "unborn"
    /\ Validated(f)
    /\ endpoint' = [endpoint EXCEPT ![p] = "enabled"]
    /\ filter' = [filter EXCEPT ![p] = f]

\* A wrong form of the next definition: keeps the filter that was there.
AddEventFilter(p, f) ==
    /\ Registered(p)
    /\ filter' = [filter EXCEPT ![p] = @ \cup f]
    /\ UNCHANGED endpoint

\* set_event_filter and clear_event_filter: neither looks at the patterns.
SetEventFilter(p, f) ==
    /\ Registered(p)
    /\ filter' = [filter EXCEPT ![p] = f]
    /\ UNCHANGED endpoint

\* update_endpoint with an event_filter, which PostgreSQL writes and SQLite
\* does not pass on. It succeeds on both.
UpdateEndpoint(p, f) ==
    /\ Registered(p)
    /\ filter' = IF backend = "postgres" THEN [filter EXCEPT ![p] = f] ELSE filter
    /\ UNCHANGED endpoint

\* disable_endpoint and enable_endpoint.
SetEnabled(p) ==
    /\ Registered(p)
    /\ endpoint' = [endpoint EXCEPT ![p] =
                       IF @ = "enabled" THEN "disabled" ELSE "enabled"]
    /\ UNCHANGED filter

DeleteEndpoint(p) ==
    /\ Registered(p)
    /\ endpoint' = [endpoint EXCEPT ![p] = "deleted"]
    /\ UNCHANGED filter

\* Whether a call that has succeeded did what it was asked to.
Heed(p, f) ==
    unheeded' = IF filter'[p] = f THEN unheeded \ {p} ELSE unheeded \cup {p}

Operate ==
    \E p \in Endpoints :
        \/ (SetEnabled(p) \/ DeleteEndpoint(p)) /\ UNCHANGED unheeded
        \/ \E f \in Filters :
              /\ Register(p, f) \/ SetEventFilter(p, f) \/ UpdateEndpoint(p, f)
              /\ Heed(p, f)

-----------------------------------------------------------------------------
(* broadcast.                                                              *)

\* validate_enqueue, as far as it is about event types.
Sendable(type) == ~Blank(type) /\ ~HasControl(type)

\* The INSERT ... SELECT over PostgreSQL, or list_endpoints over SQLite.
Broadcast(type) ==
    /\ call = None
    /\ Sendable(type)
    /\ call' = IF backend = "postgres"
               THEN [type |-> type, left |-> {}, reached |-> Targets(type), answer |-> "Ok"]
               ELSE [type |-> type, left |-> Targets(type), reached |-> {},
                     answer |-> IF Targets(type) = {} THEN "Ok" ELSE "none"]

\* enqueue for one of the endpoints listed. A foreign key that is gone ends the
\* call, as any error of the database does.
FanOut(p) ==
    /\ call # None
    /\ p \in call.left
    /\ \/ /\ Registered(p)
          /\ call' = [call EXCEPT !.left = @ \ {p}, !.reached = @ \cup {p},
                                  !.answer = IF call.left = {p} THEN "Ok" ELSE "none"]
       \/ call' = [call EXCEPT !.left = {}, !.answer = "Err"]

Return ==
    /\ call # None
    /\ call.answer # "none"
    /\ call' = None

-----------------------------------------------------------------------------
(* The table of docs/05-event-filtering.md, and what a call has seen.      *)

\* "order.*" stands for everything that is, up to one of its dots or to its
\* end, "order".
Covers(pattern, type) ==
    \/ pattern \in {<<"*">>, type}
    \/ /\ IsWildcard(pattern)
       /\ \E n \in 0..Len(type) :
             /\ SubSeq(type, 1, n) = Stem(pattern)
             /\ n < Len(type) => type[n + 1] = "."

\* Those who want the type, by the columns of the endpoints.
Subscribers(type, states, filters) ==
    {p \in Endpoints :
        /\ states[p] = "enabled"
        /\ \A patterns \in filters[p] : \E pattern \in patterns : Covers(pattern, type)}

\* The history of a call, from its first statement to its last.
Observe ==
    CASE call' = None -> ever' = {} /\ always' = {}
      [] call = None /\ call' # None ->
            ever' = Subscribers(call'.type, endpoint', filter') /\ always' = ever'
      [] call # None /\ call' # None ->
            IF call.answer # "none" THEN UNCHANGED <<ever, always>>
            ELSE /\ ever' = ever \cup Subscribers(call.type, endpoint', filter')
                 /\ always' = always \cap Subscribers(call.type, endpoint', filter')

Next ==
    /\ \/ Operate /\ UNCHANGED call
       \/ /\ \/ \E type \in EventTypes : Broadcast(type)
             \/ \E p \in Endpoints : FanOut(p)
             \/ Return
          /\ UNCHANGED <<endpoint, filter, unheeded>>
    /\ Observe
    /\ UNCHANGED backend

Spec == Init /\ [][Next]_vars

-----------------------------------------------------------------------------
(* Properties.                                                             *)

\* A broadcast that returns Ok has missed no endpoint that was subscribed all
\* along, whatever characters patterns and event types are made of, whichever
\* calls have brought the filters about, and whatever operators do meanwhile. Over
\* PostgreSQL the type must not have the character that LIKE escapes with.
SubscribersReached ==
    call # None =>
        (call.answer = "Ok" /\ (backend = "postgres" => "\\" \notin Range(call.type)) =>
            always \subseteq call.reached)

\* The inductive invariant behind the theorems of EventFilterProofs: whoever was
\* subscribed all along has an event or is still on the list, and whoever is on
\* the list was subscribed when it was made.
CallInv ==
    call # None =>
        /\ call.left \subseteq ever
        /\ call.answer # "none" => call.left = {}
        /\ \/ call.answer = "Err"
           \/ backend = "postgres" /\ "\\" \in Range(call.type)
           \/ always \subseteq call.reached \cup call.left

\* What LIKE does not take as it stands.
LikeCharacters == {"_", "%", "\\"}

\* One of the endpoint's wildcard patterns has such a character.
HasLikeCharacter(p) ==
    \E patterns \in filter[p] : \E pattern \in patterns :
        IsWildcard(pattern) /\ Range(Stem(pattern)) \cap LikeCharacters # {}

\* A filter that is set or cleared with update_endpoint takes effect, as the
\* comments on UpdateEndpoint in model.rs say.
FiltersAreHeeded == unheeded = {}

Reached == IF call = None THEN {} ELSE call.reached

\* It inserts an event only for endpoints that were subscribed at some moment of
\* the call, over PostgreSQL as long as no pattern has such a character.
OnlySubscribers ==
    [][\A p \in Reached' \ Reached :
          p \in ever' \/ (backend = "postgres" /\ HasLikeCharacter(p))]_vars
=============================================================================
