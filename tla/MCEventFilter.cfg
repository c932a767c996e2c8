\* One endpoint, every filter, every event type of up to three characters.
SPECIFICATION Spec
CONSTANTS
    p1 = p1
    None = None
    Endpoints = {p1}
    EventTypes <- ShortTypes
    Patterns <- SomePatterns
INVARIANTS
    TypeOK
    SubscribersReached
PROPERTIES
    OnlySubscribers
