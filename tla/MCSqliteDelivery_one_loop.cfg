\* One run loop and one caller, one event for each of two endpoints.
SPECIFICATION Spec
CONSTANTS
    p1 = p1
    p2 = p2
    e1 = e1
    e2 = e2
    w1 = w1
    w2 = w2
    c1 = c1
    c2 = c2
    NoEvent = NoEvent
    Endpoints = {p1, p2}
    Events = {e1, e2}
    EndpointOf <- TwoEndpoints
    Workers = {w1}
    Callers = {c1}
    BatchSize = 2
    MaxAttemptsValues = {2}
    CircuitThreshold = 1
    AttemptsCap = 2
    SlowBatches = TRUE
    RecoverCalls = FALSE
INVARIANTS
    TypeOK
    BatchIsOwned
    NoPostAfterSuccess
PROPERTIES
    ImplementsAtLeastOnce
