\* Two callers: a statement the code makes, refuted.
SPECIFICATION Spec
CONSTANTS
    p1 = p1
    p2 = p2
    e1 = e1
    e2 = e2
    w1 = w1
    w2 = w2
    c1 = c1
    c2 = c2
    NoEvent = NoEvent
    Endpoints = {p1}
    Events = {e1}
    EndpointOf <- OneEvent
    Workers = {w1}
    Callers = {c1, c2}
    BatchSize = 1
    MaxAttemptsValues = {1}
    CircuitThreshold = 1
    AttemptsCap = 1
    SlowBatches = FALSE
    RecoverCalls = FALSE
PROPERTIES
    RetriesOnlyDead
