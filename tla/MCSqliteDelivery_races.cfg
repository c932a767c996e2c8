\* One event, two run loops and a caller that overlap, until the faults stop.
SPECIFICATION FairSpec
CONSTANTS
    p1 = p1
    p2 = p2
    e1 = e1
    e2 = e2
    w1 = w1
    w2 = w2
    c1 = c1
    c2 = c2
    NoEvent = NoEvent
    Endpoints = {p1}
    Events = {e1}
    EndpointOf <- OneEvent
    Workers = {w1, w2}
    Callers = {c1}
    BatchSize = 1
    MaxAttemptsValues = {1, 2}
    CircuitThreshold = 2
    AttemptsCap = 2
    SlowBatches = TRUE
    RecoverCalls = TRUE
INVARIANTS
    OutcomeIsRecorded
    CircuitFollowsFailures
    ForeignKeysHold
PROPERTIES
    EventuallySettled
