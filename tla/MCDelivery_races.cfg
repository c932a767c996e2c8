\* One event, two workers, tasks that may outlive the stuck timeout.
SPECIFICATION FairSpec
CONSTANTS
    p1 = p1
    p2 = p2
    e1 = e1
    e2 = e2
    w1 = w1
    w2 = w2
    NoWorker = NoWorker
    Endpoints = {p1}
    Events = {e1}
    EndpointOf <- OneEvent
    Workers = {w1, w2}
    BatchSize = 1
    MaxAttemptsValues = {1, 2}
    CircuitThreshold = 2
    SlowTasks = TRUE
INVARIANTS
    TypeOK
    OutcomeIsRecorded
    CircuitFollowsFailures
    ForeignKeysHold
    AttemptsAreBounded
PROPERTIES
    AttemptsAreHonoured
    DeliveredIsFinal
    ImplementsAtLeastOnce
    EventuallySettled
