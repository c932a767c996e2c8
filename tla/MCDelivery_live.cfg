\* Two endpoints whose events queue for one worker that claims one at a time.
SPECIFICATION FairSpec
CONSTANTS
    p1 = p1
    p2 = p2
    e1 = e1
    e2 = e2
    w1 = w1
    w2 = w2
    NoWorker = NoWorker
    Endpoints = {p1, p2}
    Events = {e1, e2}
    EndpointOf <- TwoEndpoints
    Workers = {w1}
    BatchSize = 1
    MaxAttemptsValues = {2}
    CircuitThreshold = 1
    SlowTasks = FALSE
PROPERTIES
    EventuallySettled
