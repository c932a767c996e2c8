\* Two events of one endpoint, two workers, no zombies.
SPECIFICATION Spec
CONSTANTS
    p1 = p1
    p2 = p2
    e1 = e1
    e2 = e2
    w1 = w1
    w2 = w2
    NoWorker = NoWorker
    Endpoints = {p1}
    Events = {e1, e2}
    EndpointOf <- SameEndpoint
    Workers = {w1, w2}
    BatchSize = 2
    MaxAttemptsValues = {1, 2}
    CircuitThreshold = 2
    SlowTasks = FALSE
SYMMETRY WorkerSymmetry
INVARIANTS
    ClaimsAreExclusive
