\* Two loops of either engine that are signalled at any time.
SPECIFICATION FairSpec
\* The system stops when both loops have returned and the queue is at its bound.
CHECK_DEADLOCK FALSE
CONSTANTS
    w1 = w1
    w2 = w2
    Loops = {w1, w2}
    BatchSize = 2
    MaxQueue = 2
    Timings <- TwoTimings
    Latencies = {0, 1}
INVARIANTS
    TypeOK
    ReaperSparesLiveBatches
    AtMostOneLateBatch
    DrainIsBounded
PROPERTIES
    ReturnsAfterSignal
