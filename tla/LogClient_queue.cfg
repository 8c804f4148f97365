\* Three records compete for a queue of one slot and two workers, with one retry
\* each: full queue, concurrent workers, drain and panic all happen.
SPECIFICATION FairSpec
CONSTANTS
    Records = {r1, r2, r3}
    Workers = {w1, w2}
    QueueSize = 1
    LogClientMaxRetries = 1
    NoRecord = NoRecord
INVARIANTS TypeOK AcceptedInOnePlace StopDrains CountersTellTheTruth CopiesBounded
PROPERTIES ImplementsDelivery AcceptedIsDecided StopReturns
