\* LOG_QUEUE_SIZE=0: a record is taken on only by a worker ready to receive it.
SPECIFICATION Spec
CONSTANTS
    Records = {r1, r2, r3}
    Workers = {w1, w2}
    QueueSize = 0
    LogClientMaxRetries = 1
    NoRecord = NoRecord
SYMMETRY Symmetry
INVARIANTS AcceptedInOnePlace StopDrains
