\* One worker, one slot, one retry: a full queue and a shutdown with work left.
\* The reads of a stream's data are ProxyRecord.cfg's subject.
SPECIFICATION FairSpec
CONSTANTS
    stream = stream
    plain = plain
    Requests <- MCRequests
    StreamRequests <- MCStreamRequests
    LoggedRequests <- MCRequests
    MaxChunks = 0
    Workers = {w1}
    QueueSize = 1
    LogClientMaxRetries = 1
    NoRecord = NoRecord
INVARIANTS
    TypeOK
    ExitLosesNothing
    HandlersDoneBeforeStop
    EveryRequestAccounted
PROPERTIES
    NeverBlocksTraffic
    ShutdownCompletes
