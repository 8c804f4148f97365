\* A record of enqueueError handed over after Stop has closed ch.
SPECIFICATION Spec
CONSTANTS
    stream = stream
    plain = plain
    Requests <- MCRequests
    StreamRequests <- MCStreamRequests
    LoggedRequests <- MCRequests
    MaxChunks = 0
    Workers = {w1}
    QueueSize = 1
    LogClientMaxRetries = 1
    NoRecord = NoRecord
INVARIANT
    EnqueueNeverFails
