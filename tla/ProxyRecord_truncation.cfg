\* Is the size of a body told that was cut?
SPECIFICATION RecordSpec
CONSTANTS
    s1 = s1
    p1 = p1
    d1 = d1
    Requests = {s1, p1, d1}
    StreamRequests = {s1}
    LoggedRequests <- MCLoggedRequests
    MaxChunks = 1
    Tokens = {"a", "b", "c", "d"}
    Values = {"nil", "c", "x"}
    MaxInt = 4
    Events <- MCEvents
    RequestBodies <- MCRequestBodies
    ResponseBodies <- MCResponseBodies
    AssembledSizes = {20, 60}
    CaptureLimits = {0, 50}
CONSTRAINT OneRequest
INVARIANT OriginalSizeTold
