\* A stream and a plain request on logged paths, a plain one on a denied path,
\* each by itself.
SPECIFICATION RecordSpec
CONSTANTS
    s1 = s1
    p1 = p1
    d1 = d1
    Requests = {s1, p1, d1}
    StreamRequests = {s1}
    LoggedRequests <- MCLoggedRequests
    MaxChunks = 3
    Tokens = {"a", "b", "c", "d"}
    Values = {"nil", "c", "x"}
    MaxInt = 4
    Events <- MCEvents
    RequestBodies <- MCRequestBodies
    ResponseBodies <- MCResponseBodies
    AssembledSizes = {60}
    CaptureLimits = {0, 50}
CONSTRAINTS OneRequest LargeRequestsShort
INVARIANTS
    TypeOK
    OneRecordPerRequest
    StreamStatusHonest
    CapturedWasDelivered
    RecordTypeOK
    ChatTextFaithful
    CompletedResponseKept
    NullOnlyIfNothing
    CutsAreMarked
