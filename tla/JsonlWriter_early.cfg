\* A record of a sender whose clock is ahead.
SPECIFICATION Spec
CONSTANTS
    Records = {r1, r2}
    Handles = {x1, x2}
    Inodes = {i1, i2, i3}
    Jobs = {j1, j2}
    None = None
    TicksPerHour = 2
    MaxTime = 3
    StaleHandleTimeout = 0
    ArchiveEnabled = TRUE
    ArchiveMaxConcurrent = 1
    LateRecords = FALSE
    EarlyRecords = TRUE
    IOErrors = FALSE
    MaxShortWrites = 0
INVARIANT CompletedPeriodsOnly
