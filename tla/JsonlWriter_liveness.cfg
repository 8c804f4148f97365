\* Stale handles get closed and Close returns, with an archive job that may hang.
SPECIFICATION FairSpec
CONSTANTS
    Records = {r1, r2}
    Handles = {x1, x2}
    Inodes = {i1, i2, i3}
    Jobs = {j1, j2}
    None = None
    TicksPerHour = 2
    MaxTime = 2
    StaleHandleTimeout = 0
    ArchiveEnabled = TRUE
    ArchiveMaxConcurrent = 1
    LateRecords = FALSE
    EarlyRecords = FALSE
    IOErrors = TRUE
    MaxShortWrites = 0
PROPERTIES StaleHandlesClosed CloseTerminates
