\* One record in an hour whose file goes stale before the hour ends; no system
\* call fails and no archive job hangs.
SPECIFICATION ArchivingSpec
CONSTANTS
    Records = {r1}
    Handles = {x1, x2}
    Inodes = {i1, i2, i3}
    Jobs = {j1, j2}
    None = None
    TicksPerHour = 2
    MaxTime = 3
    StaleHandleTimeout = 0
    ArchiveEnabled = TRUE
    ArchiveMaxConcurrent = 1
    LateRecords = FALSE
    EarlyRecords = FALSE
    IOErrors = FALSE
    MaxShortWrites = 0
PROPERTY StaleFilesArchived
