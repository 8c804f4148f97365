\* Two records, prompt, late or early, over two hours: files archived, re-created and
\* archived again beside I/O errors, a short write, crashes and restarts.  The
\* archive limit is the default of one.
SPECIFICATION Spec
CONSTANTS
    Records = {r1, r2}
    Handles = {x1, x2}
    Inodes = {i1, i2, i3}
    Jobs = {j1, j2}
    None = None
    TicksPerHour = 2
    MaxTime = 3
    StaleHandleTimeout = 0
    ArchiveEnabled = TRUE
    ArchiveMaxConcurrent = 1
    LateRecords = TRUE
    EarlyRecords = TRUE
    IOErrors = TRUE
    MaxShortWrites = 1
SYMMETRY Symmetry
CONSTRAINT EarlyAlone
INVARIANTS
    TypeOK
    PromptDurable
    TornLineCostsOne
    OpenHandlesTracked
PROPERTIES
    ArchivesAreFinal
    ImplementsStore
