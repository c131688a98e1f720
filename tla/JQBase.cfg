SPECIFICATION Spec
CONSTANTS
    Jobs = {j1, j2}
    Workers = {w1, w2}
    Slots = {s1}
    Clients = {api, gui}
    Beats = {h1}
    NoJob = NoJob
    NoWorker = NoWorker
    MaxRetries = 0
    AgeLimit = 0
    MaxCrashes = 0
    MaxFaults = 0
    CanStop = FALSE
SYMMETRY AllSymmetry
INVARIANTS
    TypeOK
    Exclusive
    CancelReported
    UploadKept
PROPERTIES
    ImplementsLifecycle
