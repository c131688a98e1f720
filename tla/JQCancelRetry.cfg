SPECIFICATION Spec
CONSTANTS
    Jobs = {j1}
    Workers = {w1}
    Slots = {s1}
    Clients = {api}
    Beats = {h1}
    NoJob = NoJob
    NoWorker = NoWorker
    MaxRetries = 1
    AgeLimit = 0
    MaxCrashes = 0
    MaxFaults = 0
    CanStop = FALSE
INVARIANTS
    CancelReported
