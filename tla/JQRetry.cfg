SPECIFICATION Spec
CONSTANTS
    Jobs = {j1, j2}
    Workers = {w1}
    Slots = {s1}
    Clients = {api}
    Beats = {h1}
    NoJob = NoJob
    NoWorker = NoWorker
    MaxRetries = 1
    AgeLimit = 0
    MaxCrashes = 0
    MaxFaults = 0
    CanStop = TRUE
SYMMETRY AllSymmetry
INVARIANTS
    CancelHonoured
    BoundedRuns
    CompletedWasPrinted
