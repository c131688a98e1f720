SPECIFICATION Spec
CONSTANTS
    Jobs = {j1}
    Workers = {w1, w2}
    Slots = {s1}
    Clients = {api}
    Beats = {h1}
    NoJob = NoJob
    NoWorker = NoWorker
    MaxRetries = 1
    AgeLimit = 1
    MaxCrashes = 0
    MaxFaults = 0
    CanStop = FALSE
SYMMETRY AllSymmetry
VIEW NoHistory
INVARIANTS
    NoDuplicateInQueue
