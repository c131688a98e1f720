SPECIFICATION FairSpec
CONSTANTS
    Jobs = {j1, j2}
    Workers = {w1}
    Slots = {s1}
    Clients = {api}
    Beats = {h1}
    NoJob = NoJob
    NoWorker = NoWorker
    MaxRetries = 0
    AgeLimit = 0
    MaxCrashes = 0
    MaxFaults = 1
    CanStop = FALSE
INVARIANTS
    NoOrphan
PROPERTIES
    EveryJobEnds
