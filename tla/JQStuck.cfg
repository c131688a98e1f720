SPECIFICATION FairSpec
CONSTANTS
    Jobs = {j1}
    Workers = {w1}
    Slots = {s1}
    Clients = {api}
    Beats = {h1}
    NoJob = NoJob
    NoWorker = NoWorker
    MaxRetries = 0
    AgeLimit = 2
    MaxCrashes = 1
    MaxFaults = 1
    CanStop = FALSE
PROPERTIES
    StuckIsRecovered
