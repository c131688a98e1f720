SPECIFICATION FairSpec
CONSTANTS
    Threads = {t1, t2}
    Documents = {d1}
    Parted = {d1}
    OfficeApps = {"word"}
    NoThread = NoThread
    NoDoc = NoDoc
    MaxStarts = 2
    Keys = {k1, k2}
    MaxSettings = 2
    MaxCrashes = 1
    Ports = {p1, p2}
    MaxRestarts = 1
    MaxFiles = 3
    MaxDiskFaults = 1
    Printers = {q1, q2}
    MaxChanges = 2
CHECK_DEADLOCK FALSE
INVARIANTS
    TypeOK
    NothingLeft
    CancelEffective
    CopiesExplained
    SettingsKept
    OneServer
    BatchRight
PROPERTIES
    EveryRunEnds
    CallsReturn
    EventsTrue
