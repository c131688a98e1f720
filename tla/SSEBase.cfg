SPECIFICATION FairSpec
CONSTANTS
    Threads = {t1, t2}
    Subs = {s1}
    NoThread = NoThread
    MaxSize = 2
    StaleLimit = 2
    IdleCleanup = TRUE
    MaxCalls = 2
CHECK_DEADLOCK FALSE
INVARIANTS
    TypeOK
    InOrder
    EvictedForCause
PROPERTIES
    EveryCallEnds
    EveryLeaverGone
