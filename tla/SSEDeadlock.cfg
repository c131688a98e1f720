SPECIFICATION Spec
CONSTANTS
    Threads = {t1}
    Subs = {s1}
    NoThread = NoThread
    MaxSize = 2
    StaleLimit = 3
    IdleCleanup = FALSE
    MaxCalls = 5
CHECK_DEADLOCK FALSE
INVARIANTS
    NoSelfDeadlock
