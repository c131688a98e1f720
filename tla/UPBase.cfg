SPECIFICATION FairSpec
CONSTANTS
    Runs = {r1}
    MaxVersion = 3
    CanKill = TRUE
CHECK_DEADLOCK FALSE
INVARIANTS
    TypeOK
    ProgramKept
    NothingHalfDone
    PendingVerified
PROPERTIES
    ProgramComesBack
