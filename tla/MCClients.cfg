SPECIFICATION FairSpec
CONSTANTS
    NumFiles = 3
    MaxFollowed = 2
    Uploaders = {u1, u2}
    MaxLost = 1
    MaxEvalFails = 1
    NumPictures = 2
    MaxWorkers = 2
    Jobs = {j1, j2}
    Unlucky = {j1}
    MaxEvents = 2
    MaxLines = 2
    MaxReceived = 4
    MaxJobs = 3
    PageSize = 1
    MaxParts = 3
    MaxDigit = 2
    MaxPages = 3
CHECK_DEADLOCK FALSE
INVARIANTS
    TypeOK
    PhoneRight
    ButtonsRight
    WindowRight
    TablesRight
    FormWhole
    FunctionsRight
PROPERTIES
    NothingStaysOwed
