SPECIFICATION Spec
CONSTANTS
    Runs = {r1}
    MaxVersion = 2
    CanKill = FALSE
PROPERTIES
    NoExitInVain
