SPECIFICATION FairSpec
CONSTANTS
    Devices = {tv, bar}
    MaxOps = 3
    Types = 2
    IdleLimit = 2
    MaxReports = 3
INVARIANTS SessionsOK SessionPlays OthersAreSilent
PROPERTIES PlayEnds
CHECK_DEADLOCK FALSE
