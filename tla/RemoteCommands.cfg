SPECIFICATION FairRemoteSpec
CONSTANTS
    p = p
    s = s
    v = v
    Commands = {p, s, v}
    Refused = {}
    Kind <- Asked
    NoCommand = none
    MaxPending = 2
    MaxDeduped = 2
    MaxFrames = 2
    MaxConnections = 1
    MaxGeneration = 2
INVARIANTS InFlightIsOwned SuccessWasObserved
PROPERTIES LedgerSpec CurrentIsAnswered
CHECK_DEADLOCK FALSE
