SPECIFICATION DeviceSpec
CONSTANTS
    Facts = {a, b}
    NoFact = none
    MaxRevision = 3
    MaxFaults = 2
    MaxResyncs = 1
    MaxRestarts = 1
    Commands = {c1, c2, c3, bad}
    Refused = {bad}
    MaxPending = 2
    MaxDeduped = 2
    MaxFrames = 4
    MaxConnections = 2
INVARIANTS NothingSkipped RevisionNamesFact LedgerOK ReplayNeedsForgetting OneVerdict
PROPERTIES RevisionNeverFalls SnapshotsArrive ResultsAreSent
CHECK_DEADLOCK FALSE
