SPECIFICATION FairSpec
CONSTANTS
    Workers = {w1, w2}
    MaxGeneration = 3
    MaxQueuedJobs = 2
    Levels = {30}
    MaxVolumeChanges = 0
PROPERTIES KeepsItsPromise OperationSettles OldDecodersEnd
CHECK_DEADLOCK FALSE
