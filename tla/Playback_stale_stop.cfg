SPECIFICATION Spec
CONSTANTS
    Workers = {w1, w2, w3}
    MaxGeneration = 3
    MaxQueuedJobs = 6
    Levels = {50}
    MaxVolumeChanges = 0
PROPERTY StaleStopTouchesNothing
CHECK_DEADLOCK FALSE
