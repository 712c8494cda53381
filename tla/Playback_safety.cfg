SPECIFICATION Spec
CONSTANTS
    Workers = {w1, w2, w3}
    MaxGeneration = 3
    MaxQueuedJobs = 7
    Levels = {50}
    MaxVolumeChanges = 1
SYMMETRY WorkerSymmetry
INVARIANTS OneOutput SettledIsSilent LocalPlayingIsReal
PROPERTIES StalePlayTouchesNothing
CHECK_DEADLOCK FALSE
