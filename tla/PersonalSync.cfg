SPECIFICATION FairSpec
CONSTANTS
    Records = {1, 2, 3, 4, 5}
    Stations = {{1, 2}, {3}}
    Accounts = {home, other}
    NoFile = NoFile
    BatchLimit = 1
    MAX_FAVOURITES = 2
    MAX_HISTORY = 1
    MaxLocal = 1
    MaxRemote = 2
    MaxFaults = 1
INVARIANTS SyncOK CursorCovers TombstonesAreDeliberate
PROPERTIES Converges
CHECK_DEADLOCK FALSE
