SPECIFICATION Spec
CONSTANTS
    Stations <- Known
    Home = ""
    Queries = {"rock"}
    Matches <- Finds
    Catalog <- Snapshot
    Spoken <- Heard
    Delivered <- Phoned
    Moved <- FoundAs
    Favourites = {"x"}
    Page = 2
    MaxActions = 2
    Queue = 2
    Grace = 1
    Silence = 2
    PreSpeech = 3
    MaxSpeech = 4
    MaxRecording = 6
    MaxChunks = 4
    MaxChanges = 3
    MaxStarts = 2
INVARIANTS WindowOK NoStationTwice NothingIsSkipped NothingHeardIsLost FlushedIsSaved
PROPERTIES WindowSettles
CHECK_DEADLOCK FALSE
