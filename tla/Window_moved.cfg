SPECIFICATION Spec
CONSTANTS
    Stations <- Known
    Home = ""
    Queries = {"rock"}
    Matches <- Finds
    Catalog <- Snapshot
    Spoken <- Heard
    Delivered <- Phoned
    Moved <- FoundAs
    Favourites = {"c", "x"}
    Page = 2
    MaxActions = 1
    Queue = 2
    Grace = 1
    Silence = 2
    PreSpeech = 3
    MaxSpeech = 4
    MaxRecording = 6
    MaxChunks = 4
    MaxChanges = 3
    MaxStarts = 2
PROPERTY MovedIsFavourite
CHECK_DEADLOCK FALSE
