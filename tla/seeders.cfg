SPECIFICATION SeededSpec
CONSTANTS
    Peers = {p1, p2}
    p1 = p1
    p2 = p2
    None = None
    NumPieces = 3
    BlockCount = 3
    PIPELINE_LIMIT = 2
    Messages = {}
    Faults = {"connect", "read", "body"}
    MaxTimers = 1
    MaxResults = 4
    Has <- Seeders
    Quitters = {p2}
INVARIANTS
    SeededTypeOK
    BothBooksAgree
PROPERTY DownloadCompletes
