SPECIFICATION SeededSpec
CONSTANTS
    Peers = {p1}
    p1 = p1
    None = None
    NumPieces = 2
    BlockCount = 2
    PIPELINE_LIMIT = 2
    Messages = {}
    Faults = {}
    MaxTimers = 1
    MaxResults = 4
    Has <- LastPieceOnly
    Quitters = {}
PROPERTY YieldedPeerTriesAgain
