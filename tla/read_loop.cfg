SPECIFICATION Spec
CONSTANTS
    Peers = {p1}
    p1 = p1
    None = None
    NumPieces = 2
    BlockCount = 2
    PIPELINE_LIMIT = 1
    Messages <- AnyMessage
    Faults = {}
    MaxTimers = 2
    MaxResults = 3
INVARIANT OpenPeerKeepsReading
