SPECIFICATION FairSpec
CONSTANTS
    Peers = {p1}
    p1 = p1
    None = None
    NumPieces = 2
    BlockCount = 2
    PIPELINE_LIMIT = 1
    Messages <- AnyMessage
    Faults = {"connect", "read", "body", "write", "timeout"}
    MaxTimers = 2
    MaxResults = 3
INVARIANTS
    TypeOK
    PieceConservation
    RequestsAccounted
    NoSilentStall
    ClosedPeerReturnsPiece
    MonitorView
    FileHoldsVerifiedPieces
    FreedWhenIdle
PROPERTIES
    ClosedPeerDeliversNothing
    ClosedPeerRetires
    HeldPieceMovesOn
