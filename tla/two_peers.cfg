SPECIFICATION Spec
CONSTANTS
    Peers = {p1, p2}
    p1 = p1
    p2 = p2
    None = None
    NumPieces = 2
    BlockCount = 2
    PIPELINE_LIMIT = 1
    Messages <- ServesSome
    Faults = {"read", "timeout"}
    MaxTimers = 1
    MaxResults = 2
SYMMETRY PeerSymmetry
INVARIANTS
    MonitorView
    FreedWhenIdle
PROPERTY ImplementsWorkPool
