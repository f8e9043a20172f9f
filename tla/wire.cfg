SPECIFICATION FairSpec
CONSTANTS
    BitsPerByte = 5
    WordBytes = 2
    protocol_str <- MCProtocol
    extensions <- MCExtensions
    info_hash <- MCHash
    peer_id <- MCPeerId
    RemoteId <- MCRemoteId
    NumPieces = 7
    piece_size = 3
    BLOCK_SIZE = 2
    contents <- MCContents
    Control <- MCControl
    Bitfields <- MCBitfields
    MaxSaid = 3
    MaxRequests = 2
    None = None
INVARIANTS
    TypeOK
    KnowsRemote
    AvailableAsSaid
    BlocksHoldTorrent
PROPERTIES
    HearsTheRemote
    IsUnderstood
    EverythingHeard
CHECK_DEADLOCK FALSE
