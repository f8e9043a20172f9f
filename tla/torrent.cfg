SPECIFICATION Spec
CONSTANTS
    Word = 16
    BLOCK_SIZE = 3
    Torrents <- MCTorrents
    None = None
INVARIANTS
    TypeOK
    BufferExactlyFilled
    FileInPlace
    WholePiecesWritten
