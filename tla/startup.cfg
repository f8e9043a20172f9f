SPECIFICATION FairSpec
CONSTANTS
    MaxInt = 5992
    Digits10 = 3
    SizeDigits10 = 4
    Word = 256
    Beyond <- MCBeyond
    Replies <- MCReplies
    SendSizes = {70}
    RecvSize = 80
    Faults = {"resolve", "connect", "send", "recv", "cut"}
    Worlds <- MCWorlds
    ReadSize = 50
INVARIANTS
    TypeOK
    FileReadWhole
    AcceptsTorrents
    MetadataAsWritten
    InfoHashOfFile
    ReencodedDecodes
    RequestUnderstood
    BodyIsPrefix
    ReturnedBodyIsWhole
    PeersAsListed
PROPERTIES
    AsksOnce
    Terminates
