SPECIFICATION Spec
CONSTANTS
    MaxInt = 5992
    Digits10 = 3
    SizeDigits10 = 4
    Word = 256
    Beyond <- MCBeyond
    Replies <- MCReplies
    SendSizes = {70}
    RecvSize = 80
    Faults = {}
    Worlds <- HostWorlds
    ReadSize = 50
INVARIANT HostNamesTracker
