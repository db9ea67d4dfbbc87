CONSTANTS
    Sizes <- Three
    Denied = {1}
    MAXBLOCKS = 2
    Chunks = 2
    ServerChunks = 2
    MaxPackets = 1
    MaxOob = 2
    MaxFaults = 2
    MaxCommands = 1
SPECIFICATION FairSpec
INVARIANTS RingIsDisk SavedWhole OobRight
PROPERTIES AllSaved
CHECK_DEADLOCK FALSE
