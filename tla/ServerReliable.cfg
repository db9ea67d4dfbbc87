CONSTANTS
    MaxSize = 3
    MAX_BACK_BUFFERS = 2
    Sizes = {1, 3, 4}
    MaxWrites = 4
SPECIFICATION LiveSpec
INVARIANTS StreamIntact PrefixUntilDropped NoSysError
PROPERTIES SavedIsSent
CHECK_DEADLOCK FALSE
