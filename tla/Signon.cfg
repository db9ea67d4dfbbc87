CONSTANTS
    Sounds = 4
    Models = 5
    ByteValues = 3
    Statics = 2
    Buffers = 1
    BufferSize = 4
    Players = 4
    Room = 6
    MaxLevel = 2
    MaxPrints = 1
    MaxDownloads = 1
    MaxRestarts = 1
SPECIFICATION SignonFairSpec
INVARIANTS SpawnedComplete NeverFails NeverDropped DoneWithSounds
PROPERTIES SignonFinishes
CHECK_DEADLOCK FALSE
