CONSTANTS
    Demos <- Files
    Second = 2
    ServerTime = 3
    LeftTimes = {0, 5}
    JumpRewind = 3
    MaxClock = 11
    MaxJumps = 2
SPECIFICATION PlayFairSpec
INVARIANTS PlaysOnTime
PROPERTIES SeekLands SeekEnds
CHECK_DEADLOCK FALSE
