CONSTANTS
    cl_c2sImpulseBackup = 3
    MAX_NET_DROP = 5
    MaxSequence = 7
SPECIFICATION MovesSpec
INVARIANTS OnceEach TwoLossesRecovered EveryMoveSent NotFaster ImpulseBackedUp
CHECK_DEADLOCK FALSE
