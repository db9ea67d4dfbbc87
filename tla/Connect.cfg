CONSTANTS
    Clients = {c1, c2}
    MAX_CLIENTS = 2
    Lifetime = 1
    sv_reconnectlimit = 3
    zombietime = 2
    timeout = 4
    MaxTime = 6
    MaxUsers = 2
    MaxSeq = 1
    MaxNet = 3
    MaxQport = 1
SPECIFICATION Spec
INVARIANTS OneSlot SameSession
CHECK_DEADLOCK FALSE
