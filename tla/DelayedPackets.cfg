CONSTANTS
    Clients = {1, 2}
    MAX_DELAYED_PACKETS = 2
    MaxDelay = 2
    MaxPackets <- ThreeAndOne
    MaxSocket = 1
SPECIFICATION Spec
INVARIANTS ListsApart
PROPERTIES FirstInFirstOut HeldIsRun
CHECK_DEADLOCK FALSE
