CONSTANTS
    Client = client
    Server = server
    MaxMessage = 1
    MaxSeq = 5
    MaxWrites <- OneAndTwo
SPECIFICATION Spec
INVARIANTS ExactlyOnce PacketInv IInv
PROPERTIES NoNeedlessResend BothReliable
CHECK_DEADLOCK FALSE
