CONSTANTS
    HEADER_SIZE = 2
    MAX_PACKET_SIZE = 3
    MAX_RECV_BUFFER_SIZE = 4
    Lengths <- MCLengths
    SendSpace = 4
    MaxSend = 2
SPECIFICATION Spec
INVARIANTS AlwaysRoom
PROPERTIES FifoBothWays NoneIsLeftWaiting NoZombie
CHECK_DEADLOCK FALSE
