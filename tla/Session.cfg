\* Three packets cut anywhere, pings, pushes by others, partial writes.
CONSTANTS
    Sizes <- TwoSizes
    Base = 4
    Payload = 0
    Header = 2
    Room = 12
    MaxPackets = 3
    MaxPings = 1
    MaxPushes = 1
    Parts = 2
SPECIFICATION Spec
INVARIANTS
    WholePackets
    LoopEnds
    EveryBufferHasWrite
    WireInOrder
    EchoOfOnePacket
CHECK_DEADLOCK FALSE
