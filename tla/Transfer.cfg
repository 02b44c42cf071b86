CONSTANTS
    MaxCaptures = 2
    Sizes = {0, 2, 3}
    Clips = {2}
    PacketLength = 2
    MaxQueue = 2
    MaxOutbox = 2
    MaxLosses = 1
SPECIFICATION FairSpec
INVARIANTS
    TypeOK
    NoStall
    ChunkInBounds
    DeliveredWhole
PROPERTIES
    StreamSpec
    TransfersEnd
