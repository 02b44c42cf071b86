CONSTANTS
    MaxCaptures = 1
    Sizes = {0}
    Clips = {}
    PacketLength = 2
    MaxQueue = 2
    MaxOutbox = 2
    MaxLosses = 0
SPECIFICATION FairSpec
PROPERTIES
    EveryTransferEnds
