SPECIFICATION FairSpec
CONSTANTS
    MAX_FRAME_BYTES = 2
    MAX_FRAMES = 2
    MAX_BYTES = 2
    BATCH = 1
    WAKE_BUFFER = 1
    Lengths = {1, 3}
    MaxSends = 3
    MaxPackets = 2
    None = None
INVARIANTS
    ReadinessAgrees
    WakeupsKept
    TxInOrder
PROPERTIES
    ReceiveIsFifo
    SessionLive
