SPECIFICATION Spec
CONSTANTS
    None = None
    FREQUENCY_HZ = 3
    ATTOSECONDS_PER_SECOND = 5
    ADDRESSES = 2
    FAULT_AT = 2
    U64_MAX = 9
    CHECKPOINT_INTERVAL = 1
    DiskMayFail = TRUE
    StorageMayFail = TRUE
    NetworkMayFail = FALSE
    Ethernet = FALSE
    Modes = {"Normal", "Recording", "Replaying"}
    Breakpoints = {}
    MaxLog = 5
    MaxLiveLog = 0
    MaxGenerations = 3
    MaxNetworks = 5
    MaxRecordings = 1
    MaxRuns = 2
    MaxFrames = 0
INVARIANTS
    ReplayFaithful
    RecordSound
    
