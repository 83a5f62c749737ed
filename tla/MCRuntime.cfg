SPECIFICATION FairSpec
CONSTANTS
    None = None
    FREQUENCY_HZ = 3
    ATTOSECONDS_PER_SECOND = 5
    ADDRESSES = 2
    FAULT_AT = 9
    U64_MAX = 2
    CHECKPOINT_INTERVAL = 1
    DiskMayFail = FALSE
    StorageMayFail = FALSE
    NetworkMayFail = TRUE
    Ethernet = TRUE
    Modes = {"Normal", "Recording", "Replaying"}
    Breakpoints = {1}
    MaxLog = 2
    MaxLiveLog = 2
    MaxGenerations = 2
    MaxNetworks = 2
    MaxRecordings = 1
    MaxRuns = 1
    MaxFrames = 2
INVARIANTS
    StopsJustified
    FramesExact
PROPERTIES
    RevisionAdvances
    WorkerProgress
