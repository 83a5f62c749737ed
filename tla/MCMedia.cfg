SPECIFICATION Spec
CONSTANTS
    SmallBlock = 2
    LargeBlock = 4
    LbaLimit = 4
    SixByteZero = 256
    PageBytes = 4
    Discs <- MCDiscs
    DiscBytes <- MCDiscBytes
    DiskImage <- MCDiskImage
    GuestData = 2
    DiskCdbs <- MCDiskCdbs
    DriveCdbs <- MCDriveCdbs
    Parameters = {0, 2, 4}
    Sessions = {"Normal", "Recording", "Replaying"}
    ColdDiscs = {"A", "no disc"}
    ChunkBytes = {3}
    MaxGeneration = 2
    MaxFaults = 1
    MaxHostChanges = 2
    MaxCommands = 3
INVARIANTS
    SwapAnnounced
    MediaAgree
    SnapshotRestoresMedia
CHECK_DEADLOCK FALSE
