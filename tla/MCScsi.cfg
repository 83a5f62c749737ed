SPECIFICATION Spec
CONSTANTS
    None = None
    CdbLength <- BusCdb
    WdCdbLength <- ChipCdb
    DataLength <- Data
    Targets = {1}
    Removable = {1}
    CDB_LIMIT = 2
    MESSAGE_LIMIT = 2
    BYTE_COUNT_MAX = 2
    TRANSFER_COUNT_MAX = 2
    Opcodes = {"read", "write", "eject", "long"}
    MayFail = TRUE
    Guests <- MCGuests
INVARIANTS
    TransferSound
    NothingStalled
PROPERTIES
    StepsAccounted
