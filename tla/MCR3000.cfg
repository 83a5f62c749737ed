SPECIFICATION Spec
CONSTANTS
    PageBytes = 8
    SegBytes = 16
    TLB_ENTRY_COUNT = 3
    LookupSlots = {0}
    LookupSlot <- MCLookupSlot
    MaxGeneration = 3
    RandomWired = 1
    RandomTop = 2
    CacheWords = 1
    RefillWords = 1
    FrameWords = 2
    PartialStoreEnabled = TRUE
    Programs <- MCPrograms
    Registers = {0, 1, 31}
    Reading <- MCReading
    InstructionOf <- MCInstructionOf
    Merge <- MCMerge
    JumpRegion = 8
INVARIANTS
    TranslationsAgree
    ControlFollowed
    LastWriteWins
CHECK_DEADLOCK FALSE
