SPECIFICATION Spec
CONSTANTS
    FbWidth = 3
    FbHeight = 3
    DisplayWidth = 3
    DisplayHeight = 2
    MaxPixels = 8
    CursorExtent = 2
    CursorXOffset = 1
    CursorYOffset = 1
    MaxFrameTableEntries = 2
    LineTime = 2
    MemoryUnit = 64
    PageBytes = 32
    DescriptorBytes = 4
    DescriptorCycles = 2
    Quantum = 3
    Scenarios <- AllScenarios
INVARIANTS
    DisplayCurrent
    DmaKeepsTime
    UploadExact
CHECK_DEADLOCK FALSE
