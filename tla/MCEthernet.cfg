CONSTANTS
    MinFrame = 2
    MaxFrame = 4
    WireOverhead = 1
    Gap = 2
    Chunk = 2
    HpcTick = 2
    Scenarios <- AllScenarios
SPECIFICATION Spec
INVARIANTS
    FramesWhole
PROPERTIES
    DmaRests
CHECK_DEADLOCK FALSE
