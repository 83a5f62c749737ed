SPECIFICATION Spec
CONSTANTS
    None = None
    Torn = Torn
    Positions = {p1, p2}
    Versions = {v1, v2}
    MaxRecords = 2
    MaxSnapshots = 3
    MaxFaults = 2
SYMMETRY Interchangeable
CHECK_DEADLOCK FALSE
INVARIANTS
    NamedFilesComplete
    CatalogExact
PROPERTIES
    StartedRecordKept
