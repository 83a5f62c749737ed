CONSTANTS
    Tick = 2
    ByteSize = 2
    SgiKey = {"a", "shift"}
    Repeatable = {"a"}
    KeyFrame = 5
    KeyBaud = 2
    RepeatDelay = 5
    RepeatUnits = 9
    RepeatRate = 2
    MouseFrame = 3
    MouseBaud = 2
    AxisMin <- MCAxisMin
    AxisMax = 1
    ReceiveFifo = 2
    TransmitFifo = 2
    ReceiveThreshold = 2
    SecondUnits = 1
    ClockHz = 8
    Millisecond = 2
    MsPerHundredth = 2
    HundredthsPerSecond = 2
    SecondsPerMinute = 4
    MinutesPerHour = 2
    HalfDay = 2
    Digit = 2
    DaysPerWeek = 3
    MonthsPerYear = 2
    ShortMonths = {}
    LongMonth = 3
    LeapFebruary = 2
    YearsPerCentury = 4
    CalendarCycle = 51
    AddressBits = 1
    DataBits = 2
    HpcSecond = 4
    HpcClock = 7
    CounterModulus = 5
    FifoIndexBits = 1
    Installed <- MCInstalled
    Scenarios <- AllScenarios
SPECIFICATION Spec
INVARIANTS
    NothingOverdue
    TimeSplitsExactly
    InputFaithful
PROPERTIES
    StepsSound
CHECK_DEADLOCK FALSE
