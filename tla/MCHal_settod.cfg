SPECIFICATION MCSpec
CONSTANTS
    Alarms = {a1, a2}
    Wrap = 6
    Rates <- MCRates
    StartTicks <- MCStartTicks
    Periods <- MCPeriods
    ListAlarms = {"a", "b", "c"}
    Null = Null
    ListHead = Head
    ListWrap = 3
    ListStartTicks = {0, 1}
    ListPeriods = {0, 1}
    ALT_NIRQ = 2
    Handlers = {"isr"}
    MaxSaved = 1
    MaxFrames = 3
    Careful = TRUE
    DayWrap = 16
    ALT_US = 6
    DayRates = {0, 3}
    Times <- MCTimes
    Zones = {"GMT", "MET"}
    Word = 4
    Limit = 12
    Increments = {0, 1, 4, 5}
PROPERTY
    SetIsSeen
