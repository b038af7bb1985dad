SPECIFICATION MCFairSpec
CONSTANTS
    Alarms <- MCAlarms
    InitOrder <- MCInitOrder
    Divisor <- MCDivisor
    DefaultMode = "100ms"
    None = "none"
    Wrap = 2
    Rates <- MCRates
    StartTicks <- MCTimeouts
    Periods <- MCTimeouts
    MaxAge = 2
    MaxLag = 1
    MaxCount = 6
    LineLength = 4
    Keys <- MCKeys
    MaxTyped = 4
    FreeAlarms <- MCFreeAlarms
    FreeOrder <- MCFreeOrder
    FreeDivisor <- MCFreeDivisor
    FreeWrap = 4
    FreeRates <- MCFreeRates
    FreePeriods <- MCFreePeriods
    FreeAge = 5
    FreeLag = 2
INVARIANTS
    ProgramSound
    DelaysPaced
PROPERTIES
    CounterNeverWraps
    ImplementsDisplay
    RunCompletes
    DelayEnds
