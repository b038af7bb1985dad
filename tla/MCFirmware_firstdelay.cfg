SPECIFICATION MainSpec
CONSTANTS
    Alarms <- MCAlarms
    InitOrder <- MCInitOrder
    Divisor <- MCDivisor
    DefaultMode = "100ms"
    None = "none"
    Wrap = 4
    Rates <- MCRates
    StartTicks <- MCTimeouts
    Periods <- MCTimeouts
    MaxAge = 1
    MaxLag = 0
    MaxCount = 3
    LineLength = 4
    Keys <- MCKeys
    MaxTyped = 2
    FreeAlarms <- MCFreeAlarms
    FreeOrder <- MCFreeOrder
    FreeDivisor <- MCFreeDivisor
    FreeWrap = 4
    FreeRates <- MCFreeRates
    FreePeriods <- MCFreePeriods
    FreeAge = 5
    FreeLag = 2
INVARIANT
    DelayTakesTime
