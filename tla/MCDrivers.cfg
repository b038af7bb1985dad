SPECIFICATION MCFairSpec
CONSTANTS
    length = 8
    DATA_ALIGN_SIZE = 2
    page_size = 4
    line_size = 4
    sectors <- MCSectors
    MayLack = {2}
    Offsets <- MCOffsets
    Data <- MCData
    c1 = c1
    c2 = c2
    Null = Null
    Callbacks <- MCCallbacks
    PolledDepth = 2
    PolledSizes = {0, 1, 3}
    PolledPlaces = 4
    Lengths <- MCLengths
    LogDepth = 1
    Length = 2
    ALT_LOG_SYS_CLK_INTERVAL = 1
    ALT_LOG_JTAG_UART_TICKS = 2
    ALT_LOG_WRITE_ECHO_LEN = 3
    Levels = {"silent", "default", "1", "2", "3"}
    Changing = {"uart_alarm"}
    Texts <- MCTexts
VIEW View
INVARIANTS
    BytesKept
    LogSound
PROPERTIES
    AdcSound
    KeepsPromise
    CallsReturn
