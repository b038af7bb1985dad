SPECIFICATION MCSpec
CONSTANTS
    BUF_LEN = 3
    INT_MAX = 4
    DefaultTimeout = 2
    FifoDepth = 1
    Sizes <- MCSizes
    Timeouts <- MCTimeouts
    Places = 6
    NoDev = NoDev
    alt_dev_null = alt_dev_null
    uart = uart
    aux = aux
    disk = disk
    nameless = nameless
    unnamed = unnamed
    Devs <- MCDevs
    Filesystems <- MCFilesystems
    Callbacks <- MCCallbacks
    Name <- MCName
    Files <- MCFiles
    ALT_STDIN <- Console
    ALT_STDOUT <- Console
    ALT_STDERR <- Console
    ALT_MAX_FD = 5
    Accesses = {"RDONLY", "WRONLY", "RDWR"}
    Length = 2
    Causes = {3, 6}
    LineSize = 2
    DCacheLines = 2
    ICacheLines = 1
    RamSize = 12
    Sections <- MCSections
    BssStart = 9
    BssEnd = 11
    ExceptionWords = {2, 3}
    IrqDevices <- MCDevices
    StateOf <- MCStateOf
    HeapSize = 6
    BlockSizes = {2, 3}
    MaxBlocks = 2
    Half = 3
    Word = 64
    LoopsPerUs = 4
    Functions = {"f", "g"}
    Callers = {"m"}
    Increment = 3
    TextBytes = 2
    BucketBytes = 2
    MaxCalls = 3
    Bits = 8
    ALT_PUTBUF_SIZE = 3
    LogFormats <- MCLogFormats
    Formats <- MCFormats
    Values <- MCValues
    Strings <- MCStrings
VIEW View
INVARIANTS
    TypeOK
    InOrder
    InterruptsArmed
    SpinsForCause
    PrintfSound
    TimersSound
    ExceptionsSound
    ProfilerSound
    CachesSound
    BoardSound
PROPERTIES
    DescriptorsKept
