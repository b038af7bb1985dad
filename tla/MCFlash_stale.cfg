SPECIFICATION Spec
CONSTANTS
    length = 8
    DATA_ALIGN_SIZE = 2
    page_size = 4
    line_size = 2
    sectors <- MCSectors
    MayLack = {2}
    Offsets <- MCOffsets
    Data <- MCData
PROPERTY WritesThrough
