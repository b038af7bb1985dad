SPECIFICATION MCSpec
CONSTANTS
    INI_NUMBER = 3
    IDLE_MSB = 3
    Samples = {s1, s2}
    NoSample = NoSample
    Depth = 3
    Width = 2
    H_SYNC_CYC = 2
    H_SYNC_BACK = 1
    H_SYNC_ACT = 16
    H_SYNC_TOTAL = 33
    V_SYNC_CYC = 1
    V_SYNC_BACK = 1
    V_SYNC_ACT = 3
    V_SYNC_TOTAL = 5
    Addresses = 64
    Cursors <- MCCursors
    Top = 3
    Blink = 1
    Accelerations <- MCAccelerations
INVARIANT
    SameMeasurement
