SPECIFICATION PacingSpec
CONSTANTS
    amax = 3
    array_offset = 4
    Slots = 8
    MsPeriod = 4
    MsMod = 10
    TicksPerPass = 2
    Requests <- PacedRequests
PROPERTY WindowNotEarly
