SPECIFICATION FairPacingSpec
CONSTANTS
    amax = 3
    array_offset = 4
    Slots = 8
    MsPeriod = 2
    MsMod = 5
    TicksPerPass = 4
    Requests <- AllRequests
INVARIANTS SlotsInBounds StreamCounters WindowNotLate
PROPERTIES ImplementsStream KeepsSending FiniteEnds
