SPECIFICATION FairSpec
CONSTANTS
    Banks = 2
    EPSize = 2
    USB_STREAM_TIMEOUT_MS = 1
    Sessions <- BothDirections
INVARIANTS NothingLost ReadOrDroppedWhole
PROPERTIES TimeoutNotEarly CallsReturn
CHECK_DEADLOCK FALSE
