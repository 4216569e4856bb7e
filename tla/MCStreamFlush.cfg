SPECIFICATION Spec
CONSTANTS
    Banks = 2
    EPSize = 2
    USB_STREAM_TIMEOUT_MS = 1
    Sessions <- Sending
PROPERTY FlushTerminates
CHECK_DEADLOCK FALSE
