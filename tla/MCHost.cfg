SPECIFICATION HostSpec
CONSTANTS
    USB_HOST_TIMEOUT_MS = 1
    HOST_DEVICE_SETTLE_DELAY_MS = 1
    ShortWait = 2
    LongWait = 2
    ResetWait = 1
    DescriptorLength = 1
    Drivers <- TheDrivers
    Descriptors <- TheDescriptors
    Addresses = {1, 2}
    LongestConfiguration = 6
    StackDepth = 2
    UsageDepth = 1
    MaxCollections = 2
    MaxItems = 4
    MaxIDs = 2
    ReportIDs = {1, 258}
    BitSizes = {3, 511}
    ReportCounts = {2, 255}
    LongestReport = 7
INVARIANTS PipesBelongTogether FieldsApart
PROPERTIES EnumeratedCompletely AnswersInTime EnumerationEnds
CHECK_DEADLOCK FALSE
