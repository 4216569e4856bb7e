SPECIFICATION FairSpec
CONSTANTS
    Requests <- MCRequests
    MainEndpoints = {3}
    MaxNest = 1
PROPERTY DisconnectEndsTransfer
