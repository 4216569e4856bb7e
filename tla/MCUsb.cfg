SPECIFICATION Spec
CONSTANTS
    Requests <- MCRequests
    MainEndpoints = {3}
    MaxNest = 2
ACTION_CONSTRAINT DisturbedOnce
INVARIANTS MainOnItsEndpoint ConfiguredHasEndpoints FrozenCanWake
PROPERTIES AddressAfterStatus UnreadSetupKept
