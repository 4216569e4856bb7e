SPECIFICATION FairSpec
CONSTANTS
    Sensors = 2
    Scale = 4
    MaxRaw = 4
    Levels <- MovingAndResting
    thresh = 1
    dist = 10
    Cuts = {8}
INVARIANTS BaselineBetween NoFalseContact
PROPERTIES ContactSeen RightChannel ContactForgotten
CHECK_DEADLOCK FALSE
