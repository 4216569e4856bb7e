SPECIFICATION ConsoleSpec
CONSTANTS
    Lines <- MCLines
    Capacity = 6
    SERIALNO_LEN = 4
    Stale = {0, 120}
    Factory <- MCFactory
    BoardFrt = 4
    BoardRes = 8
    MaxCommands = 3
    Inputs <- MCInputs
    BlockLen = 5
INVARIANTS SerialTerminated SerialIsQuoted SettingsInUse SettingsSurvive BlocksWhole RoundTrip
CHECK_DEADLOCK FALSE
