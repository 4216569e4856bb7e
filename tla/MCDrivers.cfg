SPECIFICATION FairSpec
CONSTANTS
  Commands <- TheCommands
  TotalLUNs = 1
  StorageCalls = 2
  Controls = 1
  BlockSize = 3
  HeaderSize = 2
  StatusSize = 2
  Inputs = {0, 1, 2}
  Zero = 0
  Banks = 2
  IdlePeriods = {0, 2}
  BankSize = 2
  Longest = 5
  Messages = {"filter", "halt", "unknown"}
  Parts = 2
  MessageCalls = 2
  Frames = 2
INVARIANTS InOrder OwnResponse
PROPERTIES OwnAnswers ExecutedInOrder CallsEnd ReportsSeen FlushEnds FramesFlow
CHECK_DEADLOCK FALSE
