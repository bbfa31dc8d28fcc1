SPECIFICATION FairSpec
CONSTANTS
  Header = 2
  MaxSeq = 4
  QueueLength = 1
  MaxTries = 2
  MaxCommands = 2
  None = None
INVARIANTS AckedIsReceived HeaderFirst ResendIsWaited
PROPERTIES LoggerIsReleased AnsweredOrStopped
