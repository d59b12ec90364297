SPECIFICATION UsbFairSpec
CONSTANTS
  Bootloaders <- MCBootloaders
  Requested <- MCRequested
  MaxRequests = 2
  MaxDeaths = 1
INVARIANTS
  Settles
  AdbdComesFirst
  EnabledNamed
  UsbInv
PROPERTIES
  AnswerTrue
  ConfigShown
CHECK_DEADLOCK FALSE
