SPECIFICATION UsbFairSpec
CONSTANTS
  Bootloaders <- MCBootloaders
  Requested <- MCHidden
  MaxRequests = 1
  MaxDeaths = 0
PROPERTIES
  HiddenMenuShown
CHECK_DEADLOCK FALSE
