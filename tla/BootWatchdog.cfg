SPECIFICATION BootSpec
CONSTANTS
  DogTimeouts = {0, 4, 9, 39}
  LeaseSecs = 12
  DriverTimeout = 10
  RootTimeout = 12
  RootInterval = 7
INVARIANT RootFeederKeepsUp
CHECK_DEADLOCK FALSE
