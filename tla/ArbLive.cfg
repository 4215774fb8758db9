SPECIFICATION FairSpec
CONSTANTS
  Clients <- MCClients
  Pids <- MCPids
  NoPid = NoPid
  Plays = {p1}
  Stops = {}
  Starters = {s1}
  Viewers = {}
  Tap = Tap
  MaxConnects = 1
  MaxRestarts = 0
PROPERTY ClaimReleasedAfterStream
PROPERTY BluetoothGetsDevice
CHECK_DEADLOCK FALSE
