SPECIFICATION Spec
CONSTANTS
  Clients <- MCClients
  Pids <- MCPids
  NoPid = NoPid
  Plays = {p1}
  Stops = {}
  Starters = {}
  Viewers = {}
  Tap = Tap
  MaxConnects = 1
  MaxRestarts = 0
PROPERTY BluetoothNotReplaced
CHECK_DEADLOCK FALSE
