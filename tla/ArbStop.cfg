SPECIFICATION Spec
CONSTANTS
  Clients <- MCClients
  Pids <- MCPids
  NoPid = NoPid
  Plays = {p1}
  Stops = {s1}
  Starters = {}
  Viewers = {v1}
  Tap = Tap
  MaxConnects = 1
  MaxRestarts = 1
INVARIANT TypeOK
INVARIANT BluetoothClaimIsHeld
INVARIANT StopSilences
CHECK_DEADLOCK FALSE
