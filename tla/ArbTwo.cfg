SPECIFICATION Spec
CONSTANTS
  Clients <- MCClients
  Pids <- MCPids
  NoPid = NoPid
  Plays = {p1, p2}
  Stops = {}
  Starters = {}
  Viewers = {}
  Tap = Tap
  MaxConnects = 1
  MaxRestarts = 0
INVARIANT OneSupervisor
INVARIANT TakeoverSilencesSomaFM
CHECK_DEADLOCK FALSE
