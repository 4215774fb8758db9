SPECIFICATION NfcSpec
CONSTANTS
  Uids = {u1}
  NoUid = NoUid
  Stations = {jz,df}
  NoStation = NoStation
  DefaultStation = df
  Starters = {boot}
  Mappers = {m1}
  MaxLoops = 3
  Retries = 1
  MaxPhone = 1
INVARIANT NfcTypeOK
INVARIANT OneJukebox
INVARIANT JukeboxRestored
PROPERTY CardIsPlayed
CHECK_DEADLOCK FALSE
