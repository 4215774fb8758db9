SPECIFICATION StreamsSpec
CONSTANTS
  Formats <- MCFormats
  Rate = 1500
  Channels = 1
  Delays <- MCDelays
  BufSize = 5
  MinRead = 3
  MaxBytes = 13
  drone = drone
  groove = groove
  Stations = {drone, groove}
  NoStation = NoStation
  Clients = {player}
  BufferBytes = 3
  Sizes = {1, 2}
  MaxChunks <- MCMaxChunks
  MaxSelects = 2
INVARIANT TypesOK
INVARIANT AllBytesKept
INVARIANT CompleteAtEof
INVARIANT HeardInOrder
INVARIANT OneStaleBatch
PROPERTY IsDelayedStream
PROPERTY EndsAfterSource
PROPERTY FollowsSelection
PROPERTY NewChunkHeard
CHECK_DEADLOCK FALSE
