SPECIFICATION PcmSpec
CONSTANTS
  Formats <- MCFormats
  Rate = 1500
  Channels = 1
  Delays <- MCDelays
  BufSize = 5
  MinRead = 1
  MaxBytes = 7
INVARIANT AllBytesKept
CHECK_DEADLOCK FALSE
