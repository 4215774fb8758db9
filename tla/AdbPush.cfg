SPECIFICATION Spec
CONSTANTS
  Shells = {sh1, sh2}
  Syncs = {sy}
  Texts = {}
  Script <- MCScript
  Answers = 2
  MaxIn = 0
  MaxChannels = 1
  PtyIn = 2
  PtyOut = 1
  Pack = 2
  Pipelined = TRUE
  Overlap = FALSE
  Drops = FALSE
INVARIANT SyncServed
CHECK_DEADLOCK FALSE
