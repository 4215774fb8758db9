SPECIFICATION Spec
CONSTANTS
  Shells = {sh1, sh2}
  Syncs = {}
  Texts = {tx}
  Script <- MCScript
  Answers = 2
  MaxIn = 1
  MaxChannels = 2
  PtyIn = 2
  PtyOut = 1
  Pack = 2
  Pipelined = TRUE
  Overlap = TRUE
  Drops = FALSE
INVARIANT InputInOrder
INVARIANT OutputComplete
INVARIANT OneOutstanding
CHECK_DEADLOCK FALSE
