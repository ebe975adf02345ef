CONSTANTS
  r1 = r1  r2 = r2
  Req = {r1, r2}
  Orphans = {}
  ChannelCap = 2
  InputLen = 2
  MaxTokens = 2
  MaxChunks = 2
  MaxSse = 1
  UsizeMod = 16
  DebugBuild = TRUE
  Env = {"disconnect", "refuse", "break", "end", "term", "preempt"}
SPECIFICATION Spec
SYMMETRY Symmetry
PROPERTIES ImplementsReplica
CHECK_DEADLOCK FALSE
