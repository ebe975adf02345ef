CONSTANTS
  r1 = r1  r2 = r2  r3 = r3
  Req = {r1, r2, r3}
  Orphans = {}
  ChannelCap = 2
  InputLen = 2
  MaxTokens = 2
  MaxChunks = 1
  MaxSse = 2
  UsizeMod = 16
  DebugBuild = FALSE
  Env = {"disconnect", "term"}
SPECIFICATION Spec
SYMMETRY Symmetry
INVARIANTS TypeOK BatchSizeExact AllTokensExact WaitingExact LoopBoundary OutputVisible DeliveredAll
PROPERTIES ReleasedOnlyWhenDone
