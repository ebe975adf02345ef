CONSTANTS
  r1 = r1  r2 = r2
  Req = {r1, r2}
  Orphans = {}
  ChannelCap = 2
  InputLen = 2
  MaxTokens = 2
  MaxChunks = 2
  MaxSse = 1
  UsizeMod = 16
  DebugBuild = FALSE
  Env = {"disconnect", "refuse", "break", "lose", "end", "term"}
SPECIFICATION Spec
SYMMETRY Symmetry
INVARIANTS EntryInOnePlace WaitingClientOwned NoSilentClose
CHECK_DEADLOCK FALSE
