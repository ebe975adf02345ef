CONSTANTS
  r1 = r1  r2 = r2
  Req = {r1, r2}
  Orphans = {}
  ChannelCap = 1
  InputLen = 2
  MaxTokens = 2
  MaxChunks = 1
  MaxSse = 1
  UsizeMod = 16
  DebugBuild = FALSE
  Env = {"disconnect"}
SPECIFICATION FairSpec
PROPERTIES ClientAnswered BatchDrains
