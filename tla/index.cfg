SPECIFICATION Spec
CONSTANTS
    Bid <- MCBid
    Hash <- MCHash
    None = None
    Node <- MCNode
    Null = Null
    Root = 0
    SmallMax = 1
    BlockSize = 2
    MinChunk = 2
    Req <- MCReq
    Prompt <- MCPrompt
    GenToken <- MCGenToken
    MaxGen <- MCMaxGen
    Preemptible = {1}
    MaxBatch = 2
    Reports = {"suffix", "prefix"}
INVARIANTS
    NoPanic
    TableConsistent
    IndexExact
    TreeAnswers
    HashesAligned
CHECK_DEADLOCK FALSE
