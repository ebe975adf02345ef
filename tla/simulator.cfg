SPECIFICATION Spec
CONSTANTS
    Req <- MCReq
    InputLength <- MCInputLength
    Hashes <- MCHashes
    MaxDecode <- MCMaxDecode
    Predict <- MCPredict
    TokenBudget = 3
    BlockSize = 2
    MaxSlots = 8
    NumReplicas = 2
    MaxPrefills = 2
    CutsAtBudget = TRUE
    Preemptible = {1}
    Abortable = {2}
    Refusable = {3}
INVARIANTS
    MirrorExact
    ProgressExact
    SavepointRecovers
    RolloutOwnRequests
CHECK_DEADLOCK FALSE
