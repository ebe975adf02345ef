SPECIFICATION Spec
CONSTANTS
    Req <- MCReq
    InputLength <- MCInputLength
    Hashes <- MCHashes
    MaxDecode <- MCMaxDecode
    Predict <- MCPredict
    TokenBudget = 3
    BlockSize = 2
    MaxSlots = 8
    NumReplicas = 1
    MaxPrefills = 2
    CutsAtBudget = TRUE
    Preemptible = {1}
    Abortable = {2}
    Refusable = {3}
INVARIANT
    SlotsNonEmpty
CHECK_DEADLOCK FALSE
