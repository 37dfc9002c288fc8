SPECIFICATION SyncFairSpec
CONSTANTS
    Peer <- MCFivePeers
    Churn <- MCOnePeer
    Threshold = 1
    MaxItems = 1
    ClearMayFail = FALSE
    QuietRounds = 1
    LateRounds = 2
    RetryRounds = 1
INVARIANT SyncTypeOK
INVARIANT FinishedOnChain
PROPERTY StageEnds
