SPECIFICATION SyncFairSpec
CONSTANTS
    Peer <- MCThreePeers
    Churn <- MCNobody
    Threshold = 2
    MaxItems = 1
    ClearMayFail = FALSE
    QuietRounds = 3
    LateRounds = 5
    RetryRounds = 12
PROPERTY ListStageEnds
