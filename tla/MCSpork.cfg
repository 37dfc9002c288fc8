SPECIFICATION Spec
CONSTANTS
    a = a
    b = b
    c = c
    Node <- MCNode
    Signer <- MCSigner
    Restarting <- MCPeer
    Value <- MCOne
    Default = 0
    MaxTime = 2
    MaxRestarts = 1
INVARIANT QuietAgree
PROPERTIES NeverOlder RestartKeeps
CHECK_DEADLOCK FALSE
