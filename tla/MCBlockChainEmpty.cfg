SPECIFICATION Spec
CONSTANTS
    g = g
    a1 = a1
    a2 = a2
    b1 = b1
    b2 = b2
    c1 = c1
    Block <- MCBlock
    Genesis = g
    Parent <- MCParent
    Anc <- MCAnc
    Work <- MCWork
    Orders <- MCOrders
    Invalid <- MCInvalid
    NotContextual <- MCNotContextual
    Unverified <- MCUnverified
    Refusable <- MCRefusable
    Depth = 0
    MaxOps = 1
    MaxCrash = 0
INVARIANT CandidateLeft
CHECK_DEADLOCK FALSE
