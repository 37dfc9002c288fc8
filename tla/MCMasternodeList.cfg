SPECIFICATION FairSpec
CONSTANTS
    Node = {hot, cold}
    Hot = hot
    Cold = cold
    None = None
    MaxVer = 2
    MinPing = 1
    MinBroadcast = 1
    Fresh = 2
    Expire = 2
    Removal = 3
    MaxFaults = 1
INVARIANTS ListedIsServed TypeOK
PROPERTIES PingingIsEnabled SpentIsRemoved
