SPECIFICATION Spec
CONSTANTS
    self = self
    m = m
    p = p
    q = q
    b1 = b1
    b2 = b2
    MN <- MCMN
    Self = self
    Others = 8
    Leaver = {m}
    Stranger = {m}
    Proposal <- MCProposal
    FinSeq <- MCFinSeq
    Payments <- MCPayments
    BlockStart <- MCStart
    From <- MCFrom
    To <- MCTo
    Amount <- MCAmount
    Total = 2
    Mined <- MCMined
    Traffic <- MCTraffic
    Cycle = 2
    FeeConfirmations = 2
    Establishment = 0
    UpdateMin = 2
    FirstTip = 1
    MaxTip = 6
    MaxStops = 1
    None = None
INVARIANTS TypeOK BudgetBlockAccepted OrphansWait
PROPERTIES ObsoleteRemoved ImmatureSettle
