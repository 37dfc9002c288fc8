SPECIFICATION Spec
CONSTANTS
    self = self
    m1 = m1
    p = p
    q = q
    MN <- MCMN
    Self = self
    Payee <- MCPayee
    NoPayee = NoPayee
    Queue <- MCQueue
    Network <- MCNetwork
    Unknown = {m1}
    Thread = {msg, miner}
    MsgThread = msg
    None = None
    Ahead = 1
    Window = 2
    Past = 0
    Limit = 0
    Required = 2
    FirstPaid = 0
    EarlyEnd = 3
    Premine = 2000
    Early = 1000
    Subsidy = 100
    MaxTip = 2
    MaxReorg = 1
    MaxStops = 1
INVARIANTS VotesCounted MinedIsAccepted TypeOK
CHECK_DEADLOCK FALSE
