SPECIFICATION Spec
CONSTANTS
    base = base
    k1 = k1
    k2 = k2
    k3 = k3
    k4 = k4
    s = s
    a = a
    b = b
    c = c
    d = d
    Tx <- MCTx
    Outpoint <- MCOutpoint
    Inputs <- MCInputs
    Creator <- MCCreator
    Generated <- MCGenerated
    BlockTxs <- MCBlockTxs
    Base <- MCBase
    None = None
    Maturity = 2
    MaxHeight = 5
INVARIANTS NextTxExact PoolConnects TypeOK
PROPERTY LeavesForCause
