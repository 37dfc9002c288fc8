SPECIFICATION CoinsSpec
CONSTANTS
    t1 = t1
    t2 = t2
    c1 = c1
    c2 = c2
    g = g
    b1 = b1
    b2 = b2
    Txid <- MCTxid
    Coins <- MCCoins
    Pruned = Pruned
    Absent = Absent
    Block <- MCBlock
    Genesis = g
    Null = Null
INVARIANTS FlagsSound AssertFresh BestBlockIsItsState
PROPERTY ImplementsUTXOSet
