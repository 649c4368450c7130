SPECIFICATION Spec
CONSTANTS
    a1 = a1
    a2 = a2
    a3 = a3
    b2 = b2
    b3 = b3
    b4 = b4
    t1 = t1
    t2 = t2
    w1 = w1
    w2 = w2
    w3 = w3
    Zero = Zero
    Blocks <- MCBlocks
    Prev <- MCPrev
    Num <- MCNum
    MaxNum = 4
    CacheSize = 8
    Txs <- MCTxs
    BlockTxs <- MCBlockTxs
    Requires <- Chained
    Executes = {}
    Bad = {}
    Witnesses = {w1, w2, w3}
    Signer <- MCSigner
    MinUndo = 3
    MaxUndoHistory = 8
    MaxBlockTxs = 1
    InOrder = TRUE
    MaxCrashes = 1
    MaxPushes = 8
    MaxPending = 3
INVARIANTS SwitchFollowsBranch  UndoReachesIrreversible
    LogHoldsChain
PROPERTIES TransactionsKept
