SPECIFICATION Spec
CONSTANTS
    Txs <- MCTxs
    Outpoints <- MCOutpoints
    Inputs <- MCInputs
    Creator <- MCCreator
    Locks <- MCLocks
    Txid <- MCTxid
    Det = {"lpdet"}
    Blocks <- MCBlocks
    Genesis = "g"
    Parent <- MCParent
    Height <- MCHeight
    Path <- MCPath
    BlockTxs <- MCBlockTxs
    Worlds <- MCWorlds
    MaxQueue = 3
    None = None
INVARIANTS
    TypeOK
    
    PoolRespectsLocks
    ChainRespectsLocks
    MinedHeightsRight
    WaitsForUnknownTx
PROPERTIES
    ArchivedStays
CHECK_DEADLOCK FALSE
