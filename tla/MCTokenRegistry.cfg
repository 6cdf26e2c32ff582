SPECIFICATION Spec
CHECK_DEADLOCK FALSE
CONSTANTS
    Tx <- Tx_def
    Base <- Base_def
    IdRange <- IdRange_def
    TokenHeight = 1
    TOKEN_MINCONFS = 1
    MaxOffers = 3
    MaxDisconnects = 1
    MaxRefusals = 1
    MaxRestarts = 1
    MaxBlockTxs = 2
    MaxIndexLag = 1
INVARIANTS
    TypeOK
    RegistryInv
    KnownUnique
    MempoolNamesUnique
    ChainUniqueUntilRestart
    
    VerdictFollowsChainWhenClean
