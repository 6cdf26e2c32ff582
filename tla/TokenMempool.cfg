SPECIFICATION Spec
CHECK_DEADLOCK FALSE
CONSTANTS
    Tx <- Tx_def
    Base <- Base_def
    IdRange <- IdRange_def
    TokenHeight = 1
    TOKEN_MINCONFS = 1
    MaxOffers = 4
    MaxDisconnects = 0
    MaxRefusals = 0
    MaxRestarts = 0
    MaxBlockTxs = 2
    MaxIndexLag = 0
INVARIANTS
    MempoolInputsConfirmed
