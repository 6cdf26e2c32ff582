SPECIFICATION Spec
CONSTANTS
    sn1 = sn1
    sn2 = sn2
    Null = Null
    None = None
    Ips = {sn1, sn2}
    Proof <- MCProof
    Payee <- MCPayee
    nLastPoWBlock = 1
    SCORE_INCREASE = 50
    SCORE_DECREASE = 60
    BaseReward = 8824
    MaxHeight = 3
    MaxSubmits = 0
    MaxEvents = 1
INVARIANT
    OwnChainVerifies
