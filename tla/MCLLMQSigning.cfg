CONSTANTS
    Nodes = {n1, n2, n3}
    Faulty = {n3}
    Quorums = {q1, q2}
    q1 = q1
    q2 = q2
    Collectors = {n1}
    Members <- MCMembers
    Threshold <- MCThreshold
    Ids = {id1}
    Msgs = {m1, m2}
    None = None
    MaxLosses = 2
SYMMETRY MCSymmetry
SPECIFICATION Spec
INVARIANTS TypeOK SharesFollowVotes   
  
CHECK_DEADLOCK FALSE
