SPECIFICATION Spec
CONSTANT MaxRequests = 3
CHECK_DEADLOCK FALSE
INVARIANTS IInv AtMostOneMiner NoOrphanThread
PROPERTIES StopServed StartServed
