SPECIFICATION Spec
CONSTANT MaxRequests = 3
CHECK_DEADLOCK FALSE
PROPERTY ToggleHonoured
