SPECIFICATION Spec
CONSTANTS
    Visitors = {w1}
    Shapes = {"items"}
    NumBuckets = 2
    Records <- MCRecords
    MaxDepth = 1
PROPERTY TouchedOnlyWhileActive
CHECK_DEADLOCK FALSE
