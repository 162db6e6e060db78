SPECIFICATION FairSpec
CONSTANTS
    Visitors = {w1, w2}
    Shapes = {"items", "depth"}
    NumBuckets = 2
    Records <- MCRecords
    MaxDepth = 2
INVARIANT TypeOK
INVARIANT NoWalkOnFreedTable
PROPERTY DestructorEnds
PROPERTY StatVisitorCountsTable
PROPERTY DepthVisitorFindsExtremes
CHECK_DEADLOCK FALSE
