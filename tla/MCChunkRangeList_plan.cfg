SPECIFICATION Spec
CONSTANTS
    Null = Null
    Ids <- MCIds
    ChunkSizes = {1, 2, 3}
    RangeSizes = {0, 1, 2, 3}
    MaxRanges = 3
INVARIANT TypeOK
INVARIANT RangesSorted
INVARIANT RowIdsDeletedOnce
PROPERTY CoverageNeverShrinks
PROPERTY CreateRangeListIsChunking
PROPERTY AdaptingKeepsDisjoint
