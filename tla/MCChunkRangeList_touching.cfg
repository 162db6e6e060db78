SPECIFICATION Spec
CONSTANTS
    Null = Null
    Ids <- MCIds
    ChunkSizes = {2}
    RangeSizes = {1}
    MaxRanges = 3
INVARIANT AddKeepsDisjoint
