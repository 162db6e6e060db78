SPECIFICATION EngineFairSpec
CONSTANTS
    k1 = k1
    k2 = k2
    v1 = v1
    v2 = v2
    c1 = c1
    NoValue = NoValue
    Keys = {k1, k2}
    Values = {v1}
    Clients = {c1}
    TxnSizes = {0, 1, 2}
    SeparateRODispatcher = FALSE
    PreemptAfter = 0
    SizeMod = 65536
    MaxCas = 3
    MaxFailures = 1
    MaxFetches = 1
    BackendNames = {"sqlite", "couchdb", "blackhole"}
    StrategyNames = {"multiDB", "singleDB", "singleMTDB", "multiMTDB", "multiMTVBDB", "singledb", ""}
    DbNames = {"", "ep.db"}
INVARIANT TypeOK
INVARIANT AssertionsHold
INVARIANT RowsOwned
INVARIANT CleanMeansPersisted
INVARIANT DirtyIsQueued
INVARIANT NamesRoundTrip
INVARIANT CreateIgnoresUninitialized
PROPERTY CommitSoonHonoured
PROPERTY EventuallyPersisted
