SPECIFICATION Spec
CONSTANTS
    k1 = k1
    k2 = k2
    v1 = v1
    v2 = v2
    NoValue = NoValue
    NoThread = NoThread
    Idle = Idle
    Keys = {k1, k2}
    Values = {v1}
    KeyBytes <- KeysSpread
    CharSigned = TRUE
    ValLen <- MCValLen
    Small = FALSE
    Threads = {t1}
    Kinds = {"set", "add", "softDelete", "del", "getLocked", "unlockKey", "evict", "restore"}
    AddModes <- WarmupAdd
    BucketCounts = {3}
    InitSize = 3
    NumLocks = 1
    MaxDataSize = 1000
    FirstCas = 3
    MaxCas = 5
    CasArgs = {0, 3}
    RestoreCas = {}
    Epoch = 10
    MaxTime = 2
    Exptimes = {0}
    LockTimeout = 1
    MaxResizes = 0
    CounterMod = 65536
PROPERTY LockedRecordProtected
INVARIANT TypeOK
INVARIANT AccountingConsistent
INVARIANT EjectedIffPlaceholder
PROPERTY ImplementsVersionedMap
