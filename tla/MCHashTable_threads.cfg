SPECIFICATION FairSpec
CONSTANTS
    k1 = k1
    k2 = k2
    v1 = v1
    v2 = v2
    NoValue = NoValue
    NoThread = NoThread
    Idle = Idle
    Keys = {k1, k2}
    Values = {v1}
    KeyBytes <- KeysSpread
    CharSigned = TRUE
    ValLen <- MCValLen
    Small = TRUE
    Threads = {t1, t2}
    Kinds = {"find", "set", "add", "softDelete", "del"}
    AddModes <- ClientAdd
    BucketCounts = {2, 3}
    InitSize = 2
    NumLocks = 2
    MaxDataSize = 98
    FirstCas = 1
    MaxCas = 3
    CasArgs = {0}
    RestoreCas = {}
    Epoch = 10
    MaxTime = 0
    Exptimes = {0}
    LockTimeout = 1
    MaxResizes = 2
    CounterMod = 65536
INVARIANT AccountingConsistent
INVARIANT RecordsHomed
INVARIANT ShadowedRecordsExpired
INVARIANT CeilingOverrunBounded
PROPERTY CallsReturn
