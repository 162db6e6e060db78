SPECIFICATION Spec
CONSTANTS
    k1 = k1
    k2 = k2
    v1 = v1
    v2 = v2
    NoValue = NoValue
    NoThread = NoThread
    Idle = Idle
    Keys = {k1}
    Values = {v1}
    KeyBytes <- KeysCollide
    CharSigned = TRUE
    ValLen <- MCValLen
    Small = FALSE
    Threads = {t1}
    Kinds = {"set", "softDelete", "evict"}
    AddModes <- ClientAdd
    BucketCounts = {2}
    InitSize = 2
    NumLocks = 1
    MaxDataSize = 1000
    FirstCas = 1
    MaxCas = 4
    CasArgs = {0}
    RestoreCas = {}
    Epoch = 10
    MaxTime = 0
    Exptimes = {0}
    LockTimeout = 1
    MaxResizes = 0
    CounterMod = 65536
INVARIANT NonResidentCountExact
