SPECIFICATION Spec
CONSTANTS
    k1 = k1
    k2 = k2
    v1 = v1
    v2 = v2
    NoValue = NoValue
    NoThread = NoThread
    Idle = Idle
    Keys = {k1, k2}
    Values = {v1}
    KeyBytes <- KeysCollide
    CharSigned = TRUE
    ValLen <- MCValLen
    Small = FALSE
    Threads = {t1}
    Kinds = {"set", "add", "softDelete", "del", "addUnlessThere"}
    AddModes <- ClientAdd
    BucketCounts = {2}
    InitSize = 2
    NumLocks = 1
    MaxDataSize = 1000
    FirstCas = 3
    MaxCas = 5
    CasArgs = {0, 1, 2, 3, 4}
    RestoreCas = {1}
    Epoch = 10
    MaxTime = 2
    Exptimes = {0, 11}
    LockTimeout = 1
    MaxResizes = 0
    CounterMod = 65536
INVARIANT CasNeverReused
PROPERTY StaleTokenNeverWins
