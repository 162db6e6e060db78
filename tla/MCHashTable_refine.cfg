SPECIFICATION Spec
CONSTANTS
    k1 = k1
    k2 = k2
    v1 = v1
    v2 = v2
    NoValue = NoValue
    NoThread = NoThread
    Idle = Idle
    Keys = {k1, k2}
    Values = {v1}
    KeyBytes <- KeysSpread
    CharSigned = TRUE
    ValLen <- MCValLen
    Small = FALSE
    Threads = {t1, t2}
    Kinds = {"set", "add", "softDelete", "del", "addUnlessThere"}
    AddModes <- ClientAdd
    BucketCounts = {2, 3}
    InitSize = 2
    NumLocks = 2
    MaxDataSize = 400
    FirstCas = 3
    MaxCas = 4
    CasArgs = {0, 3}
    RestoreCas = {1}
    Epoch = 10
    MaxTime = 0
    Exptimes = {0}
    LockTimeout = 1
    MaxResizes = 1
    CounterMod = 65536
PROPERTY ImplementsVersionedMap
SYMMETRY ThreadSymmetry
