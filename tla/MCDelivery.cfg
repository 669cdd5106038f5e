CONSTANTS
    a1 = a1
    a2 = a2
    f1 = f1
    s1 = s1
    ref = ref
    r1 = r1
    r2 = r2
    h1 = h1
    h2 = h2
    Accounts = {a1, a2}
    N = 2
    MaxAttempts = 2
    References = TRUE
    Archives = TRUE
    MaxFaults = 2
    ChanCap = 2
    MaxEvents = 4
    MaxPieces = 5
    Files = {f1}
    Sediments = {s1}
    Reference = ref
    Want = 2
    UploadAttempts = 2
    Max429 = 2
    MaxRounds = 4
    AnsCap = 2
    AnsMaxEvents = 3
    AnsCounts = {0, 7}
    AnsMaxImages = 2
    LastImage = 1
    Readers = {r1, r2}
    CacheTTL = 2
    CacheMax = 1
    MaxNow = 4
    MMaxFaults = 2
    Backups = {1, 2}
    BHandlers = {h1, h2}
    Retention = 1
    BMaxFaults = 1
    Editors = {h1, h2}
    ModelTTL = 1
    CatWrites = 2
    CatFaults = 1
SPECIFICATION DeliverySpec
INVARIANTS
    DeliversExactly
    QuotaMatches
    RunContained
    AnswerSound
    PollSound
    KeptSound
PROPERTIES
    BatchEnds
    DeliveryEnds
CHECK_DEADLOCK FALSE
