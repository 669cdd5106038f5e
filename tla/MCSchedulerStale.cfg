CONSTANTS
    a1 = a1
    a2 = a2
    p1 = p1
    w1 = w1
    w2 = w2
    w3 = w3
    Accounts = {a1}
    Proxies = {}
    Workers = {w1, w2, w3}
    MinInterval = 2
    DailyImageQuota = 2
    RatioPct = 60
    LockTTL = 1
    Cooldown429 = 2
    WarnedPause = 3
    QueueWait = 0
    MaxHold = 2
    DayLength = 3
    MaxTime = 3
    MaxCrashes = 0
    Answers = {"ok", "rateLimited", "warned", "dead"}
SPECIFICATION Spec
INVARIANTS
    IntervalMissedOnlyByStaleScan
    QuotaOvershootBounded
PROPERTIES
    OnlyOwnerUnlocks
SYMMETRY Symmetry
CHECK_DEADLOCK FALSE
