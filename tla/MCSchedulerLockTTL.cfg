CONSTANTS
    a1 = a1
    a2 = a2
    p1 = p1
    w1 = w1
    w2 = w2
    w3 = w3
    Accounts = {a1}
    Proxies = {p1}
    Workers = {w1, w2}
    MinInterval = 2
    DailyImageQuota = 0
    RatioPct = 60
    LockTTL = 2
    Cooldown429 = 2
    WarnedPause = 3
    QueueWait = 1
    MaxHold = 4
    DayLength = 10
    MaxTime = 6
    MaxCrashes = 0
    Answers = {"ok", "rateLimited", "warned", "dead"}
SPECIFICATION Spec
INVARIANTS
    OneHolder
CHECK_DEADLOCK FALSE
