CONSTANTS
    q1 = q1
    q2 = q2
    r1 = r1
    r2 = r2
    t1 = t1
    p1 = p1
    l1 = l1
    e1 = e1
    e2 = e2
    ImLines = 2
    ImEmails = {e1, e2}
    ImBatchSize = 1
    ImMaxFaults = 1
    QAccounts = {q1, q2}
    QCap = 2
    QLimit = 1
    QMaxImages = 1
    QMaxEvents = 2
    Channels = {1, 2}
    CRequests = {r1, r2}
    CTests = {t1}
    RefChannels = {2}
    Wanted = 2
    CFailing = {1}
    CMaxEdits = 1
    Proxies = {p1}
    PLeases = {l1}
    Targets = {"ipify", "cloudflare"}
    Blocked = {"ipify"}
    PMaxEvents = 3
SPECIFICATION PoolSpec
INVARIANTS
    AccountsSound
    ChannelsSound
    ScoreExactUnlessRaced
PROPERTIES
    PoolRecovers
CHECK_DEADLOCK FALSE
