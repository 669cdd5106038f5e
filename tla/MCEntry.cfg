CONSTANTS
    u1 = u1
    u2 = u2
    o1 = o1
    o2 = o2
    h1 = h1
    h2 = h2
    c1 = c1
    c2 = c2
    e1 = e1
    e2 = e2
    Users = {u1}
    Orders = {o1, o2}
    DailyLimit = 4
    Handlers = {h1, h2}
    MaxFaults = 2
    Buyer <- MCBuyer
    Price <- MCPrice
    Credits <- MCCredits
    GUsers = {u1, u2}
    Codes = {c1, c2}
    Expiring = {c2}
    Days = {1, 2}
    GHandlers = {h1, h2}
    CodeCredits = 2
    Rewards = {0, 1}
    GMaxEvents = 2
    Emails = {e1, e2}
    IHandlers = {h1, h2}
    Open = TRUE
    IMaxEvents = 5
    Addresses = {e1}
    Senders = {h1, h2}
    EmailLimit = 2
    IPLimit = 1
    MMaxFaults = 1
    KKeys = {1, 2}
    KHandlers = {h1, h2}
    KeyMaxPerUser = 1
    KQuotas = {0}
    KeyDefaultQuota = 1
    KMaxPrice = 1
    KMaxEvents = 2
    RCap = 2
    RMaxDelay = 1
    RRefill = 1
    RHandlers = {h1, h2}
    RMaxTime = 4
    RMaxRequests = 2
    URows = 5
    UBuffer = 2
    UBatch = 2
SPECIFICATION EntrySpec
INVARIANTS
    CreditedOnce
    LedgerIsOrders
    PaidIsCredited
    GrantsSound
    MembersSound
    AccessSound
PROPERTIES
    StatusForward
    MoneyBecomesCredits
    EntryEnds
CHECK_DEADLOCK FALSE
