CONSTANTS
    u1 = u1
    o1 = o1
    o2 = o2
    h1 = h1
    h2 = h2
    Users = {u1}
    Orders = {o1}
    DailyLimit = 3
    Handlers = {h1, h2}
    MaxFaults = 0
    Buyer <- MCBuyer
    Price <- MCPrice
    Credits <- MCCredits
SPECIFICATION Spec
INVARIANTS
    AckedIsCredited
CHECK_DEADLOCK FALSE
