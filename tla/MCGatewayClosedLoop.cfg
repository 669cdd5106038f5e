CONSTANTS
    u1 = u1
    r1 = r1
    r2 = r2
    Users = {u1}
    Requests = {r1}
    Owner <- MCOwner
    Amounts = {0, 1, 2}
    Kinds = {"pool", "chatImage", "channelImage", "chat", "channelChat"}
    MaxFaults = 0
    MaxCredits = 1
SPECIFICATION Spec
INVARIANTS
    ClosedLoop
CHECK_DEADLOCK FALSE
