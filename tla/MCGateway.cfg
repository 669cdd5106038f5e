CONSTANTS
    u1 = u1
    r1 = r1
    r2 = r2
    Users = {u1}
    Requests = {r1, r2}
    Owner <- MCOwner
    Amounts = {0, 1, 2}
    Kinds = {"pool", "chatImage", "channelImage", "chat", "channelChat"}
    MaxFaults = 1
    MaxCredits = 2
SPECIFICATION Spec
INVARIANTS
    FrozenBacked
    CloseNeverConflicts
    LedgerReconciles
    DebtBounded
    HoldClosed
    BooksAgree
PROPERTIES
    ImplementsEscrow
SYMMETRY Symmetry
CHECK_DEADLOCK FALSE
