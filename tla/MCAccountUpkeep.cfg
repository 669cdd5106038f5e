CONSTANTS
    scan = scan
    admin = admin
    Refreshers = {scan, admin}
    Scanner = scan
    Life = 2
    Ahead = 1
SPECIFICATION FairSpec
PROPERTIES
    RTKept
    DeadOnlyExpired
    DeletedFrozen
    Attended
