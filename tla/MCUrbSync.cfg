SPECIFICATION FairSpec
CONSTANTS
    Sys = sysThread
    Accept = acceptThread
    u1 = u1
    u2 = u2
    Bulk <- MCBulk
    SocketSize = 1
    MaxTransfers = 3
INVARIANTS UrbTypeOK TdHasUrb SignalBeforeNextLink
PROPERTIES NobodyWaitsForEver
CHECK_DEADLOCK FALSE
