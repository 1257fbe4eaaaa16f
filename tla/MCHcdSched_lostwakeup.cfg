SPECIFICATION Spec
CONSTANTS
    ctl0 = ctl0
    bulk1 = bulk1
    bulk2 = bulk2
    sysThread = sysThread
    acceptThread = acceptThread
    CtlEps <- OneControl
    BlkEps <- OneBulk
    Tds = {t1, t2}
    NoTd = NoTd
    NoEp = NoEp
    Clients <- BothThreads
    Streamer = acceptThread
    Stages = 1
    CtlStages <- SetupOnly
    BlkTransfers <- OnePacket
    StallEps <- NoEndpoint
    Responsive <- NoEndpoint
    MaxLen = 1
    Mps = 1
INVARIANTS BulkNotified
CHECK_DEADLOCK FALSE
