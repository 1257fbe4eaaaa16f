SPECIFICATION FairSpec
CONSTANTS
    ctl0 = ctl0
    bulk1 = bulk1
    bulk2 = bulk2
    sysThread = sysThread
    acceptThread = acceptThread
    CtlEps <- OneControl
    BlkEps <- OneBulk
    Tds = {t1, t2}
    NoTd = NoTd
    NoEp = NoEp
    Clients <- BothThreads
    Streamer = acceptThread
    Stages = 1
    CtlStages <- SetupOnly
    BlkTransfers <- OnePacket
    StallEps <- NoEndpoint
    Responsive <- MCAllEps
    MaxLen = 1
    Mps = 1
PROPERTIES ControlCompletes BulkRetried
CHECK_DEADLOCK FALSE
