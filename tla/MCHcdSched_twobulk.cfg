SPECIFICATION Spec
CONSTANTS
    ctl0 = ctl0
    bulk1 = bulk1
    bulk2 = bulk2
    sysThread = sysThread
    acceptThread = acceptThread
    CtlEps <- OneControl
    BlkEps <- TwoBulk
    Tds = {t1, t2, t3}
    NoTd = NoTd
    NoEp = NoEp
    Clients <- BothThreads
    Streamer = acceptThread
    Stages = 0
    CtlStages <- SetupOnly
    BlkTransfers <- OnePacket
    StallEps <- MCAllEps
    Responsive <- NoEndpoint
    MaxLen = 1
    Mps = 1
SYMMETRY TdSymmetry
PROPERTIES ServiceSpec
CHECK_DEADLOCK FALSE
